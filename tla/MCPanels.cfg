SPECIFICATION Spec
CONSTANTS
  Users = {u1}
  Workers = {w1, w2}
  Slots = {1}
  SlotOf <- OneSlot
  Nobody = Nobody
  Kinds = {"rate", "orders"}
  Providers = {"wallet"}
  Values = {"v"}
  Commands <- SomeCommands
  Starts <- SomeStarts
  Texts <- MenuTexts
  Patience = 0
  QueueCap = 2
  MaxUpdates = 2
  MaxNow = 0
  MaxFaults = 1
  MaxCrashes = 1
SYMMETRY Interchangeable
CHECK_DEADLOCK FALSE
INVARIANTS TypeOK ButtonsNeverAhead OneScreenPerRevision PressIsCurrent TypedIntoOpenInput MenuBelowCommand
PROPERTY RevisionsGrow
