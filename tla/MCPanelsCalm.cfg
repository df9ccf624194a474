SPECIFICATION Spec
CONSTANTS
  Users = {u1}
  Workers = {w1, w2}
  Slots = {1}
  SlotOf <- OneSlot
  Nobody = Nobody
  Kinds = {"rate", "orders"}
  Providers = {"wallet"}
  Values = {"v"}
  Commands <- MenuInputs
  Starts <- SomeStarts
  Texts <- MenuTexts
  Patience = 0
  QueueCap = 2
  MaxUpdates = 3
  MaxNow = 1
  MaxFaults = 0
  MaxCrashes = 0
SYMMETRY Interchangeable
CHECK_DEADLOCK FALSE
INVARIANTS StaleButtonsKeepNewerValues
