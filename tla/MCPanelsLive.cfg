SPECIFICATION FairSpec
CONSTANTS
  Users = {u1, u2}
  Workers = {w1, w2}
  Slots = {1}
  SlotOf <- OneSlot
  Nobody = Nobody
  Kinds = {"rate", "orders"}
  Providers = {"wallet"}
  Values = {"v"}
  Commands <- MenuInputs
  Starts <- OneStart
  Texts <- MenuTexts
  Patience = 0
  QueueCap = 2
  MaxUpdates = 2
  MaxNow = 0
  MaxFaults = 1
  MaxCrashes = 0
CHECK_DEADLOCK FALSE
PROPERTIES HandlersEnd EverythingHandled
