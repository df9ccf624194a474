SPECIFICATION Spec
CONSTANTS
  Users = {u1}
  Workers = {w1, w2}
  Slots = {1}
  SlotOf <- OneSlot
  Nobody = Nobody
  Kinds = {"rate", "orders"}
  Providers = {"wallet"}
  Values = {"v"}
  Commands <- PayInputs
  Starts <- BankStart
  Texts <- MenuTexts
  Patience = 0
  QueueCap = 2
  MaxUpdates = 2
  MaxNow = 1
  MaxFaults = 0
  MaxCrashes = 0
SYMMETRY Interchangeable
CHECK_DEADLOCK FALSE
INVARIANTS StaleButtonsKeepNewerValues
