SPECIFICATION Spec
CONSTANTS
  Users = {u1, u2}
  Workers = {w1, w2}
  None = None
  Keep = 1
  Migrations = 2
  Repeatable = {1}
  Versions = {1, 2}
  MaxQuotes = 2
  MaxFaults = 2
INVARIANTS TypeOK SchemaWhole LastOnesKept ShowsWhatWasAsked ReadyIsEarned
PROPERTIES StartsAgain NeverHalfAlive
