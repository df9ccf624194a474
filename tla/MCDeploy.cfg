SPECIFICATION FairSpec
CONSTANTS
  Deployers = {d1, d2}
  Images = {v1, v2, broken}
  Sound = {v1, v2}
  None = None
  MaxDeploys = 4
  MaxFaults = 2
  MaxCrashes = 2
CHECK_DEADLOCK FALSE
INVARIANTS TypeOK FilesAreProven SuccessIsServed FailureRestores
PROPERTIES PullBeforeService DeploymentsEnd
