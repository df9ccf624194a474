SPECIFICATION Spec
CONSTANTS
  Ads = {1, 2, 3, 4}
  Sound = {1, 3, 4}
  Starts <- SomeStarts
  PageSize = 2
  MaxPages <- SomePages
  Deadline = 3
  CallTimeout = 2
  Backoff <- Pauses
  MaxWait = 2
  Delays = {0, 2, 3}
  MaxMoves = 1
  Interval = 2
  TTL = 4
  Ahead = 1
  Slack = 1
  Watched = 1
  None = None
INVARIANTS TypeOK NoAdTwice WholeUnlessSlid NoGhosts FeesConfirmed
PROPERTY Recovers
