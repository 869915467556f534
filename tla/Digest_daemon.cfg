SPECIFICATION FairSpec
CONSTANTS
  Dates = {9, 11}
  Start = 9
  Horizon = 12
  DayLength = 2
  ColdStart = 2
  MaxWindow = 2
  Lookbacks = {1, 4}
  MinSignals = 1
  Interval = 2
  MaxRequests = 2
  MaxFailures = 1
  MaxRestarts = 1
INVARIANTS TypeOK LatestIsLatest
PROPERTIES DueDigestIsMade
CHECK_DEADLOCK FALSE
