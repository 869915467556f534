SPECIFICATION Spec
CONSTANTS
  Dates = {9, 11}
  Start = 9
  Horizon = 13
  DayLength = 2
  ColdStart = 2
  MaxWindow = 3
  Lookbacks = {1, 4}
  MinSignals = 1
  Interval = 2
  MaxRequests = 1
  MaxFailures = 0
  MaxRestarts = 0
INVARIANT DigestHoldsItsWindow
CHECK_DEADLOCK FALSE
