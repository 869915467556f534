SPECIFICATION FairSpec
CONSTANTS
  m1 = m1
  m2 = m2
  Messages <- MCMessages
  Filters <- MCFilters
  Workers = {"listener", "api", "daemon", "service"}
  ChunkSize = 1
  MinSignals = 2
  MaxJobs = 1
  MaxFaults = 2
  None = None
INVARIANTS TypeOK OnlyTornRowsMisflagged ProcessingHasWorker
PROPERTIES EveryMessageGetsARow
CHECK_DEADLOCK FALSE
