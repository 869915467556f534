SPECIFICATION FairSpec
CONSTANTS
  MaxId = 2
  MaxVersion = 1
  Limit = 1
  IdCases <- MCAllCases
  MaxUpsets = 2
INVARIANTS TypeOK GapsAreAccounted
PROPERTIES DeletedStaysDeleted TextNeverGoesBack IncrementalCatchesUp
