CONSTANTS
  Md5s <- MCMd5s
  MaxRank = 2
  MaxLimit = 2
  MaxWrites = 2
  Gone = Gone
SPECIFICATION Spec
INVARIANTS TypeOK StableRowsOnce NothingSkipped
CHECK_DEADLOCK FALSE
