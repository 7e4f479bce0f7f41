CONSTANTS
  Md5s <- MCMd5s
  MaxRank = 2
  MaxLimit = 2
  MaxWrites = 0
  Gone = Gone
SPECIFICATION Spec
INVARIANTS NoRowTwice
CHECK_DEADLOCK FALSE
