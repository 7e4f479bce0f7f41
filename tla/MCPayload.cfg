CONSTANTS
  MaxRel = 2
  Pieces <- MCPieces
  Shared <- MCShared
  Base = 1
  At90 = 2
  At95 = 3
  At99 = 2
  Grace = 2
  MaxRuns = 3
  MaxFaults = 2
  None = None
SPECIFICATION Spec
INVARIANTS TypeOK FullIsExact SilenceIsBounded RetainedIntact
PROPERTIES PiecesAreKept DownloadsEnd
CHECK_DEADLOCK FALSE
