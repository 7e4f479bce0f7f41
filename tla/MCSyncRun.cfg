SPECIFICATION Spec
CONSTANTS
  Workers = {w}
  Clis = {c1}
  Collections = {zlib}
  MaxRel = 2
  Offered <- OneMovesOn
  Chunks = {k1, k2}
  MaxDownloads = 1
  ReusePrev = TRUE
  None = None
  MaxFaults = 1
  MaxOps = 2
SYMMETRY Symmetry
INVARIANTS TypeOK LockIsSession CompletedExact ImportInv CountInv
PROPERTIES ImportUnderLock CompletedIsKept RetainedIsKept ImplementsService
