SPECIFICATION FairSpec
CONSTANTS
  Workers = {w}
  Clis = {}
  Collections = {zlib}
  MaxRel = 2
  Offered <- OneMovesOn
  Chunks = {k1, k2}
  MaxDownloads = 1
  ReusePrev = TRUE
  None = None
  MaxFaults = 1
  MaxOps = 1
PROPERTIES NewerIsFetched
