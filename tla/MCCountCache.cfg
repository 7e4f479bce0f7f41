CONSTANTS
  Requests = {q1, q2}
  Threads = {t1, t2}
  MaxSyncs = 2
  MaxBatches = 2
  MaxFaults = 1
  None = None
SPECIFICATION Spec
INVARIANTS TypeOK CountsCoverSync OneRefresh
PROPERTIES CountsNeverGoBack CountsConverge
