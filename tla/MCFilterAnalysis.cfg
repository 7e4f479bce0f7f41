CONSTANTS
  Clients = {k1, k2}
  k1 = k1
  k2 = k2
  Names = {"default", "other"}
  Defaults = {"default"}
  MaxRel = 2
  MaxOps = 4
  MaxFaults = 1
SPECIFICATION Spec
CHECK_DEADLOCK FALSE
INVARIANT TypeOK RunningIsOwned StatsAreLatest
PROPERTY EndsOnce JobsEnd
