SPECIFICATION FairSpec
CONSTANTS
  Clients = {r1}
  MaxCommands = 3
  MaxImports = 1
  MaxFaults = 2
INVARIANTS TypeOK AppliedInOrder PauseHolds
PROPERTIES LastCommandWins RunNowServed
CHECK_DEADLOCK FALSE
