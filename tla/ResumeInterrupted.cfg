SPECIFICATION Spec
CONSTANTS
  Clients = {r1}
  MaxCommands = 2
  MaxImports = 1
  MaxFaults = 0
PROPERTY ResumedRunIsWhole
