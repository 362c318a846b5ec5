SPECIFICATION FairSpec
CONSTANTS
    NumberFiles = 4
    Broken = {2}
    NumberProcesses = 2
    PipeSize = 1
    MaxCommands = 3
    MaxChanges = 1
INVARIANTS
  ParseComplete
  FreshParse
PROPERTIES
  CommandEnds
CHECK_DEADLOCK FALSE
