SPECIFICATION FairSpec
CONSTANTS
  Names = {"a"}
  Illegal = {}
  Ports <- MCPorts
  MIN_PORT = 10
  MAX_PORT = 99
  IntMax = 127
INVARIANTS
  TypeOK
  PortAsTyped
  AbortExplained
  FolderExplained
PROPERTIES
  LineIsAnswered
CHECK_DEADLOCK FALSE
