SPECIFICATION Spec
CONSTANTS
  Names = {"a"}
  Illegal = {}
  Ports <- MCPorts
  MIN_PORT = 10
  MAX_PORT = 99
  IntMax = 127
INVARIANTS
  LocalFileIsFound
CHECK_DEADLOCK FALSE
