SPECIFICATION Spec
CONSTANTS
  c1 = c1
  c2 = c2
  Conn = {c1, c2}
  MAX_CLIENT = 1
  Faults = {}
INVARIANTS
  AtMostMaxClient
\* The process may end, and the last connection may be released.
CHECK_DEADLOCK FALSE
