SPECIFICATION Spec
CONSTANTS
  c1 = c1
  Conn = {c1}
  MAX_CLIENT = 1
  Faults = {}
PROPERTIES
  HandshakeFailureCloses
\* The process may end, and the last connection may be released.
CHECK_DEADLOCK FALSE
