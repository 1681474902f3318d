SPECIFICATION FairSpec
CONSTANTS
  c1 = c1
  c2 = c2
  Conn = {c1, c2}
  MAX_CLIENT = 1
  Faults = {"accept", "mkdir", "rm", "thread", "file"}
PROPERTIES
  ImplementsWorkers
  DepartedIsReleased
  QueuedIsServed
\* The process may end, and the last connection may be released.
CHECK_DEADLOCK FALSE
