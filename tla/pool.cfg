SPECIFICATION Spec
CONSTANTS
  c1 = c1
  c2 = c2
  c3 = c3
  Conn = {c1, c2, c3}
  MAX_CLIENT = 2
  Faults = {}
INVARIANTS
  PoolInv
  UniqueIDs
  SessionOwnsSlot
  SessionOwnsDirs
  MemoryFaultsExplained
  QuiescentClean
PROPERTIES
  SlotClearedByOwner
\* The process may end, and the last connection may be released.
CHECK_DEADLOCK FALSE
