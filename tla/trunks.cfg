SPECIFICATION FairSpec
CONSTANTS
  NET_TRUNK = 2
  IntMax = 7
  Sizes = {0, 1, 2, 3, 5, 6, 8, 16, 17}
  MaxSent = 10
INVARIANTS
  TypeOK
  BlocksFit
  StreamAligned
  FileArrives
PROPERTIES
  ImplementsMessage
  LoopsEnd
\* The transfer ends, or waits for ever where the length is not countable.
CHECK_DEADLOCK FALSE
