SPECIFICATION Spec
CONSTANTS
  f1 = f1
  v1 = v1
  v2 = v2
  Files = {f1}
  Versions = {v1, v2}
  ArchiveNames = {"compressed"}
  DefaultName = "compressed"
  Compressors = {"gnuzip", "xz"}
  Installed = {"zip"}
  MaxSends = 2
  Faults = {"create", "read", "io", "disk", "tar", "edit", "kill", "server"}
  MaxFaults = 2
SYMMETRY Symmetry
INVARIANTS
  TypeOK
  ConfigInv
  SendInv
  ArchiveInv
  RefusalInv
  RefusalJustifiedUnlessFailed
  FrameInv
  FramingKept
  NotBothWaiting
  ArchiveHoldsFile
PROPERTIES
  ImplementsWorkers
  ImplementsService
\* The session ends when the user quits, or when its framing is lost.
CHECK_DEADLOCK FALSE
