SPECIFICATION FairSpec
CONSTANTS
  f1 = f1
  v1 = v1
  Files = {f1}
  Versions = {v1}
  ArchiveNames = {"compressed"}
  DefaultName = "compressed"
  Compressors = {"gnuzip"}
  Installed = {}
  MaxSends = 2
  Faults = {"create", "read", "io", "disk", "tar", "kill", "server"}
  MaxFaults = 2
PROPERTIES
  CommandReturns
  GoneIsNoticed
\* The session ends when the user quits, or when its framing is lost.
CHECK_DEADLOCK FALSE
