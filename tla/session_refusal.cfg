SPECIFICATION Spec
CONSTANTS
  f1 = f1
  f2 = f2
  v1 = v1
  Files = {f1, f2}
  Versions = {v1}
  ArchiveNames = {"compressed", "mine"}
  DefaultName = "compressed"
  Compressors = {"gnuzip", "bzip2"}
  Installed = {}
  MaxSends = 2
  Faults = {"tar"}
  MaxFaults = 1
INVARIANTS
  RefusalJustified
CHECK_DEADLOCK FALSE
