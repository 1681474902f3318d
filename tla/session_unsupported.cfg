SPECIFICATION Spec
CONSTANTS
  f1 = f1
  f2 = f2
  v1 = v1
  Files = {f1, f2}
  Versions = {v1}
  ArchiveNames = {"compressed", "mine"}
  DefaultName = "compressed"
  Compressors = {"gnuzip", "zip", "xz"}
  Installed = {"zip"}
  MaxSends = 2
  Faults = {}
  MaxFaults = 1
INVARIANTS
  ConfirmedCompressorInstalled
CHECK_DEADLOCK FALSE
