SPECIFICATION Spec
CONSTANTS
  f1 = f1
  v1 = v1
  f2 = f2
  v2 = v2
  Files = {f1, f2}
  Versions = {v1, v2}
  ArchiveNames = {"compressed", "mine"}
  DefaultName = "compressed"
  Compressors = {"gnuzip", "zip"}
  Installed = {"zip"}
  MaxSends = 2
  Faults = {"edit"}
  MaxFaults = 1
SYMMETRY Symmetry
INVARIANTS
  ConfigAgreement
  SendMeansStored
  ReceivedArchiveIsCurrent
  RefusalJustified
PROPERTIES
  ImplementsService
\* The session ends when the user quits.
CHECK_DEADLOCK FALSE
