SPECIFICATION Spec
CONSTANTS
  r1 = r1
  r2 = r2
  r3 = r3
  Releases = {r1, r2, r3}
  None = None
  Torn = Torn
  Corrupt = Corrupt
  Agent = agent
  Procs = {agent}
  MaxImages = 0
  Foreign = Foreign
  Faults = {"writePending", "renameNew", "unmark", "removePending", "clearPending"}
  Bad = {r3}
  TooBig = {}
  HasCheck = TRUE
  StaleReads = FALSE
  RestartFails = TRUE
  MaxPointers = 2
  MaxTerms = 1
  MaxCrashes = 1
  MaxPowerLosses = 1
SYMMETRY Symmetry
INVARIANTS TypeOK Recoverable
PROPERTIES NoReinstall
CHECK_DEADLOCK TRUE
