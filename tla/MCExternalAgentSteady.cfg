SPECIFICATION FairSpec
CONSTANTS
  r1 = r1
  r2 = r2
  r3 = r3
  Releases = {r1, r2, r3}
  None = None
  Torn = Torn
  Corrupt = Corrupt
  Agent = agent
  Procs = {agent}
  MaxImages = 0
  Foreign = Foreign
  Faults = {}
  Bad = {r3}
  TooBig = {r2}
  HasCheck = TRUE
  StaleReads = TRUE
  RestartFails = FALSE
  MaxPointers = 3
  MaxTerms = 0
  MaxCrashes = 0
  MaxPowerLosses = 0
INVARIANTS Settled FailedWasInstalled
PROPERTIES NoReplay Converges
