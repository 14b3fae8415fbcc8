SPECIFICATION Spec
CONSTANTS
  r1 = r1
  r2 = r2
  r3 = r3
  p1 = p1
  p2 = p2
  Releases = {r1, r2, r3}
  None = None
  Publishers = {p1, p2}
  Versions = {1, 2}
  Encoder <- SameEncoder
  BigPatches <- Big
  MaxChain = 2
  CasAttempts = 2
  CacheLimit = 2
  Clocks = {0, 2}
  MaxRuns <- Runs
SYMMETRY Machines
CHECK_DEADLOCK FALSE
INVARIANTS ChainIsHistory EdgesFetchable ReturnedHasBlob
PROPERTY SeqGrows
