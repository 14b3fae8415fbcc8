SPECIFICATION EmbSpec
CONSTANTS
  r1 = r1
  r2 = r2
  r3 = r3
  p1 = p1
  p2 = p2
  p3 = p3
  Releases = {r1, r2, r3}
  None = None
  Torn = Torn
  Corrupt = Corrupt
  Procs = {p1, p2}
  Faults = {}
  MaxImages = 0
  Bad = {r3}
  Slow = TRUE
  MaxHeads = 2
  MaxStops = 0
  MaxCrashes = 0
  MaxPowerLosses = 0
SYMMETRY Symmetry
INVARIANT EmbSettled
CHECK_DEADLOCK FALSE
