SPECIFICATION EmbFairSpec
CONSTANTS
  r1 = r1
  r2 = r2
  r3 = r3
  p1 = p1
  p2 = p2
  p3 = p3
  Releases = {r1, r2, r3}
  None = None
  Torn = Torn
  Corrupt = Corrupt
  Procs = {p1, p2}
  Faults = {}
  MaxImages = 0
  Bad = {r3}
  Slow = FALSE
  MaxHeads = 2
  MaxStops = 1
  MaxCrashes = 1
  MaxPowerLosses = 0
PROPERTIES EmbConverges StaysServed
CHECK_DEADLOCK FALSE
