SPECIFICATION StoreSpec
CONSTANTS
  w1 = w1
  w2 = w2
  s1 = s1
  p1 = p1
  Writers = {w1, w2}
  SshWriters = {s1}
  Pollers = {p1}
  Casts <- MCCasts
  BlobWriters = {s1}
  Inodes = {1, 2, 3, 4}
  Size = 2
  MaxClock = 1
  MaxPuts = 1
  MaxBlobs = 1
  MaxLosses = 1
  InodeReuse = FALSE
  NoFile = NoFile
  None = None
INVARIANTS LockOwned WholeObject NotModifiedIsTrue
PROPERTY Refines
CHECK_DEADLOCK FALSE
