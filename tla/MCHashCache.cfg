SPECIFICATION HashSpec
CONSTANTS
  MaxRelease = 2
  MaxEdits = 2
  MaxCrashes = 1
  FineClock = TRUE
  Foreign = 9
INVARIANTS CacheTruthful DriftGoesToBlob
PROPERTIES UpToDateIsTrue Converges
CHECK_DEADLOCK FALSE
