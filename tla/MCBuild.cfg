SPECIFICATION FairSpec
CONSTANTS
  Releases = {r1, r2}
  Zero = Zero
  Broken = Broken
  Sizes = {1, 3}
  NoBlob = NoBlob
  MaxChain = 2
  MaxEdges = 3
  NumFrames = 4
  BlobWorkers = 2
  FetchTries = 2
  MaxFaults = 2
  WrongBytes = TRUE
  MayStop = TRUE
INVARIANTS PlanReachesHead PlanIsCheapest DispatchedOnce VerifyMeansWrong WaitsForBlob
PROPERTY BuildEnds
CHECK_DEADLOCK FALSE
