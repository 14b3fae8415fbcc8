SPECIFICATION GoAwareSpec
CONSTANTS
  MaxVarint = 100000
  SubbucketSize = 4
  Subbuckets = 4
  PcHeaderSize = 8
  Decode <- MCDecode
  Span <- MCSpan
  Wide = 4
  Numbered <- MCNumbered
  Digits <- MCDigits
  WindowHash <- MCWindowHash
  Lookahead = 1
  MaxOccur = 4
  SectNames <- MCSectNames
  MaxFuncs = 50
  MaxPatchSize = 500
  MaxFuncName = 8
  GfBlock = 4
  GfTol = 1
  DataBlock = 4
  OvMinVotes = 2
  Pairs <- MCMergedPairs
  link <- Link
  PredictWorkers = 2
  buildMaps <- BuildMaps
  collectVotes <- CollectVotes
  majorities <- Majorities
  fixBlocks <- FixBlocks
  overrides <- Overrides
  decodeLayout <- DecodeLayout
  skeleton <- Skeleton
  predictBlobs <- PredictBlobs
  predictSections <- PredictSections
  MapJobs <- NoMaps
  MapWorkers = 2
  MinSharded = 3
INVARIANT OneEntryPerTarget
CHECK_DEADLOCK FALSE
