SPECIFICATION CodecSpec
CONSTANTS
  MaxVarint = 128
  MinMatch = 2
  Window = 3
  Near = 2
  Probe = 2
  Bucket <- MCBucket
  Margin = 1
  DiffMergeGap = 2
  MergeGap = 2
  SrcSlack = 2
  FrameSize = 3
  BrotliMax = 1
  MaxPlainSize = 10
  MaxTransform = 1
  Supported <- MCSupported
  LayoutOk <- MCLayoutOk
  LayoutOf <- MCLayoutOf
  Tables1a <- MCTables1a
  Tables1b <- MCTables1b
  predictTables <- MCPredictTables
  predictWhole <- MCPredictWhole
  PatchJobs <- MCPatchJobs
  BlobJobs <- MCBlobJobs
  Others <- MCOthers
  BlobParallel = 2
  MaxFaults = 1
  plainDiff <- MCPlainDiff
  plainPatch <- PlainPatch
  encodeCorrection <- EncodeCorrection
  applyCorrection <- ApplyCorrection
  zstdEncode <- MCZstdEncode
  zstdDecode <- MCZstdDecode
  brotliEncode <- MCBrotliEncode
  brotliDecode <- MCBrotliDecode
INVARIANTS RoundTrip NeverWrong OldBuildTakesBlob FetchedWhole
CHECK_DEADLOCK FALSE
