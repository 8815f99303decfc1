\* Capability calls, the caches and change analysis; nothing is fused.
SPECIFICATION Spec
CONSTANTS
  IntMax = 127
  MaxDimension = 4
  HashWidth = 2
  HashHeight = 1
  MinThumbnail = 1
  MaxThumbnail = 4
  MaxBlocksPerSide = 2
  SourceId = "screen"
  ResultBytes = 350
  FrameBytes = 170
  Frames <- SessionFrames
  ChangeParams = {}
  Requests <- SessionRequests
  Backends <- SessionBackends
  EvidenceSets = {}
  FusionOptionSets = {}
  StableOptionSets = {}
  Artifacts <- SessionArtifacts
  Faults = {"none", "node", "index"}
  MaxIds = 0
  MaxSpilled = 160
INVARIANT AnswersBelongToTheQuestion
INVARIANT AccountErrsBySpills
CHECK_DEADLOCK FALSE
