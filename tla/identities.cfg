\* Fusion and publication, with the allocations that may fail on the way.
SPECIFICATION Spec
CONSTANTS
  IntMax = 127
  MaxDimension = 4
  HashWidth = 2
  HashHeight = 1
  MinThumbnail = 1
  MaxThumbnail = 4
  MaxBlocksPerSide = 2
  SourceId = "screen"
  ResultBytes = 350
  FrameBytes = 170
  Frames <- IdentityFrames
  ChangeParams <- SessionChangeParams
  Requests = {}
  Backends = {}
  EvidenceSets <- Layouts
  FusionOptionSets <- MCFusionOptions
  StableOptionSets <- MCStableOptions
  Artifacts = {}
  Faults <- IdentityFaults
  MaxIds = 3
  MaxSpilled = 0
PROPERTY ImplementsStableIdentities
 
 
 
CONSTRAINT OneTopic
CHECK_DEADLOCK FALSE
