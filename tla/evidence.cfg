SPECIFICATION FairSpec
CONSTANTS
  UncertainFrameLimit = 2
  MaxTemplates = 2
  MaxNegativeTemplates = 1
  DeepChannelEnabled = TRUE
  Evidence <- MovingEvidence
  TrackIds = {1, 2}
  Frames = {1}
  MaxSequence = 3
  RegionTextBytes = {8}
  Coordinates <- MCCoordinates
  ViewCoordinates <- MCViewCoordinates
  Shifts <- MCShifts
  MaxTargets = 2
  MaxPositionHistory = 1
  PoolBudgetBytes = 4096
  TemplateThumbSide = 8
  MaxGenerationLag = 1
  RedetectBackoffBase = 1
  RedetectBackoffMax = 2
  RedetectMaxAttempts = 2
  MaxRedetectionRecords = 1
  BaselineIds = {}
  SessionIds = {1, 2}
  MaxGeneration = 0
  MaxUndercount = 0
INVARIANTS
  DeepChannelOnlyNarrows
PROPERTIES
  PositionNeedsEvidence
  LossEnds
