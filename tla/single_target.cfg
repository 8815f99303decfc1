SPECIFICATION Spec
CONSTANTS
  UncertainFrameLimit = 2
  MaxTemplates = 2
  MaxNegativeTemplates = 1
  DeepChannelEnabled = FALSE
  Evidence <- AllEvidence
  TrackIds = {1}
  Frames = {0, 2}
  MaxSequence = 3
  RegionTextBytes = {8}
  Coordinates = {0}
  ViewCoordinates = {0}
  Shifts = {}
  MaxTargets = 1
  MaxPositionHistory = 1
  PoolBudgetBytes = 4096
  TemplateThumbSide = 8
  MaxGenerationLag = 1
  RedetectBackoffBase = 1
  RedetectBackoffMax = 2
  RedetectMaxAttempts = 3
  MaxRedetectionRecords = 1
  BaselineIds = {1}
  SessionIds = {}
  MaxGeneration = 2
  MaxUndercount = 0
INVARIANTS
  StateSlotsAgree
  NoTrackAheadOfPool
  AccountIsExact
PROPERTIES
  AdoptionTemplatePinned
  BackoffBounds
