SPECIFICATION Spec
CONSTANTS
  UncertainFrameLimit = 2
  MaxTemplates = 1
  MaxNegativeTemplates = 0
  DeepChannelEnabled = FALSE
  Evidence <- ConfirmOrNothing
  TrackIds = {1, 2, 3}
  Frames = {0, 1}
  MaxSequence = 3
  RegionTextBytes = {8}
  Coordinates = {0}
  ViewCoordinates = {0}
  Shifts = {}
  MaxTargets = 2
  MaxPositionHistory = 1
  PoolBudgetBytes = 680
  TemplateThumbSide = 8
  MaxGenerationLag = 1
  RedetectBackoffBase = 1
  RedetectBackoffMax = 2
  RedetectMaxAttempts = 2
  MaxRedetectionRecords = 1
  BaselineIds = {2}
  SessionIds = {}
  MaxGeneration = 0
  MaxUndercount = 32
INVARIANTS
  TypeOK
  SlotsBelongToLiveTracks
  PoolWithinLimits
  AccountNeverOverstates
  EvictionAlwaysFindsRoom
PROPERTIES
  LiveTracksEvictedLast
  ImplementsLifecycle
