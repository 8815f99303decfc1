SPECIFICATION Spec
CHECK_DEADLOCK FALSE
CONSTANTS
  Ids = {1, 2}
  Cells <- MCCells
  Origin = "left"
  Cycles <- TemporalCycles
  Policies <- WatchText
  MaxEntities = 1
  MaxEvents = 2
  MaxCoverage = 3
  ReplanFrames = FALSE
  MaxFrame = 4
  MaxEpoch = 2
  MaxRevision = 1
  MaxRejections = 0
INVARIANTS EventsAreAccounted ConsumerSeesTheLifecycles DropsAreAnnounced WindowsSpanNoKnownGap  ResetEndsTheEpoch
PROPERTY OpenLifecyclesAreKept
