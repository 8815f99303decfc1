SPECIFICATION Spec
CHECK_DEADLOCK FALSE
CONSTANTS
  Ids = {1, 2}
  Cells <- MCCells
  Origin = "left"
  Cycles <- LedgerCycles
  Policies <- WatchAll
  MaxEntities = 2
  MaxEvents = 1
  MaxCoverage = 3
  ReplanFrames = FALSE
  MaxFrame = 2
  MaxEpoch = 1
  MaxRevision = 2
  MaxRejections = 1
INVARIANT TypeOK
PROPERTIES OnlyCurrentWorkIsAdopted ObservedOnlyWhereCovered
