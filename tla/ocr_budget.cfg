\* The call has returned where the model stops.
SPECIFICATION Spec
CONSTANTS
  IntMax = 127
  MaxDimension = 8
  HashWidth = 2
  HashHeight = 1
  SourceId = "screen"
  MaxPriorityEntries = 4
  MaxPriorityBytes = 128
  MaxReportBytes = 128
  EntryBytes = 20
  ReportBytes = 10
  RecordBytes = 10
  Calls <- MCCalls
  Sightings <- MCSightings
  Readings <- MCReadings
  Charset <- MCCharset
  DetSide = 8
  CanvasStride = 4
  DetLimit = 3
  RecHeight = 1
  RecWidth = 3
  WorkBytes = 4096
  UnitUpperBound = 1
  MaxTime = 6
INVARIANT ReportsAreConsistent
INVARIANT CallersPriorityRules
PROPERTY UnitsLeaveTheReserve
CHECK_DEADLOCK FALSE
