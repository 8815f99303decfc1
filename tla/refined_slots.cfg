\* Three proposals, each of which may vanish, stay or split when it is refined.
SPECIFICATION Spec
CONSTANTS
  IntMax = 1000
  MaxDimension = 18
  HashWidth = 3
  HashHeight = 2
  MinThumbnail = 1
  MaxThumbnail = 4
  MaxBlocksPerSide = 4
  MaxTargetSide = 8
  MinCropBudget = 4
  Jobs <- RefineManyJobs
INVARIANT RefinementReplacesItsCandidates
CHECK_DEADLOCK FALSE
