\* Every algorithm on its jobs; a job ends with its answer.
SPECIFICATION Spec
CONSTANTS
  IntMax = 1000
  MaxDimension = 18
  HashWidth = 3
  HashHeight = 2
  MinThumbnail = 1
  MaxThumbnail = 4
  MaxBlocksPerSide = 4
  MaxTargetSide = 8
  MinCropBudget = 4
  Jobs <- MCJobs
INVARIANT GroupsPartitionTheInputs
INVARIANT KeptAreTheBest
INVARIANT ChangesAreSeen
 
CHECK_DEADLOCK FALSE
