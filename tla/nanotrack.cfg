SPECIFICATION Spec
CONSTANTS
  IntMax = 127
  MaxDimension = 8
  HashWidth = 2
  HashHeight = 1
  Targets = {a}
  Requests <- MCRequests
  NoSession = NoSession
  NaN = NaN
  ExemplarSize = 2
  InstanceSize = 4
  ScoreSize = 3
  TotalStride = 2
  ContextAmount <- MCContextAmount
  WindowInfluence = 40
  SizeLearningRate = 100
  MaxLogit = 4
  WorkBudgetBytes = 660
  MaxReference = 8
INVARIANT CallersAreBlamedRightly
INVARIANT SessionsStayUsable
