CONSTANTS
  c1 = c1
  c2 = c2
  Y = 1
  N = 1
  Node <- MCNode
  Cascader <- MCCascader
  NoWriter = NoWriter
  Starter = Starter
  Quality <- MCQuality
  InitialQ <- MCInitialQ
  MinDelta = 1
  MaxRevision = 2
  MaxDrifts = 1
SYMMETRY MCSymmetry
SPECIFICATION Spec
CHECK_DEADLOCK FALSE
INVARIANTS
  EvaluatesCurrentQuality
