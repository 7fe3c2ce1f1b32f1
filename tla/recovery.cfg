SPECIFICATION Spec
CONSTANTS
  a = a
  b = b
  k1 = k1
  k2 = k2
  None = None
  Node <- MCNode
  Samples <- MCSamples
  Opener <- MCOpener
  MaxHistory = 1
  Window = 1
  Timeout = 2
  MaxRuns = 2
  MaxEpochs = 2
  MaxTime = 2
SYMMETRY Symmetry
CHECK_DEADLOCK FALSE
INVARIANTS
  TypeOK
  EpochsCloseOnce
  ListsTheLatest
  StableAsSpecified
  MetricsAsSpecified
