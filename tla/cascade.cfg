CONSTANTS
  Y = 2
  N = 1
  Node <- MCNode
  NodeSets <- MCNodeSets
  Quality <- MCQuality
  SenderThreshold = 1
SPECIFICATION Spec
INVARIANTS
  TypeOK
  AlwaysATree
  CapacityRespected
  DistinctTopologyIDs
  NoLeftovers
PROPERTIES
  CascadePublishes
  PlacesAtOnce
