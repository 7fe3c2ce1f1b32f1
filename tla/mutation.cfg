CONSTANTS
  n1 = n1
  n2 = n2
  n3 = n3
  n4 = n4
  c1 = c1
  c2 = c2
  Y = 1
  N = 1
  Node <- MCNode
  InitialNodes <- MCInitialNodes
  Caller <- MCCaller
  Joiner = Joiner
  NoNode = NoNode
  Nobody = Nobody
  MaxSpawn = 1
  ExcludeRoot <- MCExcludeRoot
SPECIFICATION Spec
SYMMETRY Symmetric
INVARIANTS
  TypeOK
  DeadNodesLeaveTheMaps
  PublishedForest
  QuietMapsMatchTheMesh
