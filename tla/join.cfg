CONSTANTS
  n1 = n1
  n2 = n2
  n3 = n3
  Y = 1
  N = 1
  Node <- MCNode
  NoNode = NoNode
  MaxHop = 1
  MaxRevision = 3
  MaxHellos = 2
  MaxKills = 1
SYMMETRY MCSymmetry
SPECIFICATION JoinSpec
CHECK_DEADLOCK FALSE
INVARIANTS
  JoinTypeOK
  JoinsCanBeRetried
  OnlyRacedWritesMislead
