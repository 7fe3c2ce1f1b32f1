CONSTANTS
  n1 = n1
  n2 = n2
  n3 = n3
  Y = 1
  N = 1
  Node <- MCNode
  NoNode = NoNode
  Cooldown = TRUE
  MaxRevision = 3
  MaxKills = 2
SPECIFICATION Spec
CHECK_DEADLOCK FALSE
INVARIANTS
  TypeOK
  OnlyLateHintsLeadAstray
  NoneLeftTransitioning
PROPERTIES
  OrphansFindALeader
