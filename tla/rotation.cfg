CONSTANTS
  n1 = n1
  n2 = n2
  n3 = n3
  Node <- MCNode
  NoNode = NoNode
  Maps <- MCMaps
  PreparePct = 50
  CommitPct = 50
  MaxProposals = 2
  MaxEvents = 2
  MaxLate = 1
SYMMETRY MCSymmetry
SPECIFICATION Spec
CHECK_DEADLOCK FALSE
INVARIANTS
  TypeOK
  OnlyAbortsAndLateFramesStrand
PROPERTIES
  RevisionsNeverGoBack
  SwitchesAsPromised
