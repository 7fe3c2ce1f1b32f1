CONSTANTS
  seeker = seeker
  root = root
  Node <- MCNode
  Settled <- MCSettled
  NoNode = NoNode
  Fanout = 1
  Base = 1
  MaxBackoff = 2
  Jitter = 1
  MaxAttempt = 3
  Token = 2
  Burst = 4
  Rate = 1
  LongIdle = 4
  MaxLag = 1
  MaxWindow = 2
  Watched = root
SPECIFICATION Spec
CHECK_DEADLOCK FALSE
INVARIANTS
  TypeOK
  OfferRateBounded
  OnlyRacesHurry
PROPERTY
  NeverGivesUp
