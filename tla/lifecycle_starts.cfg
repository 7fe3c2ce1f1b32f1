SPECIFICATION Spec
CONSTANTS
  c1 = c1
  c2 = c2
  Caller <- MCCaller
  Stopper <- MCStopper
  Endless = {1}
  MaxRuns = 2
  MaxStops = 1
CHECK_DEADLOCK FALSE
INVARIANTS
  StartStopsAnyRun
