SPECIFICATION Spec
CONSTANTS
  Opens = 1
  MaxSeq = 3
  MaxFailures = 0
  MaxCrashes = 0
  LateCalls = TRUE
INVARIANT CloseLosesNothing
CHECK_DEADLOCK FALSE
