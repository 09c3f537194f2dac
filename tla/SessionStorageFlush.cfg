SPECIFICATION Spec
CONSTANTS
  Opens = 1
  MaxSeq = 3
  MaxFailures = 0
  MaxCrashes = 0
  LateCalls = FALSE
INVARIANT FlushBarrier
CHECK_DEADLOCK FALSE
