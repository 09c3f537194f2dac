SPECIFICATION Spec
CONSTANTS
  Opens = 1
  MaxSeq = 3
  MaxFailures = 1
  MaxCrashes = 0
  LateCalls = FALSE
INVARIANT WriterHoldsLock
CHECK_DEADLOCK FALSE
