SPECIFICATION Spec
CONSTANTS
  Opens = 2
  MaxSeq = 4
  MaxFailures = 0
  MaxCrashes = 1
  LateCalls = FALSE
INVARIANTS ContiguousFile CloseLosesNothing
PROPERTY TornTailNeverBuried
CHECK_DEADLOCK FALSE
