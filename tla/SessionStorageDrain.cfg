SPECIFICATION FairSpec
CONSTANTS
  Opens = 1
  MaxSeq = 4
  MaxFailures = 2
  MaxCrashes = 1
  LateCalls = FALSE
INVARIANTS NothingDropped FlushBarrierOutsideGap LockCoversWrites
PROPERTIES DrainProgress
CHECK_DEADLOCK FALSE
