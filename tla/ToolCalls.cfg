SPECIFICATION FairSpec
CONSTANTS
  N = 4
  MaxParallel = 2
INVARIANTS Answers PoolDiscipline
PROPERTIES StartDiscipline ToolLogContract BatchEnds
CHECK_DEADLOCK FALSE
