SPECIFICATION FairSpec
CONSTANTS
  Jobs = {j1, j2}
  Calls = {c1}
  PullJobs = {j1}
  PushJobs = {j1}
  Outcomes = {"completed"}
  MaxActive = 2
  LiveCap = 2
  SettledCap = 1
  MaxBytes = 2
  MaxChunk = 1
INVARIANTS EveryCompletionTold OutputComplete TeardownLeavesNothing
PROPERTIES UnreadKept TeardownEnds
CHECK_DEADLOCK FALSE
