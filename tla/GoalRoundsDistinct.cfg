SPECIFICATION Spec
CONSTANTS
  MaxGoalRounds = 1
  MaxChanges = 3
  MaxPrompts = 1
  MaxMaintenances = 1
  MaxCancels = 1
  MaxFailures = 1
INVARIANT DistinctRounds
CHECK_DEADLOCK FALSE
