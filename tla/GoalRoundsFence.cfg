SPECIFICATION Spec
CONSTANTS
  MaxGoalRounds = 1
  MaxChanges = 3
  MaxPrompts = 0
  MaxMaintenances = 1
  MaxCancels = 0
  MaxFailures = 0
INVARIANT ProjectionNeverFails
CHECK_DEADLOCK FALSE
