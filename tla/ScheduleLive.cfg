SPECIFICATION FairSpec
CONSTANTS
  Delays = {1}
  Interval = 2
  MaxDelay = 1
  MaxTime = 3
  MaxCreates = 1
  MaxManages = 1
  MaxTurns = 1
  MaxDisturbances = 2
PROPERTIES DueIsDelivered QueueDrains
CHECK_DEADLOCK FALSE
