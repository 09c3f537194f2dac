SPECIFICATION Spec
CONSTANTS
  Delays = {1}
  Interval = 1
  MaxDelay = 1
  MaxTime = 2
  MaxCreates = 2
  MaxManages = 1
  MaxTurns = 1
  MaxDisturbances = 2
INVARIANTS ReportsSurvive DeliveredOnce TimerKept
PROPERTY DisposedIsQuiet
CHECK_DEADLOCK FALSE
