SPECIFICATION FairSpec
CONSTANTS
  Msgs = {m1, m2}
  NoMsg = NoMsg
  LastTurn = 0
  MaxSteps = 2
  MaxRetries = 1
INVARIANTS OneHome NoWakeLost SoleOrdinary DisposalNeverLatches
PROPERTIES LogContract WakeHonoured DriverRests
CHECK_DEADLOCK FALSE
