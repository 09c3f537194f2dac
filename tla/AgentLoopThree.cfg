SPECIFICATION Spec
CONSTANTS
  Msgs = {m1, m2, m3}
  NoMsg = NoMsg
  LastTurn = 0
  MaxSteps = 2
  MaxRetries = 1
SYMMETRY Symmetry
INVARIANTS OneHome NoWakeLost SoleOrdinary DisposalNeverLatches
PROPERTY LogContract
CHECK_DEADLOCK FALSE
