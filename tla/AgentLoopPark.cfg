SPECIFICATION Spec
CONSTANTS
  Msgs = {m1, m2}
  NoMsg = NoMsg
  LastTurn = 0
  MaxSteps = 2
  MaxRetries = 1
SYMMETRY Symmetry
PROPERTY CancelParksQueue
CHECK_DEADLOCK FALSE
