SPECIFICATION Spec
CONSTANTS
  FirstTurn = 1
  CallIds = {c1, c2}
  MaxLog = 9
  MaxCrashes = 2
SYMMETRY Symmetry
INVARIANTS LogValid RepairTellsTruth RepairConverges ForkSeedsValid
CHECK_DEADLOCK FALSE
