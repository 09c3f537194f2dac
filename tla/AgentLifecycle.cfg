SPECIFICATION FairSpec
CONSTANTS
  Attempts = {c1, c2, r1}
  Resumes = {r1}
  Signalled = {c1}
  MaxCalls = 2
  NoOne = NoOne
INVARIANTS PlaceIsHeld NothingLeft
PROPERTY UnloadsEnd
CHECK_DEADLOCK FALSE
