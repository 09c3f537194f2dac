SPECIFICATION Spec
CONSTANTS
  Attempts = {c1, r1}
  Resumes = {r1}
  Signalled = {c1}
  MaxCalls = 1
  NoOne = NoOne
INVARIANT OwnersAwaitQuiescence
CHECK_DEADLOCK FALSE
