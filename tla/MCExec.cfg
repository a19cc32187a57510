CONSTANTS
  j1 = j1
  j2 = j2
  Jobs = {j1, j2}
  Bad = {j1}
  Redirected = {j1}
  Leaving = {j2}
  Handling = {j2}
  Codes = {0, 1}
  MaxChunks = 1
SPECIFICATION Spec
INVARIANTS NoAssertionFails StatusRelayed OutputRelayed
PROPERTY ExecReturns
CHECK_DEADLOCK FALSE
