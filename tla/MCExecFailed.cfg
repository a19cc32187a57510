CONSTANTS
  j1 = j1
  j2 = j2
  Jobs = {j1, j2}
  Bad = {j2}
  Redirected = {j2}
  Leaving = {}
  Handling = {}
  Codes = {0, 1}
  MaxChunks = 3
SPECIFICATION Spec
INVARIANT ErrorReported
CHECK_DEADLOCK FALSE
