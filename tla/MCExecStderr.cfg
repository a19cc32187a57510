CONSTANTS
  j1 = j1
  j2 = j2
  Jobs = {j1, j2}
  Bad = {j1}
  Redirected = {j1}
  Leaving = {j2}
  Handling = {}
  Codes = {0, 1}
  MaxChunks = 2
SPECIFICATION Spec
INVARIANT StderrRelayed
CHECK_DEADLOCK FALSE
