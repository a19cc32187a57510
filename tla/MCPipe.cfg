CONSTANTS
  p1 = p1
  p2 = p2
  p3 = p3
  Procs = {p1, p2, p3}
  Tokens = 3
  Reads <- MCReads
  Writes = {1, 3}
  Handled <- MCHandled
  Chunk = 2
  Slots = 1
SPECIFICATION Spec
INVARIANT TokensConserved
PROPERTIES InterruptEndsRead ReadersProgress
