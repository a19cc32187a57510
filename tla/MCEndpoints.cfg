CONSTANTS
  p1 = p1
  p2 = p2
  p3 = p3
  None = None
  Processes = {p1, p2, p3}
  Rings = {1, 2, 3}
  Calls <- MCCalls
  Twice = {}
SPECIFICATION Spec
INVARIANTS OneProcessPerRing CachersReached
PROPERTY Reclaimed
CHECK_DEADLOCK FALSE
