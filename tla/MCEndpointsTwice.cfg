CONSTANTS
  p1 = p1
  p2 = p2
  p3 = p3
  None = None
  Processes = {p1, p2, p3}
  Rings = {1, 2, 3}
  Calls <- MCCalls
  Twice = {p1}
SPECIFICATION Spec
INVARIANT LiveChannelsOpen
CHECK_DEADLOCK FALSE
