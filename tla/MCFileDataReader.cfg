CONSTANTS
  c1 = c1
  c2 = c2
  Clients = {c1, c2}
  Files = {"f"}
  Blocks = {b1, b2}
  BLOCK = 2
  CHUNK = 2
  Values = {"x"}
  MaxSize = 2
  MaxOrphans = 0
  MaxCalls = 5
  Setups <- SharedSetups
SPECIFICATION Spec
PROPERTY ReadersKeepSize
CHECK_DEADLOCK FALSE
