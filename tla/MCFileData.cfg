CONSTANTS
  c1 = c1
  c2 = c2
  Clients = {c1, c2}
  Files = {"f", "g"}
  Blocks = {b1, b2, b3, b4, b5, b6}
  BLOCK = 2
  CHUNK = 2
  Values = {"x"}
  MaxSize = 3
  MaxOrphans = 1
  MaxCalls = 6
  Setups <- MCSetups
SPECIFICATION Spec
INVARIANTS NoBad BlocksOnce CachedOwned Contents
CHECK_DEADLOCK FALSE
