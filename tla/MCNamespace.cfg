CONSTANTS
  c1 = c1
  c2 = c2
  c3 = c3
  FS_SERVER_COUNT = 2
  Clients = {c1, c2, c3}
  Names = {"a", "b", "c", "d"}
  IdLimit = 100
  Hash <- MCHash
  Setups <- MCSetups
  MaxCalls = 2
  MaxDescriptors = 1
SPECIFICATION Spec
INVARIANTS NoAssertionFails CacheCoherent NoDangling NothingLost CreatorsAgree
CHECK_DEADLOCK FALSE
