CONSTANTS
  c1 = c1
  c2 = c2
  c3 = c3
  FS_SERVER_COUNT = 2
  Clients = {c1, c2}
  Names = {"a", "b"}
  IdLimit = 100
  Hash <- MCHash
  Setups <- ExclRootSetups
  MaxCalls = 1
  MaxDescriptors = 2
SPECIFICATION Spec
INVARIANTS ExclOnce
CHECK_DEADLOCK FALSE
