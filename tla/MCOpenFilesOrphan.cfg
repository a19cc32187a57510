CONSTANTS
  FS_SERVER_COUNT = 1
  Clients = {p1, p2}
  Names = {"f"}
  IdLimit = 100
  Hash <- MCHash
  FD_COUNT = 2
  Unlinkers = {p1, p2}
  MaxOpens = 2
  MaxDescriptors = 2
SPECIFICATION Spec
INVARIANTS NoAssertionFails
CHECK_DEADLOCK FALSE
