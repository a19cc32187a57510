CONSTANTS
  FS_SERVER_COUNT = 1
  Clients = {p1, p2}
  Names = {"f"}
  IdLimit = 100
  Hash <- MCHash
  FD_COUNT = 2
  Unlinkers = {p1}
  MaxOpens = 2
  MaxDescriptors = 1
SPECIFICATION Spec
INVARIANTS OpenFilesStay NoFileLeaks RefCountExact
CHECK_DEADLOCK FALSE
