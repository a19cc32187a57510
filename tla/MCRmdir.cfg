CONSTANTS
  r1 = r1
  r2 = r2
  u1 = u1
  u2 = u2
  FS_SERVER_COUNT = 3
  Clients = {r1, r2, u1, u2}
  Names = {"f", "g", "h"}
  IdLimit = 100
  HomeServer = 1
  Hash <- MCHash
  Setups <- MCSetups
SPECIFICATION FairSpec
INVARIANTS NoAssertionFails NoRemains
PROPERTIES ImplementsAtomicDir RemoversReturn
CHECK_DEADLOCK FALSE
