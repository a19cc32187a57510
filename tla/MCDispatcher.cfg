CONSTANTS
  c1 = c1
  c2 = c2
  b1 = b1
  b2 = b2
  Clients = {c1, c2}
  NoClient = NoClient
  Backends = {b1, b2}
  Chans <- MCChans
  Trans = {1, 2, 3}
  MaxCalls = 2
  MaxRing = 1
  Setups <- MCSetups
SPECIFICATION Spec
INVARIANTS PollsWithoutRequests NoMissedResponse ResponsesOnce PoolExact
PROPERTY ImplementsRpc
