CONSTANTS
  d1 = d1
  d2 = d2
  c1 = c1
  DataCallers <- MCTwoData
  ControlCallers <- MCOneControl
  PeerIds <- MCPeerIds
  MaxCalls = 2
  MaxStray = 1
  MaxDrops = 1
SPECIFICATION Spec
INVARIANTS TypeOK OwnAnswer IdsDistinct NoQueueLeak UnmatchedIsLate
PROPERTY ServiceSpec
CHECK_DEADLOCK FALSE
