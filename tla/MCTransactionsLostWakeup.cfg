CONSTANTS
  d1 = d1
  d2 = d2
  c1 = c1
  DataCallers <- MCOneData
  ControlCallers <- MCNone
  PeerIds <- MCPeerIds
  MaxCalls = 1
  MaxStray = 0
  MaxDrops = 0
SPECIFICATION Spec
INVARIANT TimeoutMeansUnanswered
CHECK_DEADLOCK FALSE
