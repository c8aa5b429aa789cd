CONSTANTS
  d1 = d1
  d2 = d2
  c1 = c1
  DataCallers <- MCOneData
  ControlCallers <- MCOneControl
  PeerIds <- MCPeerIds
  MaxCalls = 2
  MaxStray = 1
  MaxDrops = 1
SPECIFICATION FairSpec
PROPERTY CallsReturn
CHECK_DEADLOCK FALSE
