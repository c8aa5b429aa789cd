CONSTANTS
  ct1 = ct1
  ct2 = ct2
  Threads <- MCThreads
  Active = TRUE
  PeerTypes <- MCAllTypes
  MayDeny = TRUE
  MaxConns = 1
  MaxMsgs = 1
  MaxInbox = 1
  MaxToggles = 1
  AutoReconnect = TRUE
  MaxAttempts = 0
  UseT7 = TRUE
  UseT8 = FALSE
SPECIFICATION FairSpec
PROPERTIES Redials HalfOpenEnds
CHECK_DEADLOCK FALSE
