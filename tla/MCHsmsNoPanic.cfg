CONSTANTS
  ct1 = ct1
  ct2 = ct2
  Threads <- MCThreads
  Active = TRUE
  PeerTypes <- MCNoTypes
  MayDeny = FALSE
  MaxConns = 1
  MaxMsgs = 0
  MaxInbox = 1
  MaxToggles = 1
  AutoReconnect = TRUE
  MaxAttempts = 0
  UseT7 = TRUE
  UseT8 = FALSE
SPECIFICATION Spec
INVARIANT NoPanic
CHECK_DEADLOCK FALSE
