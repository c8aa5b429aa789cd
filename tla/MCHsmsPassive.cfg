CONSTANTS
  ct1 = ct1
  ct2 = ct2
  Threads <- MCThreads
  Active = FALSE
  PeerTypes <- MCSelect
  MayDeny = FALSE
  MaxConns = 2
  MaxMsgs = 1
  MaxInbox = 1
  MaxToggles = 2
  AutoReconnect = TRUE
  MaxAttempts = 0
  UseT7 = TRUE
  UseT8 = TRUE
SPECIFICATION Spec
INVARIANTS SessionIsServed ListenerHasOwner
CHECK_DEADLOCK FALSE
SYMMETRY MCSymmetry
