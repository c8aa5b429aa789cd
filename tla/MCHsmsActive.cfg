CONSTANTS
  ct1 = ct1
  ct2 = ct2
  Threads <- MCThreads
  Active = TRUE
  PeerTypes <- MCAllTypes
  MayDeny = TRUE
  MaxConns = 2
  MaxMsgs = 1
  MaxInbox = 1
  MaxToggles = 1
  AutoReconnect = TRUE
  MaxAttempts = 1
  UseT7 = TRUE
  UseT8 = FALSE
SPECIFICATION Spec
INVARIANTS TypeOK SelectedIsAgreed
CHECK_DEADLOCK FALSE
SYMMETRY MCSymmetry
