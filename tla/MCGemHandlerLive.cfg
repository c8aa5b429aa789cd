CONSTANTS
  h1 = h1
  h2 = h2
  a1 = a1
  a2 = a2
  Roles <- MCBothRoles
  InitialControls <- MCEquipmentOffline
  Handshakes <- MCHandshakes
  Attempts <- MCOneAttempt
  MayWait = FALSE
  MaxCalls = 1
  MaxMsgs = 0
  MaxDrops = 1
SPECIFICATION FairSpec
PROPERTY Establishes
CHECK_DEADLOCK FALSE
