CONSTANTS
  h1 = h1
  h2 = h2
  a1 = a1
  a2 = a2
  Roles <- MCBothRoles
  InitialControls <- MCEquipmentOffline
  Handshakes <- MCOneHandshake
  Attempts <- MCAttempts
  MayWait = TRUE
  MaxCalls = 2
  MaxMsgs = 1
  MaxDrops = 0
SPECIFICATION Spec
INVARIANTS TypeOK WaitersAreWoken TimersBelong FlagsHaveOwners
CHECK_DEADLOCK FALSE
SYMMETRY MCSymmetry
