SPECIFICATION FairSpec
CONSTANTS
  du = du
  xapp = xapp
  NoSub = NoSub
  Nodes <- MCNodes
  XApps <- MCXApps
  MaxRequests = 2
  MaxRestarts = 1
INVARIANTS
  TypeOK
  ActiveIsHeld
  HeldIsKnown
PROPERTIES
  CleanupCompletes
  KeepsService
CHECK_DEADLOCK FALSE
