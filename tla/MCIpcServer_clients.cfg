SPECIFICATION FairSpec
CONSTANTS
  NSlots = 2
  ExitWhenIdle = TRUE
  MaxConnect = 3
  MaxSession = 2
CONSTRAINT OneLaterSession
INVARIANTS
  TypeOK
  OneApplicationIsPrimary
  CompositorAgrees
  CountsAreExact
PROPERTIES
  SlotIsReusedAfterJoin
  IdleServerExits
CHECK_DEADLOCK FALSE
