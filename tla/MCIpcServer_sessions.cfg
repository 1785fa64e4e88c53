SPECIFICATION Spec
CONSTANTS
  NSlots = 2
  ExitWhenIdle = FALSE
  MaxConnect = 2
  MaxSession = 2
INVARIANT
  UpdateReachesAll
CHECK_DEADLOCK FALSE
