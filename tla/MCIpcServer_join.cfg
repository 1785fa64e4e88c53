SPECIFICATION FairSpec
CONSTANTS
  NSlots = 2
  ExitWhenIdle = FALSE
  MaxConnect = 2
  MaxSession = 1
PROPERTY
  ConnectionIsHandled
CHECK_DEADLOCK FALSE
