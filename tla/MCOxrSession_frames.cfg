SPECIFICATION FairSpec
CONSTANTS
  Android = TRUE
  MaxFrame = 4
  MaxSession = 2
INVARIANTS
  TypeOK
  FramesAccountedFor
  CountIsExact
  StatesFollowLifeCycle
PROPERTIES
  WaitFrameReturns
