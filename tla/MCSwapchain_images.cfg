SPECIFICATION Spec
CONSTANTS
  colour = colour
  still = still
  Swapchains <- TheSwapchains
  Static <- TheStatic
  MaxFrame = 3
CONSTRAINT FewFrames
INVARIANTS
  TypeOK
  ImagesConserved
  FramesInFlightUntouched
  RefsAreExact
  NoUseAfterFree
CHECK_DEADLOCK FALSE
