SPECIFICATION Spec
CONSTANTS
  colour = colour
  still = still
  Swapchains <- TheSwapchains
  Static <- TheStatic
  MaxFrame = 3
INVARIANT WaitedImageIsExclusive
CHECK_DEADLOCK FALSE
