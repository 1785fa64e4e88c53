SPECIFICATION Spec
CONSTANTS
  Android = TRUE
  MaxFrame = 3
  MaxSession = 2
INVARIANTS
  BeginsWaitedFrame
