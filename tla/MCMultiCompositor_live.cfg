SPECIFICATION FairSpec
CONSTANTS
  MaxFrame = 2
  MaxTime = 1
  MaxLayers = 1
INVARIANTS
  ProgressEmptyWhenFilled
PROPERTIES
  CallsReturn
