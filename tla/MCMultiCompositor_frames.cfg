SPECIFICATION Spec
CONSTANTS
  MaxFrame = 3
  MaxTime = 2
  MaxLayers = 0
CONSTRAINT FewTimes
INVARIANTS
  TypeOK
  ProgressHasOneOwner
  NoLostWakeup
  FramesConserved
  SlotsInOrder
  PacerCallsLegal
  RenderUsesListedClient
  NothingLeftAfterJoin
PROPERTIES
  ImplementsFramePipeline
