CONSTANT MayRefuse <- AnyRequest
CHECK_DEADLOCK FALSE
SPECIFICATION FairSpec
INVARIANTS
  KilledBeforeRelease
  SuccessMeansReleased
PROPERTIES
  ReleaseIsLast
  CancelledCallEnds
  NoTerminalIsLeft
