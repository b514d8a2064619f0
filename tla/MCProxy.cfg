CONSTANTS
  Session <- SessionIds
  Safe <- SafeIds
  Id <- Ids
  Capacity = 2
  None = None
  Scripts <- Conversations
CHECK_DEADLOCK FALSE
SPECIFICATION FairSpec
INVARIANTS
  FramesAreAttributed
  SuccessIsComplete
  RequestsComeFirst
PROPERTIES
  IsRelay
  ProxyEnds
