CONSTANTS
  Tool <- AllTools
  MaxRequests = 2
  MaxBatch = 2
  MaxCalls = 2
  MaxModes = 2
CHECK_DEADLOCK FALSE
SPECIFICATION FairSpec
INVARIANTS
  TypeOK
  SavedIsPaired
  EffectsAreRecorded
  ClientView
  LoadShowsTheTurn
  NoCommandIsLeft
PROPERTIES
  StaleReplyAuthorizesNothing
  CancelIsReported
