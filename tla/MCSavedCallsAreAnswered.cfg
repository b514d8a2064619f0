CONSTANTS
  Tool <- AllTools
  MaxRequests = 1
  MaxBatch = 1
  MaxCalls = 1
  MaxModes = 0
CHECK_DEADLOCK FALSE
SPECIFICATION Spec
INVARIANTS
  SavedCallsAreAnswered
