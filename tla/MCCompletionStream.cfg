CONSTANTS
  MaxAttempts <- Attempts
  MaxEvents <- Events
  MaxCount = 2
CHECK_DEADLOCK FALSE
SPECIFICATION Spec
INVARIANTS
  OneAttempt
  CompleteIsWhole
  BillIsExact
