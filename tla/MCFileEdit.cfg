CONSTANTS
  Text <- Texts
  Match <- Matching
  Edited <- Edits
  NewText = "new"
  Spoiled = "plain"
  MaxChanges = 2
  Missing = Missing
  Clean = Clean
  NoDiff = NoDiff
CHECK_DEADLOCK FALSE
SPECIFICATION FairSpec
INVARIANTS
  ConflictStopsWrite
  CancelStopsWrite
PROPERTIES
  PendingWaitEnds
