CHECK_DEADLOCK FALSE
CONSTANTS
  bounded = bounded
  unbounded = unbounded
  malformed = malformed
  Writer = {bounded, unbounded}
  Log = {l1, l2}
  Setting <- Settings
  MaxDays = 5
  Unlimited = Unlimited
  None = None
  Torn = Torn
  MaxSize = 2
  MaxNow = 2
  MaxFaults = 1
SPECIFICATION Spec
INVARIANTS
  TypeOK
  OwnSweepLosesNothing
  RecordCoversItsWriters
PROPERTIES
  OnlyBoundedLogsGo
SYMMETRY Logs
