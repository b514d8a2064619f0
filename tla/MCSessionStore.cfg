CONSTANTS
  Session = {s1}
  Turn = {t1, t2}
  Loader = {l1}
  Setting = {m1}
  DefaultSetting = m1
  Servers <- OneServer
  MaxMessages = 3
  MaxFaults = 1
  MaxCrashes = 1
  MaxDeletes = 1
  NoTurn = NoTurn
  NoSession = NoSession
  NoMeta = NoMeta
  Free = Free
  Torn = Torn
CHECK_DEADLOCK FALSE
SPECIFICATION FairSpec
INVARIANTS
  OneTurnPerSession
  AckedIsDurable
  LinesInOrder
  HelperIsEphemeral
PROPERTIES
  RemovedIsNotWritten
  KeepsOwnership
  CancelledTurnEnds
