CONSTANTS
  Session = {s1}
  Turn = {t1, t2}
  Loader = {l1}
  Setting = {m1}
  DefaultSetting = m1
  Servers <- NoServers
  MaxMessages = 1
  MaxFaults = 1
  MaxCrashes = 0
  MaxDeletes = 0
  NoTurn = NoTurn
  NoSession = NoSession
  NoMeta = NoMeta
  Free = Free
  Torn = Torn
CHECK_DEADLOCK FALSE
SPECIFICATION Spec
INVARIANTS
  StreamingIsResumable
