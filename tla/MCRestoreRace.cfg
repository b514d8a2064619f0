CONSTANTS
  Session = {s1}
  Turn = {t1}
  Loader = {l1}
  Setting = {m1}
  DefaultSetting = m1
  Servers <- NoServers
  MaxMessages = 1
  MaxFaults = 0
  MaxCrashes = 0
  MaxDeletes = 0
  NoTurn = NoTurn
  NoSession = NoSession
  NoMeta = NoMeta
  Free = Free
  Torn = Torn
CHECK_DEADLOCK FALSE
SPECIFICATION RaceSpec
PROPERTIES
  RestoreKeepsTurns
