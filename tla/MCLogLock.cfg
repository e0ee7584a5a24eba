SPECIFICATION LogFairSpec
CONSTANTS
  m1 = m1
  c1 = c1
  Procs = {m1, c1}
  Parents = {m1}
  ErrorLog = ErrorLog
  DebugLog = DebugLog
  NoFile = NoFile
  Files = {ErrorLog, DebugLog}
  Configs <- Some
  Signals = {"CHLD", "HUP", "TERM"}
  MaxLogs = 1
  MaxSignals = 2
INVARIANT LogIInv
INVARIANT NoCircle
PROPERTIES LogsReturn ShutsDown
CHECK_DEADLOCK FALSE
