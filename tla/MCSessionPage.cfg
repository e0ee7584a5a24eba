SPECIFICATION HSpec
CONSTANTS
  p1 = p1
  p2 = p2
  NoInfo = NoInfo
  Procs = {p1, p2}
  Times = {0, 1, 2}
  Sids <- MCSids
  Keys = {"k1", "Anonymous Restarted"}
  Vars = {"v"}
  Timeouts = {0, 1, 2, 3}
  MINUTE = 1
  INT_MAX = 2
  Requests <- PageAndReaper
  SESSION_TIMEOUT = 1
  Restarted = "Anonymous Restarted"
  RestartTimeout = 2
  Faults = FALSE
PROPERTIES
  RemovedIdle
  ExpiredAreReaped
