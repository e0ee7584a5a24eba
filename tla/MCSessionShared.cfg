SPECIFICATION KSpec
CONSTANTS
  p1 = p1
  p2 = p2
  NoInfo = NoInfo
  Procs = {p1, p2}
  Times = {0, 1}
  Sids <- MCSids
  Keys = {"k1", "Anonymous Restarted"}
  Vars = {"v"}
  Timeouts = {0, 1, 2}
  MINUTE = 1
  INT_MAX = 63
  Requests <- SharedSession
  SESSION_TIMEOUT = 1
  Restarted = "Anonymous Restarted"
  RestartTimeout = 2
  Faults = TRUE
INVARIANTS
  TypeOK
  UniqueKeys
PROPERTIES
  NoResurrection
