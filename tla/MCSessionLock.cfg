SPECIFICATION FairSpec
CONSTANTS
  p1 = p1
  p2 = p2
  p3 = p3
  s1 = s1
  s2 = s2
  NoInfo = NoInfo
  Procs = {p1, p2}
  Sids = {s1, s2}
  Keys = {"k1", "k2"}
  Vars = {}
  Timeouts = {0, 1}
  Times = {0, 1}
  MINUTE = 1
  INT_MAX = 7
  Ops <- MCOps
INVARIANTS
  IInv
  OneWriter
PROPERTIES
  ImplementsStore
  CallsReturn
