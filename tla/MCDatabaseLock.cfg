SPECIFICATION FairSpec
CONSTANTS
  p1 = p1
  p2 = p2
  p3 = p3
  i1 = i1
  i2 = i2
  i3 = i3
  i4 = i4
  i5 = i5
  Procs = {p1, p2, p3}
  Modes = {"reader", "write-create"}
  Inodes = {i1, i2, i3, i4, i5}
  None = None
  MaxRounds = 1
  Faults = TRUE
INVARIANTS
  IInv
  PairNeverBusy
  NamesRemoved
PROPERTIES
  EnvironmentsEnd
CHECK_DEADLOCK FALSE
