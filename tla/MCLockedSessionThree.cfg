SPECIFICATION Spec
CONSTANTS
  i1 = i1
  i2 = i2
  i3 = i3
  i4 = i4
  p1 = p1
  p2 = p2
  p3 = p3
  Procs = {p1, p2, p3}
  Inodes = {i1, i2, i3, i4}
  None = None
  MaxRounds = 1
  Faults = FALSE
SYMMETRY Alike
INVARIANT NoLostUpdate
CHECK_DEADLOCK FALSE
