SPECIFICATION ExecFairSpec
CONSTANTS
  MaxCalls = 3
  Capacity = 1
  OutMax = 2
  ErrMax = 2
INVARIANTS
  ExecIInv
  OutputWhole
PROPERTIES
  ExecEnds
CHECK_DEADLOCK FALSE
