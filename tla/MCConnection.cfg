SPECIFICATION FairSpec
CONSTANTS
  Scripts <- Two
  MaxRequests = 2
  MaxChildren = 3
  Capacity = 1
  CgiMax = 2
INVARIANTS
  TypeOK
  InStep
  CgiWhole
PROPERTIES
  ConnectionEnds
CHECK_DEADLOCK FALSE
