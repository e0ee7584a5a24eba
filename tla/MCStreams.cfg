SPECIFICATION FairSpec
CONSTANTS
  Vars = {"a", "b"}
  Descriptors = {1, 2, 3, 4, 5, 6, 7}
  Numbers = {1, 2, 3, 4}
  MaxDepth = 2
  MaxOpens = 3
  MaxChildren = 1
INVARIANTS
  IInv
  NothingLeft
PROPERTIES
  OperationsReturn
CHECK_DEADLOCK FALSE
