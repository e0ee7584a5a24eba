SPECIFICATION Spec
CONSTANTS
  Default = "default"
  Names = {"default", "a"}
  Anonymous = ""
  MaxDepth = 4
  MaxPackages = 3
  MaxPages = 1
INVARIANTS
  TypeOK
  IInv
  BodyInItsPackage
  PagesAlike
  NoDangling
CHECK_DEADLOCK FALSE
