SPECIFICATION FairSpec
CONSTANTS
  c1 = c1
  c2 = c2
  Pids = {c1, c2}
  NoPid = NoPid
  MaxForks = 3
  ForkFails = TRUE
  Foreign = TRUE
  Vanish = TRUE
INVARIANTS
  IInv
  ZombiesAnnounced
PROPERTIES
  KillsItsChild
  ChildrenEnd
  EntriesEnd
