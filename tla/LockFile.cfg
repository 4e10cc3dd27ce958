CONSTANTS
  Proc = {p1, p2, p3}
  Inode = {i1, i2, i3}
  NIL = NIL
  EMPTY = EMPTY
  Waits <- AllWaits
  CrashAt <- Anywhere
  PidReuse = TRUE
SPECIFICATION LockSpec
SYMMETRY Symmetry
INVARIANTS
  ExclusiveUnlessRaced
PROPERTY SettledLockKept
