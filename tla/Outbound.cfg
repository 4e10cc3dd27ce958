CONSTANTS
  p1 = p1
  p2 = p2
  a = a
  b = b
  c = c
  p3 = p3
  Pkt = {p1, p2, p3}
  File = {f}
  Node = {a, b}
  Inode = {i1, i2, i3, i4, i5}
  NONE = NONE
  Packer = {q}
  Attacher = {t}
  Caller = {c, d}
  LastChar = 1
  Configs <- PassConfigs
  MaxKill = 1
  MaxFail = 1
SPECIFICATION FairSpec
INVARIANTS
  NothingLost
  AllListed
  SentOnce
PROPERTIES
  Delivered
CHECK_DEADLOCK FALSE
