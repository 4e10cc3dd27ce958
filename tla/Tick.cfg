CONSTANTS
  u = u
  x = x
  y = y
  a = a
  b = b
  F = F
  G = G
  t1 = t1
  t2 = t2
  h = h
  Tic = {t1, t2, h}
  File = {F, G}
  Area = {a, b}
  Node = {u, x, y}
  Inode = {i1, i2, i3, i4, i5}
  NONE = NONE
  EMPTY = EMPTY
  Configs <- AllConfigs
  MaxFault = 1
SPECIFICATION Spec
INVARIANTS
  NotForgotten
  FileKept
  SentOnce
PROPERTIES
  Emptied
CHECK_DEADLOCK FALSE
