SPECIFICATION FairSpec
CONSTANTS
  a = a
  b = b
  c = c
  d = d
  Sys = {a, b, c, d}
  Msg = {m1}
  Nets <- AllNets
  MaxDup = 1
  MaxLost = 1
INVARIANTS
  DeliveredOnce
PROPERTIES
  FloodEnds
  AllReached
