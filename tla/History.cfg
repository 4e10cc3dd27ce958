CONSTANTS
  Toss = {t1, t2}
  Tick = {k1, k2}
  Expire = {e}
  Id = {m1, m2}
  NoOne = NoOne
  Serial = TRUE
  MaxLen = 2
  MaxExpire = 2
SYMMETRY Symmetry
SPECIFICATION HistorySpec
INVARIANTS
  IndexCovers
PROPERTIES
  NoSecondLine
  ExpireKeeps
  ExpireRepairs
