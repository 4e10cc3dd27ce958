CONSTANTS
  Prog = {p, q}
  NONE = NONE
  N_HISTORY = 3
  MaxChange = 5
  MaxFault = 3
SPECIFICATION Spec
SYMMETRY Programs
INVARIANTS
  ChangesKept
