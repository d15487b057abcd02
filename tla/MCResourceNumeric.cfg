SPECIFICATION MixSpec
CONSTANTS
  Conn = {c1, c2, c3, c4}
  Request = {1, 2, 4}
  Retry = FALSE
  Total = 3
SYMMETRY ConnSymmetry
INVARIANT Accounted
INVARIANT NobodyStranded
CHECK_DEADLOCK FALSE
