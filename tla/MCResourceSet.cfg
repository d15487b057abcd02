SPECIFICATION Spec
CONSTANTS
  Conn = {c1, c2, c3, c4}
  Request = {1}
  Retry = FALSE
  Size = 2
  Free = Free
SYMMETRY ConnSymmetry
INVARIANT ElementsHonoured
INVARIANT NoLostWakeup
CHECK_DEADLOCK FALSE
