SPECIFICATION TreeSpec
CONSTANTS
  Conn = {c1, c2, c3, c4}
  Request <- TreeRequest
  Retry = FALSE
SYMMETRY ConnSymmetry
INVARIANT RecordsHonoured
INVARIANT LineCompatible
INVARIANT NoLostWakeup
PROPERTY CleanedWhereNamed
CHECK_DEADLOCK FALSE
