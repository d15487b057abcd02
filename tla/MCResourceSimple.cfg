SPECIFICATION MixSpec
CONSTANTS
  Conn = {c1, c2, c3, c4}
  Request = {1, 3, 4, 5}
  Retry = FALSE
SYMMETRY ConnSymmetry
INVARIANT HoldersCompatible
INVARIANT EntriesHonoured
INVARIANT NoLostWakeup
PROPERTY ImplementsService
CHECK_DEADLOCK FALSE
