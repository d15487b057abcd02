SPECIFICATION SortedSpec
CONSTANTS
  Conn = {1, 2, 3}
  Request = {1}
  Retry = FALSE
  Total = 2
  Guint = 3
INVARIANT ValuesSound
INVARIANT LocksServed
PROPERTY HolesOnlyFromAborts
PROPERTY DisconnectCompletes
CHECK_DEADLOCK FALSE
