SPECIFICATION MixSpec
CONSTANTS
  Conn = {c1, c2, c3}
  Request = {1}
  Retry = FALSE
  Total = 2
  SEC = 4
  MSEC = 2
  COARSE = 2
  IDLE = 5
  MaxClock = 17
SYMMETRY ConnSymmetry
INVARIANT PlacesHonoured
INVARIANT StampsUnique
INVARIANT WokenInTime
CHECK_DEADLOCK FALSE
