SPECIFICATION Spec
CONSTANTS
  h1 = h1
  h2 = h2
  a = a
  b = b
  Handle = {h1, h2}
  Name = {a, b}
  Request <- AllRequests
  Asks <- TooMuchAsks
  Total = 1
  MaxLocks <- TwiceAndOnce
  MaxCrashes = 0
INVARIANT ImpossibleIsRefused
CHECK_DEADLOCK FALSE
