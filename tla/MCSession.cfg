SPECIFICATION AgainSpec
CONSTANTS
  h1 = h1
  h2 = h2
  a = a
  b = b
  Handle = {h1, h2}
  Name = {a, b}
  Request <- AllRequests
  Asks <- SomeAsks
  Total = 1
  MaxLocks <- TwiceAndOnce
  MaxCrashes = 1
INVARIANT BeliefsSound
INVARIANT NoStrayRecord
PROPERTY CallsReturn
PROPERTY GoneIsNoticed
CHECK_DEADLOCK FALSE
