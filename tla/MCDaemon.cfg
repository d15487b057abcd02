SPECIFICATION MixSpec
CONSTANTS
  c1 = c1
  c2 = c2
  c3 = c3
  a = a
  b = b
  Client = {c1, c2, c3}
  Name = {a, b}
INVARIANT ConnectionsAccounted
INVARIANT OneActiveLocker
INVARIANT IncubatorSound
PROPERTY EndsWhenIdle
PROPERTY ThreadsAdvance
CHECK_DEADLOCK FALSE
