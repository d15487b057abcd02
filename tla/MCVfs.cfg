SPECIFICATION TreeSpec
CONSTANTS
  Client = {c1, c2}
  Name = {a, b}
  MaxLocker = 2
SYMMETRY Symmetry
INVARIANT TreeSound
INVARIANT StaleInodeAnswered
PROPERTY InodeKept
CHECK_DEADLOCK FALSE
