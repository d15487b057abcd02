SPECIFICATION FairSpec
CONSTANTS
  Confs <- MCConfs
  Small = 26
  Large = 32
  MaxSends = 2
INVARIANT StructsSound
INVARIANT ReceivedIsSent
INVARIANT ReadsExact
PROPERTY EveryMessageHeard
CHECK_DEADLOCK FALSE
