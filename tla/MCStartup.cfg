SPECIFICATION FairStartup
CONSTANTS
  c1 = c1
  c2 = c2
  c3 = c3
  Client <- MCClient
  Confs <- MCConfs
  MaxKills = 1
INVARIANT DaemonReached
INVARIANT SameDaemon
PROPERTY ConnectReturns
PROPERTY BacklogSettled
PROPERTY ShutdownCompletes
CHECK_DEADLOCK FALSE
