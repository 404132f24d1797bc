SPECIFICATION FairSpec
CONSTANTS
  Trx = {1, 2, 3}
  PoolConn = {c1}
  ExtConn = {}
  NoTrx = NoTrx
  NoConn = NoConn
  Configs <- PlainConfigs
  Disciplined = TRUE
  MaxRoots = 2
  MaxCalls = 1
  MaxWriters = 0
  MaxFaults = 1
  AbortOnError = TRUE
  CommitFailureKeepsOpen = TRUE
PROPERTIES
  EveryTransactionEnds
  RollbackAlwaysReleases
ACTION_CONSTRAINT CreationOrder
CHECK_DEADLOCK FALSE
