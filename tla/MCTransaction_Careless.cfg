SPECIFICATION Spec
CONSTANTS
  Trx = {t1, t2}
  PoolConn = {c1}
  ExtConn = {x1}
  NoTrx = NoTrx
  NoConn = NoConn
  Configs <- OwnConfigs
  Disciplined = FALSE
  MaxRoots = 2
  MaxCalls = 1
  MaxWriters = 3
  MaxFaults = 0
  AbortOnError = TRUE
  CommitFailureKeepsOpen = FALSE
SYMMETRY Symmetry
INVARIANTS
  TypeOK
  ConnectionOwnership
  SettledIsCompleted
  IdleConnectionsAreClean
PROPERTIES
  WritesInOwnTransaction
  PostedByHolder
CHECK_DEADLOCK FALSE
