SPECIFICATION Spec
CONSTANTS
  Trx = {t1, t2, t3}
  PoolConn = {c1}
  ExtConn = {}
  NoTrx = NoTrx
  NoConn = NoConn
  Configs <- PlainConfigs
  Disciplined = TRUE
  MaxRoots = 1
  MaxCalls = 1
  MaxWriters = 3
  MaxFaults = 1
  AbortOnError = TRUE
  CommitFailureKeepsOpen = TRUE
SYMMETRY Symmetry
INVARIANTS
  CommittedIsDurable
  DurableIsCommitted
  SiblingsTakeTurns
PROPERTIES
  RollbackIsLocal
CHECK_DEADLOCK FALSE
