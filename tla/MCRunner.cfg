SPECIFICATION FairSpec
CONSTANTS
  Run = {1, 2}
  Trx = {t1, t2}
  Conn = {c1}
  NoTrx = NoTrx
  NoConn = NoConn
  Nobody = Nobody
  Plans <- AllPlans
  MaxLosses = 1
INVARIANTS
  TypeOK
  NobodyBehindTimedOut
  NoInnocentKilled
  OneUser
  GoneIsOver
PROPERTIES
  DestroyEnds
ACTION_CONSTRAINT StartOrder
CHECK_DEADLOCK FALSE
