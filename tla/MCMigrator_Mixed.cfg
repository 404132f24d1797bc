SPECIFICATION FairSpec
CONSTANTS
  Runner = {r1, r2}
  Mig <- Two
  Source <- Behind
  Setting <- OptOut
  Disable = FALSE
  Validate = TRUE
  Fresh = FALSE
  Ops <- Everything
  MaxCalls = 2
  MaxFails = 1
  MaxLosses = 1
  MaxCrashes = 1
INVARIANTS
  TypeOK
  MutualExclusion
  RecordMatchesSchema
  LockReturned
PROPERTIES
  OperationsEnd
ACTION_CONSTRAINT UnlocksComplete
CHECK_DEADLOCK FALSE
