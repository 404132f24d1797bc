SPECIFICATION Spec
CONSTANTS
  Runner = {r1, r2}
  Mig <- Two
  Source <- Everywhere2
  Setting <- Default
  Disable = FALSE
  Validate = TRUE
  Fresh = TRUE
  Ops <- Forward
  MaxCalls = 1
  MaxFails = 0
  MaxLosses = 0
  MaxCrashes = 0
INVARIANTS
  OneLockRow
CHECK_DEADLOCK FALSE
