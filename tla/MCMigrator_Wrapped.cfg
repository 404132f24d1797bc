SPECIFICATION Spec
CONSTANTS
  Runner = {r1, r2}
  Mig <- Three
  Source <- Everywhere3
  Setting <- Default
  Disable = FALSE
  Validate = TRUE
  Fresh = TRUE
  Ops <- Forward
  MaxCalls = 3
  MaxFails = 2
  MaxLosses = 1
  MaxCrashes = 2
SYMMETRY Symmetry
INVARIANTS
  RecordedOnce
  NeverTurnedAway
  MutualExclusion
PROPERTIES
  DeploysAtomically
CHECK_DEADLOCK FALSE
