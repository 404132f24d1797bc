SPECIFICATION Spec
CONSTANTS
  Idle = Idle
  Dialects <- Every
  MaxWrites = 3
  MaxFaults = 1
CHECK_DEADLOCK FALSE
INVARIANTS CommittedIsKept  
