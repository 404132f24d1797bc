SPECIFICATION Spec
CONSTANTS
  Idle = Idle
  Dialects <- SqlServer
  MaxWrites = 3
  MaxFaults = 1
CHECK_DEADLOCK FALSE
INVARIANT RunsWhereAsked
