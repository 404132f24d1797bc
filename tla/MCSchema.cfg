CONSTANTS
  Dialects = {"pg", "redshift", "mysql", "mssql", "oracledb", "sqlite"}
  Creations <- MCCreations
  Calls <- MCCalls
  MaxCalls = 2
CHECK_DEADLOCK FALSE
SPECIFICATION Spec
INVARIANTS
  AsAsked
  LegalRuns
  RowsSurvive
  NothingLeftBehind
