SPECIFICATION Spec
CONSTANTS
    MaxCalls = 3
    Builder = {b1, b2}
    First = b1
    None = None
    Offered <- MCOffered
    Dialects <- MCDialects
    UseNullAsDefault = TRUE
INVARIANTS BindingsAligned ClausesAsAsked WheresKept UpdatesKept InsertedAsGiven
PROPERTY CompileIsPure
CHECK_DEADLOCK FALSE
