SPECIFICATION Spec
CONSTANTS
    MaxCalls = 2
    Builder = {b1}
    First = b1
    None = None
    Offered <- ObjectOffered
    Dialects <- MCDialects
    UseNullAsDefault = TRUE
INVARIANT WheresKept
CHECK_DEADLOCK FALSE
