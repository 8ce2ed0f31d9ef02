CONSTANTS
    Wide     = TRUE
    Writes   <- WideWrites
    Offsets  <- MCOffsets
    SizeMax  = 31
    SSizeMax = 15
    UnitSize = 2
    BitOr    <- MCOr
    MaxCalls = 6

SPECIFICATION Spec
CHECK_DEADLOCK FALSE

INVARIANT TailIsZero
