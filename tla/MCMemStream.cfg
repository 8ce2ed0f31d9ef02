CONSTANTS
    Wide     = FALSE
    Writes   <- NarrowWrites
    Offsets  <- MCOffsets
    SizeMax  = 31
    SSizeMax = 15
    UnitSize = 1
    BitOr    <- MCOr
    MaxCalls = 6

SPECIFICATION Spec
CHECK_DEADLOCK FALSE

INVARIANT TypeOK
INVARIANT TailIsZero
INVARIANT CallerHasBuffer
PROPERTY  ImplementsStream
