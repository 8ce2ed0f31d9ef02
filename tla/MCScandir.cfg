CONSTANTS
    Directories <- MCDirectories
    Errors      <- MCErrors
    ENOMEM      = 12
    PointersMax = 6
    IntMax      = 2

SPECIFICATION Spec
CHECK_DEADLOCK FALSE

INVARIANT AllOrNothing
INVARIANT FailuresTold
INVARIANT NothingMissing
