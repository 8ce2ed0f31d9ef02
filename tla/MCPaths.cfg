CONSTANTS
    NONE = NONE
    Names = {"a", "b", "c", "outside"}
    FileSystems <- MCFileSystems
    Locations   <- MCLocations
    Calls       <- MCCalls
    PathMax     = 11
    SymloopMax  = 4
    MaxSymlinks = 4
    MaxTries    = 2
    MaxMoves    = 1
    ReadLink    <- KernelReadLink
    Identity    <- KernelIdentity
    CwdText     <- KernelCwdText

SPECIFICATION Spec
CHECK_DEADLOCK FALSE

INVARIANT BuffersHold
INVARIANT Canonical
INVARIANT Resolves
INVARIANT NamesCwd
PROPERTY  Terminates
