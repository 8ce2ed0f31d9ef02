CONSTANTS
    t1 = t1
    t2 = t2
    a1 = a1
    a2 = a2
    a3 = a3
    a4 = a4
    NULL     = NULL
    Threads  <- MCThreads
    Addr     <- FourAddr
    Sizes    <- SizesZeroTwo
    SizeMax  = 3
    Capacity = 2
    Modulus  = 100
    Calls    <- OwnershipCalls
    MaxCalls = 6

SPECIFICATION Spec
SYMMETRY Symmetry4

INVARIANT TypeOK
INVARIANT NoStaleEntry
INVARIANT OwnershipKnown
INVARIANT ReallocHasRoom
