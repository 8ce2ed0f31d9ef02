CONSTANTS
    t1 = t1
    t2 = t2
    Threads    <- MCThreads
    Sizes      <- MCSizes
    HeapSize   = 10
    HeaderSize = 3
    Alignment  = 2
    Modulus    = 32
    MaxCalls   = 4

SPECIFICATION Spec
CHECK_DEADLOCK FALSE

INVARIANT TypeOK
INVARIANT BlocksDisjoint
INVARIANT RealCallsResolved
INVARIANT ResolverSeesNoRealBlock
PROPERTY  EveryCallReturns
