CONSTANTS
    t1 = t1
    t2 = t2
    a1 = a1
    a2 = a2
    a3 = a3
    a4 = a4
    NULL     = NULL
    Threads  <- MCThreads
    Addr     <- TwoAddr
    Sizes    <- SizesZeroTwo
    SizeMax  = 3
    Capacity = 2
    Modulus  = 100
    Calls    <- CountingCalls
    MaxCalls = 4

SPECIFICATION Spec
SYMMETRY Symmetry2

INVARIANT LiveLedger
INVARIANT CountersAgree
INVARIANT CaptureCoversBrackets
INVARIANT CaptureFloor
