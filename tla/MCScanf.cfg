CONSTANTS
    t1 = t1
    t2 = t2
    Threads  <- MCThreads
    Formats  <- MCFormats
    InitialCapacity = 1
    MaxCalls = 2

SPECIFICATION Spec
SYMMETRY Symmetry
CHECK_DEADLOCK FALSE

INVARIANT TypeOK
INVARIANT RehomesOnlyAssigned
INVARIANT SlotsLive
INVARIANT NothingLeaks
INVARIANT ResultsRehomed
PROPERTY  OnlyLibcGoesToLibc
