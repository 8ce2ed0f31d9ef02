CONSTANTS
    t1 = t1
    t2 = t2
    NONE     = NONE
    Threads  <- MCThreads
    Chars    <- MCChars
    Texts    <- MCTexts
    Delim    = "n"
    Buffers  <- MCBuffers
    SizeMax  = 15
    MaxCalls = 4

SPECIFICATION Spec
CHECK_DEADLOCK FALSE

INVARIANT TypeOK
INVARIANT StaysInBlock
INVARIANT LinesWhole
PROPERTY  CallsReturn
