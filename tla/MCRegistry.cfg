CONSTANTS
    Keys     <- MCKeys
    Sizes    <- MCSizes
    Ids      <- MCIds
    Capacity <- MCCapacity

SPECIFICATION Spec

INVARIANT TypeOK
INVARIANT NoDuplicateKeys
INVARIANT ChainUnbroken
PROPERTY  ImplementsMap
