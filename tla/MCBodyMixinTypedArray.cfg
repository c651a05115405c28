CONSTANTS
    Bodies <- MCBodies
    Memory <- MCMemory
    Inits <- PartialViewInits
    Encode <- MCEncode
    IsJson <- MCIsJson
    Null = Null
    MaxReads = 2

SPECIFICATION Spec

INVARIANT DeliversInitBytes

\* Every body has been created and read as often as the bound allows.
CHECK_DEADLOCK FALSE
