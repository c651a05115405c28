CONSTANTS
    Bodies <- MCBodies
    Memory <- MCMemory
    Inits <- WholeViewInits
    Encode <- MCEncode
    IsJson <- MCIsJson
    Null = Null
    MaxReads = 2

SPECIFICATION Spec

INVARIANT TypeOK
INVARIANT DeliveredOnce
INVARIANT DeliversInitBytes

\* Every body has been created and read as often as the bound allows.
CHECK_DEADLOCK FALSE
