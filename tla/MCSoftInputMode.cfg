CONSTANTS
    Inputs = {a, b}
    InitialModes <- AllZero
    OnChangeOnly = FALSE

SPECIFICATION Spec

INVARIANT TypeOK
PROPERTY ToggleKeepsAdjust
