CONSTANTS
    Inputs = {a}
    InitialModes <- AllZero
    OnChangeOnly = TRUE

SPECIFICATION Spec

PROPERTY RestoredAfterOwnToggle
