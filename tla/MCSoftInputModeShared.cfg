CONSTANTS
    Inputs = {a, b}
    InitialModes <- ResizeHidden
    OnChangeOnly = TRUE

SPECIFICATION Spec

INVARIANT WindowRestoredWhenAllOn
