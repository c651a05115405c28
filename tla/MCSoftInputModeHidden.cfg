CONSTANTS
    Inputs = {a}
    InitialModes <- MCInitialModes
    OnChangeOnly = TRUE

SPECIFICATION Spec

INVARIANT HiddenWhileCustom
