CONSTANTS
    Inputs <- MCInputs
    E_CODE_BTS = 160102
    E_CODE_MTS = 160103
    MAX_STACK_FRAME_LEN = 3
    DEFAULT_CONTEXT_SIZE = 3
    Absent = Absent
    NotJson = NotJson
    NoRawError = NoRawError
    NoStack = NoStack

SPECIFICATION Spec

INVARIANT TypeOK
INVARIANT CascadeAsReference

\* A parse returns once and then does nothing more.
CHECK_DEADLOCK FALSE
