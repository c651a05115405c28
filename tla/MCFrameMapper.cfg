CONSTANTS
    Files <- MCFiles
    Inputs <- MCInputs
    Served <- MCServed
    SourceMap <- MCSourceMap
    OriginalText <- MCOriginalText
    ContextLines = 1
    Null = Null
    Rejected = Rejected
SPECIFICATION Spec
INVARIANT TypeOK
INVARIANT FramesPreserved
PROPERTY MapResolves
\* A call of map returns once and then does nothing more.
CHECK_DEADLOCK FALSE
