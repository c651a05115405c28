CONSTANTS
    Requests = {p1, p2, p3}
    Files <- MCFiles
    MainThreadFile <- MT
    NoFile = NoFile
    Urls = {"u1"}
    NoUrl = NoUrl
    Resource <- OneTemplate
    Inputs <- OneTemplateInputs
    MAX_STACK_FRAME_LEN = 3
    Absent = Absent
    Includes <- MCIncludes
    Threw = Threw
    E_CODE_MTS = 160103
    Stacks <- MCStacks
    ParseStack <- MCParseStack
    NonString = NonString
    MayBeEmpty = {}

SPECIFICATION Spec

INVARIANT FetchFailureTolerated

\* Every parse of the session has settled.
CHECK_DEADLOCK FALSE
