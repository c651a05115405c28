CONSTANTS
    Requests = {p1, p2}
    Files <- MCFiles
    MainThreadFile <- MT
    NoFile = NoFile
    Urls = {"u1", "u2"}
    NoUrl = NoUrl
    Resource <- TwoTemplates
    Inputs <- TwoTemplateInputs
    MAX_STACK_FRAME_LEN = 3
    Absent = Absent
    Includes <- MCIncludes
    Threw = Threw
    E_CODE_MTS = 160103
    Stacks <- MCStacks
    ParseStack <- MCParseStack
    NonString = NonString
    MayBeEmpty = {}

SPECIFICATION Spec

CHECK_DEADLOCK FALSE
PROPERTY ProviderKeepsSource
