CONSTANTS
    Requests <- MCRequests
    Namespaces <- MCNamespaces
    UNKNOWN_NAMESPACE = "__UNKNOWN__"
    LoaderMayReject = TRUE
    NoRaw = NoRaw
    NoResult = NoResult
    Rejected = Rejected
    Null = Null
    Throw = Throw

SPECIFICATION Spec

INVARIANT TotalDispatch

CHECK_DEADLOCK FALSE
