CONSTANTS
    Requests <- MCRequests
    Namespaces <- MCNamespaces
    UNKNOWN_NAMESPACE = "__UNKNOWN__"
    LoaderMayReject = TRUE
    NoRaw = NoRaw
    NoResult = NoResult
    Rejected = Rejected
    Null = Null
    Throw = Throw

SPECIFICATION Spec

INVARIANT TypeOK
INVARIANT LoadBeforeFallback
PROPERTY DispatchRefinement

\* Every raw error has been answered once all requests are done.
CHECK_DEADLOCK FALSE
