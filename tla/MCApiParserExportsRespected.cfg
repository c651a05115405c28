CONSTANTS
    Lists <- MCLists

SPECIFICATION Spec

INVARIANT ExportsRespected

\* A run of the cli ends: it prints, or a TypeError ends it.
CHECK_DEADLOCK FALSE
