CONSTANTS
    Lists <- MCLists

SPECIFICATION Spec

INVARIANT SinceRecorded

\* A run of the cli ends: it prints, or a TypeError ends it.
CHECK_DEADLOCK FALSE
