CONSTANTS
    Lists <- MCLists

SPECIFICATION Spec

INVARIANT TypeOK
INVARIANT ParseAsReference

\* A run of the cli ends: it prints, or a TypeError ends it.
CHECK_DEADLOCK FALSE
