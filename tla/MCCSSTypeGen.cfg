CONSTANTS
    Dirs <- MCDirs
    WordKeys <- MCWordKeys
    LowerStart <- MCLowerStart
    Absent = Absent

SPECIFICATION Spec

CHECK_DEADLOCK FALSE

INVARIANT TypeOK
INVARIANT TypesCoverDefines
