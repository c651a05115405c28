CONSTANTS
    Dirs <- ValidDirs
    WordKeys <- MCWordKeys
    LowerStart <- MCLowerStart
    Absent = Absent

SPECIFICATION Spec

CHECK_DEADLOCK FALSE

INVARIANT GeneratedTypesParse
