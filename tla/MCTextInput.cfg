CONSTANTS
    Chars <- MCChars
    NL <- MCNL
    Width = 2
    Placeholder <- MCPlaceholder
    ImeTexts <- MCImeTexts
    Values <- MCValues
    Cursors <- MCCursors
    Offsets <- MCOffsets
    MaxLengthProps = {2, NullProp}
    RegexProps <- MCRegexProps
    MaxLinesProps = {0, 2}
    ConfirmProps = {"send"}
    TypeProps = {"text", "password"}
    NullProp = NullProp
    NoRegex = NoRegex
    MaxText = 3

SPECIFICATION Spec

INVARIANT TypeOK
INVARIANT MaxLinesCutIsLongestFit
PROPERTY EditsKeepMaxLength
PROPERTY EditsKeepMaxLines
PROPERTY EditsKeepRegex
