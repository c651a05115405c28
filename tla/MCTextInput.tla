---------------------------- MODULE MCTextInput -----------------------------
(* TextInput instantiated for TLC: two characters a regex may tell apart  *)
(* and the newline, lines of two characters, a placeholder of two lines.  *)
EXTENDS TextInput

MCNL == "\n"
MCChars == {"a", "1", MCNL}
MCPlaceholder == << "a", "a", "a" >>
MCImeTexts == {<< "a" >>, << "1" >>, << MCNL >>, << "1", "1", "a" >>}
MCValues == {<< >>, << "a", "1", "a" >>}
MCRegexProps == {NoRegex, {"1"}}
MCCursors == {-1, 0, 3}
MCOffsets == {-1, 0, 2}
=============================================================================
