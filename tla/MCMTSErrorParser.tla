-------------------------- MODULE MCMTSErrorParser --------------------------
EXTENDS MTSErrorParser

MT == "main-thread.js"

(* Function-info entries: F1 in the current line_col format, F2 in the    *)
(* legacy line_col_info format (one packed, one direct, one unusable).    *)
F1 == [function_id |-> 1, function_source |-> "srcA",
       line_col |-> << [line |-> 10, column |-> 4], [line |-> 11, column |-> 2] >>,
       legacy |-> << >>,
       callers |-> [p \in {1} |-> "callA"]]
F2 == [function_id |-> 2, function_source |-> "",
       line_col |-> << >>,
       legacy |-> << [line |-> 0, column |-> 5 * 65536 + 7],
                     [line |-> 3, column |-> 9],
                     [line |-> 0, column |-> 0] >>,
       callers |-> [p \in {0, 2} |-> "callB"]]
\* Function 1 as another template compiled it.
F1b == [F1 EXCEPT !.function_source = "",
                  !.line_col = << [line |-> 20, column |-> 1], [line |-> 21, column |-> 6] >>,
                  !.callers = [p \in {1} |-> "callC"]]

Entry(list, src) == [function_info |-> list, function_source |-> src]

\* Current-format key; the source comes from the first function.
BlobA == [json |-> TRUE, keys |-> << [key |-> "lepusNG_debug_info", entry |-> Entry(<< F1, F2 >>, "")] >>]
\* Another template: a key the file name includes wins over the legacy key.
BlobB == [json |-> TRUE, keys |-> << [key |-> "main-thread", entry |-> Entry(<< F1b >>, "")],
                                     [key |-> "lepus_debug_info", entry |-> Entry(<< F1, F2 >>, "")] >>]
\* An entry with a function source and no function_info list.
BlobNoList == [json |-> TRUE, keys |-> << [key |-> "other", entry |-> Entry(Absent, "srcO")] >>]
\* Not JSON.
BlobBad == [json |-> FALSE, keys |-> << >>]

MCIncludes(f, key) == <<f, key>> \in {<<MT, "main-thread">>, <<"other.js", "other">>}

MCFiles == {MT, "other.js", "bad.js"}

\* One template: the debug url and main-thread.js serve the same debug info.
OneTemplate == (MT :> BlobA) @@ ("other.js" :> BlobNoList) @@ ("bad.js" :> BlobBad)
                 @@ ("u1" :> BlobA)
\* Two templates (two LynxViews): u2 serves another template's debug info.
TwoTemplates == OneTemplate @@ ("u2" :> BlobB)

Fr(f, l, c) == [file |-> f, line |-> l, col |-> c]

\* What parseStack finds in each stack atom.
MCStacks == {"s1", "s2a", "s2b", "s3", "s4"}
MCParseStack ==
    ("s1" :> << Fr(NoFile, 1, 1), Fr("other.js", 1, 0), Fr(NoFile, 2, 0) >>)
    @@ ("s2a" :> << Fr(NoFile, 2, 1), Fr("bad.js", 2, 0) >>)
    @@ ("s2b" :> << Fr(MT, 2, 2), Fr(NoFile, 9, 0) >>)
    @@ ("s3" :> << Fr(MT, 2, 0) >>)
    @@ ("s4" :> << Fr(NoFile, 1, 1), Fr("other.js", 1, 0), Fr(NoFile, 1, 0) >>)

\* error_code values: a main-thread one and a background one.
MTSCode == 16010300
BTSCode == 16010200

Err(text, cause) == [text |-> text, cause |-> cause]

\* A JSON error field whose rawError.cause.cause holds a "not a function"
\* message, its backtrace and a debug url.
In1 == [code |-> MTSCode,
        error |-> Err(<< "json" >>, << "naf", BT, "s1", TDU, "u1" >>)]
\* Plain text whose stack spans two atoms, with an empty debug url.
In2 == [code |-> MTSCode + 99, error |-> Err(<< "msg", BT, "s2a", "s2b", TDU >>, Absent)]
\* A "not a function" error raised at pc 0 of function 2.
In3 == [code |-> MTSCode, error |-> Err(<< "naf", BT, "s3" >>, Absent)]
\* An error of the second template.
In4 == [code |-> MTSCode,
        error |-> Err(<< "json" >>, << "naf", BT, "s4", TDU, "u2" >>)]
\* An error of the background channel: not this parser's.
In5 == [code |-> BTSCode, error |-> Err(<< "naf", BT, "s1" >>, Absent)]
\* A JSON error field whose rawError.cause.cause is an object.
In6 == [code |-> MTSCode, error |-> Err(<< "json" >>, NonString)]

\* A backtrace whose text contains the marker again.
In7 == [code |-> MTSCode, error |-> Err(<< "msg", BT, "s2a", BT, "s2b" >>, Absent)]

OneTemplateInputs == {In1, In2, In5, In6}
CallerInputs == {In3}
RepeatedMarkerInputs == {In7}
TwoTemplateInputs == {In1, In4}
=============================================================================
