--------------------------- MODULE MCFrameMapper ---------------------------
EXTENDS FrameMapper, TLC

\* A frame as parseStack builds it: nothing resolved yet.
Fr(fn, file, line, col) ==
    [functionName |-> fn, fileName |-> file, lineNumber |-> line,
     columnNumber |-> col, scriptCode |-> Null,
     originalFunctionName |-> Null, originalFileName |-> Null,
     originalLineNumber |-> Null, originalColumnNumber |-> Null,
     originalScriptCode |-> Null]

MCFiles == {"a.js", "b.js", "c.js"}

\* Two frames of a.js (one mapped, one not), a frame without a file, a
\* frame of b.js without a line and one with; and a call over three files.
MCInputs ==
    { << Fr("f", "a.js", 2, 0), Fr("g", Null, 1, 1), Fr("h", "b.js", Null, 0),
         Fr("k", "b.js", 1, 4), Fr("m", "a.js", 5, 3) >>,
      << Fr("f", "c.js", 1, 0), Fr("g", "a.js", 2, 0), Fr("k", "b.js", 1, 4) >> }

\* What each fetch may settle with: a text of some lines, an empty text,
\* nothing (undefined), or a rejection.
MCServed == ("a.js" :> {6, 1, Rejected}) @@ ("b.js" :> {2, Null, Rejected})
            @@ ("c.js" :> {0, 3, Rejected})

MCSourceMap ==
    ("a.js" :> (<<2, 0>> :> [source |-> "A.ts", line |-> 4, column |-> 0]))
    @@ ("b.js" :> (<<1, 4>> :> [source |-> "B.ts", line |-> 1, column |-> 2]))
    @@ ("c.js" :> (<<1, 0>> :> [source |-> "C.ts", line |-> 1, column |-> 0]))

\* A.ts is embedded in its map; B.ts and C.ts are not.
MCOriginalText == "A.ts" :> 8
=============================================================================
