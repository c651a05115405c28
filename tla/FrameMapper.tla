---------------------------- MODULE FrameMapper ----------------------------
(***************************************************************************)
(* map(frames, contextLines, resProvider) of logbox/src/utils/mapper.ts.   *)
(*                                                                         *)
(* One call: the distinct file names of the frames are collected, one      *)
(* task per file fetches its text through the provider and builds its     *)
(* source map, all tasks are joined with settle (a rejected task does not  *)
(* abort the others), then every frame is rewritten synchronously.  The    *)
(* tasks of one call share only the cache object, each under its own key; *)
(* a task has no other effect, so it is one action, and the tasks settle   *)
(* in any order.                                                           *)
(*                                                                         *)
(* A text is abstracted to its number of lines; a source map to the       *)
(* lookups it answers (SourceMap) and the embedded sources (OriginalText). *)
(***************************************************************************)
EXTENDS Integers, Sequences, SequencesExt

CONSTANTS
    Files,          \* file names frames may carry
    Null,           \* null / undefined
    Inputs,         \* the frame sequences map may be called with
    ContextLines,   \* contextLines (DEFAULT_CONTEXT_SIZE)
    Served,         \* what resProvider.getResource(file) may settle with:
                    \* file -> set of line counts, Null, or Rejected
    Rejected,
    SourceMap,      \* file -> [<<line, column>> -> [source, line, column]]
    OriginalText    \* original source name -> line count

VARIABLES
    input,    \* the frames map was called with
    settled,  \* file -> "pending", "resolved" or "rejected": its task's state
    cache,    \* file -> [fileSource], for the tasks that resolved (line 42)
    output    \* what map returned: Null while running, or the frames

vars == <<input, settled, cache, output>>

TypeOK ==
    /\ input \in Inputs
    /\ settled \in [Files -> {"none", "pending", "resolved", "rejected"}]
    /\ DOMAIN cache \subseteq Files
    /\ output = Null \/ output = Rejected \/ Len(output) = Len(input)

-----------------------------------------------------------------------------
(* getFilesInFrames: distinct non-null file names, first-seen order.       *)
getFilesInFrames(frames) ==
    LET RECURSIVE Collect(_, _)
        Collect(i, files) ==
            IF i > Len(frames) THEN files
            ELSE IF frames[i].fileName = Null \/ Contains(files, frames[i].fileName)
            THEN Collect(i + 1, files)
            ELSE Collect(i + 1, Append(files, frames[i].fileName))
    IN Collect(1, << >>)

(* ContextExtractor.getLinesAround(line, count, text), with the text      *)
(* given by its number of lines: the lines from line - count to           *)
(* line + count that exist, the one at line highlighted; a null line or   *)
(* an empty text gives none.                                              *)
getLinesAround(line, count, total) ==
    IF line = Null \/ total = Null \/ total = 0 THEN << >>
    ELSE LET lo == IF line - count < 1 THEN 1 ELSE line - count
             hi == IF line + count > total THEN total ELSE line + count
         IN [i \in 1..(hi - lo + 1) |->
                [lineNumber |-> lo + i - 1, highlight |-> lo + i - 1 = line]]

(* SourceMapResolver.getOriginalPosition on the map loaded from file f's  *)
(* text: nulls where nothing is mapped, and everywhere for a map loaded   *)
(* from an empty text (fileSource ?? '' at line 41).                      *)
getOriginalPosition(f, text, line, column) ==
    IF text \notin {Null, 0} /\ <<line, column>> \in DOMAIN SourceMap[f]
    THEN SourceMap[f][<<line, column>>]
    ELSE [source |-> Null, line |-> Null, column |-> Null]

(* SourceMapResolver.getSource: the embedded text, else empty.            *)
getSource(source) ==
    IF source \in DOMAIN OriginalText THEN OriginalText[source] ELSE 0

(* Lines 45-71: the rewrite of one frame once every task has settled.     *)
(* A frame without a file, without a cached map, or without a line is     *)
(* returned as it is; any other is rebuilt with both context windows and  *)
(* the original position, whatever the lookup returned (line 55 only      *)
(* warns when it found nothing).                                          *)
MapFrame(frame, c) ==
    IF frame.fileName = Null \/ frame.fileName \notin DOMAIN c \/ frame.lineNumber = Null
    THEN frame
    ELSE LET pos == getOriginalPosition(frame.fileName, c[frame.fileName].fileSource,
                                        frame.lineNumber, frame.columnNumber)
             originalSource == IF pos.source = Null THEN 0 ELSE getSource(pos.source)
         IN [frame EXCEPT
               !.scriptCode = getLinesAround(frame.lineNumber, ContextLines,
                                             c[frame.fileName].fileSource),
               !.originalFunctionName = frame.functionName,
               !.originalFileName = pos.source,
               !.originalLineNumber = pos.line,
               !.originalColumnNumber = pos.column,
               !.originalScriptCode = getLinesAround(pos.line, ContextLines, originalSource)]

-----------------------------------------------------------------------------
(* Lines 36-39: the call collects its files and starts one task each.     *)
Init ==
    /\ input \in Inputs
    /\ settled = [f \in Files |->
                    IF Contains(getFilesInFrames(input), f) THEN "pending" ELSE "none"]
    /\ cache = << >>
    /\ output = Null

(* Lines 40-42: the task of file f: getResource resolves (to a text or to *)
(* nothing), getSourceMap loads the map from it (or from ''), and both    *)
(* are cached under f.                                                    *)
TaskResolves(f) ==
    /\ settled[f] = "pending"
    /\ \E text \in Served[f] \ {Rejected} :
          cache' = cache @@ (f :> [fileSource |-> text])
    /\ settled' = [settled EXCEPT ![f] = "resolved"]
    /\ UNCHANGED <<input, output>>

(* Mutant: the tasks joined with Promise.all instead of settle; one      *)
(* rejection rejects map.                                                 *)
TaskRejectsAll(f) ==
    /\ settled[f] = "pending"
    /\ Rejected \in Served[f]
    /\ settled' = [settled EXCEPT ![f] = "rejected"]
    /\ output' = Rejected
    /\ UNCHANGED <<input, cache>>

(* Line 40: getResource rejects; settle records the failure of the task   *)
(* and nothing is cached for f.                                           *)
TaskRejects(f) ==
    /\ settled[f] = "pending"
    /\ Rejected \in Served[f]
    /\ settled' = [settled EXCEPT ![f] = "rejected"]
    /\ UNCHANGED <<input, cache, output>>

(* Mutant: the settle at line 38 not awaited.                            *)
JoinUnawaited ==
    /\ output = Null
    /\ output' = [i \in DOMAIN input |-> MapFrame(input[i], cache)]
    /\ UNCHANGED <<input, settled, cache>>

(* Mutant: frames without a file dropped instead of passed through.       *)
JoinDropsUnnamed ==
    /\ \A f \in Files : settled[f] # "pending"
    /\ output = Null
    /\ output' = LET kept == SelectSeq(input, LAMBDA fr : fr.fileName # Null)
                 IN [i \in DOMAIN kept |-> MapFrame(kept[i], cache)]
    /\ UNCHANGED <<input, settled, cache>>

(* Lines 38 and 45-71: settle resolves once every task has settled, and   *)
(* every frame is rewritten.                                              *)
Join ==
    /\ \A f \in Files : settled[f] # "pending"
    /\ output = Null
    /\ output' = [i \in DOMAIN input |-> MapFrame(input[i], cache)]
    /\ UNCHANGED <<input, settled, cache>>

Next ==
    \/ \E f \in Files : TaskResolves(f) \/ TaskRejects(f)
    \/ Join

(* Every getResource settles in finite time (spec §5), and settle then    *)
(* resolves; map is a single call, so weak fairness of Next suffices.     *)
Spec == Init /\ [][Next]_vars /\ WF_vars(Next)

-----------------------------------------------------------------------------
(* Properties                                                              *)

(* P2 with partial failure: what map returns has the input's length and   *)
(* order, keeps every frame's generated position, and rebuilds exactly    *)
(* the frames with a file, a line, and a file whose fetch resolved: a     *)
(* rejected fetch of one file leaves the frames of every other file       *)
(* mapped.                                                                 *)
FramesPreserved ==
    output \notin {Null, Rejected} =>
        \A i \in DOMAIN input :
            /\ output[i].functionName = input[i].functionName
            /\ output[i].fileName = input[i].fileName
            /\ output[i].lineNumber = input[i].lineNumber
            /\ output[i].columnNumber = input[i].columnNumber
            /\ (output[i] # input[i]
                  <=> /\ input[i].fileName # Null
                      /\ input[i].lineNumber # Null
                      /\ settled[input[i].fileName] = "resolved")

(* The spec's all-or-nothing rule for a frame: the original-* fields are  *)
(* either all set, or none is (a frame is never half resolved).           *)
OriginalAllOrNothing ==
    output \notin {Null, Rejected} =>
        \A i \in DOMAIN output :
            LET o == output[i]
            IN \/ /\ o.originalFunctionName = Null /\ o.originalFileName = Null
                  /\ o.originalLineNumber = Null /\ o.originalColumnNumber = Null
               \/ /\ o.originalFunctionName # Null /\ o.originalFileName # Null
                  /\ o.originalLineNumber # Null /\ o.originalColumnNumber # Null

(* map always resolves: however its fetches settle, with rejections       *)
(* among them, the call returns its frames.                               *)
MapResolves == <>(output \notin {Null, Rejected})

=============================================================================
