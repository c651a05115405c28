--------------------------- MODULE MTSErrorParser ---------------------------
(***************************************************************************)
(* MTSErrorParser of lynx-error-parser/src/mtsErrorParser.ts: the          *)
(* main-thread channel, which maps bytecode (function id, pc index) frames *)
(* back to source positions through a JSON debug-info table.               *)
(*                                                                         *)
(* One MTSErrorParser instance is registered for the "lynx" namespace, so  *)
(* every main-thread error of the session goes through the same object and *)
(* its debugInfo cache (file name -> fetched blob).  Parses of different   *)
(* errors interleave at their awaits on queryResource; everything a parse  *)
(* does between two awaits is one action.  The per-parse state is the      *)
(* frames being rewritten, the loop index of getStackFramesInProduction,   *)
(* the parse's own MTSResourceProvider and the caller info.                *)
(*                                                                         *)
(* A debug-info blob is a record: json (did JSON.parse succeed) and keys, *)
(* the top-level keys of the parsed object in order, each with its entry  *)
(* [function_info, function_source]; a missing list is Absent, a missing  *)
(* source "".  A frame is [file, line, col]; as in the code, line and col *)
(* hold the function id and pc index until they are resolved.            *)
(*                                                                         *)
(* An error text is a sequence of atoms: the two markers "backtrace:" and *)
(* "template_debug_url:", a url, a stack (whose frames ParseStack gives), *)
(* "naf" for message text containing 'not a function', and other text.   *)
(* A raw error is [code, error]: error is [text, cause], cause being the  *)
(* rawError.cause.cause of a JSON error field (Absent when there is none, *)
(* NonString when it is not a string).                                    *)
(***************************************************************************)
EXTENDS Integers, Sequences, SequencesExt

CONSTANTS
    Requests,            \* the main-thread errors parsed in the session
    Files,               \* file names frames may carry
    MainThreadFile,      \* 'main-thread.js'
    NoFile,              \* a frame whose fileName is missing
    Urls,                \* template_debug_url values
    NoUrl,               \* an error text without template_debug_url:
    Resource,            \* what queryResource serves: Files \cup Urls -> blob
    Inputs,              \* the decoded errors a parse may be given
    MAX_STACK_FRAME_LEN,
    Absent,              \* a key not present in a Map, a null field
    Includes(_, _),      \* fileName.includes(key)
    Threw,               \* a parse whose promise rejected
    E_CODE_MTS,          \* the main-thread channel, error_code \div 100
    Stacks,              \* stack-text atoms
    ParseStack,          \* window.logBoxCore.parseStack: Stacks -> frames
    NonString,           \* a rawError.cause.cause that is not a string
    MayBeEmpty           \* files and urls whose queryResource may resolve ''

ASSUME MainThreadFile \in Files
ASSUME MAX_STACK_FRAME_LEN \in Nat \ {0}

VARIABLES
    debugInfo,   \* MTSErrorParser.debugInfo, shared by all parses
    input,       \* the error each parse was given
    pc,          \* where each parse is suspended
    frames,      \* the frames getStackFramesInProduction is rewriting
    idx,         \* its loop index
    provider,    \* each parse's MTSResourceProvider.resourceMap
    callerInfo,  \* the caller info found for the first frame
    result       \* the record each parse returned

vars == <<debugInfo, input, pc, frames, idx, provider, callerInfo, result>>

Frame == [file : Files \cup {NoFile}, line : Int, col : Int]

(* The text '' a failed query may resolve with: falsy, and not JSON.     *)
EmptyText == [json |-> FALSE, keys |-> << >>]

TypeOK ==
    /\ debugInfo \in [Files -> Range(Resource) \cup {Absent, EmptyText}]
    /\ input \in [Requests -> Inputs]
    /\ pc \in [Requests -> {"idle", "fetchUrl", "fetchFrame", "mapping", "done"}]
    /\ frames \in [Requests -> Seq(Frame)]
    /\ idx \in [Requests -> Nat]
    /\ provider \in [Requests -> [Files -> STRING \cup {Absent}]]
    /\ callerInfo \in [Requests -> STRING]

-----------------------------------------------------------------------------
(* Helpers translated from the parser's methods                            *)

(* What queryResource(x) may resolve with: the resource, or '' when the  *)
(* bridge fails to serve x.                                               *)
Served(x) == {Resource[x]} \cup (IF x \in MayBeEmpty THEN {EmptyText} ELSE {})

BT == "backtrace:"
TDU == "template_debug_url:"
Null == [null |-> TRUE]      \* parse resolved to null: not this channel

(* str.split(sep)[0]: the atoms before the first sep.                     *)
Piece0(str, sep) ==
    LET at == SelectInSeq(str, LAMBDA x : x = sep) IN
    IF at = 0 THEN str ELSE SubSeq(str, 1, at - 1)

(* str.split(sep)[1]: the atoms between the first and the second sep,     *)
(* undefined (Absent) when there is no sep.                               *)
Piece1(str, sep) ==
    LET at == SelectInSeq(str, LAMBDA x : x = sep) IN
    IF at = 0 THEN Absent ELSE Piece0(SubSeq(str, at + 1, Len(str)), sep)

(* extractErrorInfo (lines 90-98): split on template_debug_url:, then the *)
(* part before it on backtrace:, keeping the first two pieces of each.    *)
extractErrorInfo(str) ==
    LET error == Piece0(str, TDU) IN
    [message |-> Piece0(error, BT), stack |-> Piece1(error, BT),
     debugInfoUrl |-> Piece1(str, TDU)]

(* Mutant: the nested cause ignored.                                      *)
originalErrorInfoNoUnwrap(e) == e.text

(* Lines 55-59: a JSON error field whose rawError.cause.cause is set      *)
(* carries the text to decode; otherwise the field itself is decoded.     *)
originalErrorInfo(e) == IF e.cause # Absent THEN e.cause ELSE e.text

(* window.logBoxCore.parseStack on a stack text: the frames of its stack  *)
(* atoms, in order (StackTextParser, spec 4.3); none for a text without   *)
(* backtrace:, whose stack is undefined.                                   *)
StackFrames(stack) ==
    IF stack = Absent THEN << >> ELSE
    FlattenSeq([i \in DOMAIN stack |-> IF stack[i] \in Stacks THEN ParseStack[stack[i]] ELSE << >>])

(* What lines 55-67 and 81 use of the error: the debug url (a url piece   *)
(* is one atom; an empty or missing one is falsy), the parsed frames, and *)
(* whether the message includes 'not a function'.                         *)
Decoded(in) ==
    LET info == extractErrorInfo(originalErrorInfo(in.error)) IN
    [url          |-> IF info.debugInfoUrl \in {Absent, << >>} THEN NoUrl ELSE info.debugInfoUrl[1],
     frames       |-> StackFrames(info.stack),
     notAFunction |-> "naf" \in ToSet(info.message)]

(* rawFrames.slice(0, MAX_STACK_FRAME_LEN) when longer (lines 68-70).      *)
Truncate(fs) ==
    IF Len(fs) > MAX_STACK_FRAME_LEN THEN SubSeq(fs, 1, MAX_STACK_FRAME_LEN) ELSE fs

(* A frame without a file name is taken to be main-thread.js (lines 122-124).*)
DefaultFile(fr) ==
    IF fr.file = NoFile THEN [fr EXCEPT !.file = MainThreadFile] ELSE fr

(* MTSResourceProvider.setResource: returns without setting when the key   *)
(* is present and its current value is falsy.                             *)
setResource(prov, res, f) ==
    IF prov[f] # Absent /\ prov[f] = "" THEN prov ELSE [prov EXCEPT ![f] = res]

(* The least of a set of indices, 0 when it is empty.                     *)
FirstIndex(S) == IF S = {} THEN 0 ELSE CHOOSE i \in S : \A j \in S : i <= j

(* functionInfoList.find(info => info.function_id ==(=) id): index or 0.   *)
FindFunction(fns, id) == FirstIndex({i \in DOMAIN fns : fns[i].function_id = id})

(* Mutant: pc2caller_info read with ?. and returned as it is, undefined  *)
(* when the function or the pc is missing.                                *)
getCallerInfoUndef(functionId, pcIndex, fns) ==
    IF functionId = 0 \/ pcIndex = 0 THEN ""
    ELSE LET k == FindFunction(fns, functionId) IN
         IF k # 0 /\ pcIndex \in DOMAIN fns[k].callers
         THEN fns[k].callers[pcIndex] ELSE Absent

(* getCallerInfo: a falsy function id or pc index gives "", as does a     *)
(* function without pc2caller_info or without that pc in it.              *)
getCallerInfo(functionId, pcIndex, fns) ==
    IF functionId = 0 \/ pcIndex = 0 THEN ""
    ELSE LET k == FindFunction(fns, functionId) IN
         IF k # 0 /\ pcIndex \in DOMAIN fns[k].callers
         THEN fns[k].callers[pcIndex] ELSE ""

(* The legacy packed position: (column >> 16) & 0xffff and column & 0xffff *)
(* (lines 170-171).  TLC's integers stop below 2^31, where ToInt32 is the *)
(* identity, so the shift is a division; the & 0xffff masks are kept.     *)
UnpackLine(c) == (c \div 65536) % 65536
UnpackColumn(c) == c % 65536

(* Lines 163-176: legacy line_col_info.line_col entry at the pc.          *)
LegacyPosition(pos, fr) ==
    IF pos.line = 0 /\ pos.column > 65536
    THEN [fr EXCEPT !.line = UnpackLine(pos.column), !.col = UnpackColumn(pos.column)]
    ELSE IF pos.line > 0 /\ pos.column > 0
    THEN [fr EXCEPT !.line = pos.line, !.col = pos.column]
    ELSE fr

(* Lines 159-176: index line_col (0-based) by the pc when long enough,    *)
(* else the legacy list when long enough, else leave the frame.           *)
Reposition(fi, fr) ==
    IF Len(fi.line_col) > fr.col
    THEN [fr EXCEPT !.line = fi.line_col[fr.col + 1].line,
                    !.col = fi.line_col[fr.col + 1].column]
    ELSE IF Len(fi.legacy) > fr.col
    THEN LegacyPosition(fi.legacy[fr.col + 1], fr)
    ELSE fr

(* debugInfoJson[name] for a top-level key, Absent when there is none.   *)
JsonKey(b, name) ==
    LET k == FirstIndex({i \in DOMAIN b.keys : b.keys[i].key = name}) IN
    IF k = 0 THEN Absent ELSE b.keys[k].entry

(* getFunctionInfo: the first key the file name includes, else the       *)
(* current-format key, else the legacy key; its function_info list, and   *)
(* its function_source or else that of the list's first function.         *)
getFunctionInfo(b, fileName) ==
    LET k     == FirstIndex({i \in DOMAIN b.keys : Includes(fileName, b.keys[i].key)})
        entry == IF k # 0 THEN b.keys[k].entry
                 ELSE IF JsonKey(b, "lepusNG_debug_info") # Absent
                      THEN JsonKey(b, "lepusNG_debug_info")
                      ELSE JsonKey(b, "lepus_debug_info")
        list  == IF entry = Absent THEN Absent ELSE entry.function_info
    IN [functionInfoList |-> list,
        functionSource   |->
            IF entry = Absent THEN ""
            ELSE IF entry.function_source # "" THEN entry.function_source
            ELSE IF list # Absent /\ list # << >> THEN list[1].function_source
            ELSE ""]

(* Mutant: the caller info looked up for every frame, not only index 0.  *)
ProcessFrameEveryCaller(s, b) ==
    LET i  == s.idx
        fr == DefaultFile(s.frames[i])
        fi == getFunctionInfo(b, fr.file)
        k  == FindFunction(fi.functionInfoList, fr.line)
        next(newFr, prov, caller) ==
            [s EXCEPT !.frames[i] = newFr, !.idx = i + 1,
                      !.provider = prov, !.caller = caller]
    IN
    IF ~b.json THEN next(fr, s.provider, s.caller)
    ELSE LET prov   == setResource(s.provider, fi.functionSource, fr.file)
             caller == getCallerInfo(fr.line, fr.col, fi.functionInfoList)
         IN IF fi.functionInfoList = Absent THEN next(fr, prov, s.caller)
            ELSE IF k = 0 \/ fr.col = -1 THEN next(fr, prov, caller)
            ELSE next(Reposition(fi.functionInfoList[k], fr), prov, caller)

(* One iteration of the loop of getStackFramesInProduction (lines         *)
(* 120-178) for the frame at s.idx, given the debug info b of its file.   *)
(* s is [frames, idx, provider, caller].                                   *)
ProcessFrame(s, b) ==
    LET i  == s.idx
        fr == DefaultFile(s.frames[i])
        fi == getFunctionInfo(b, fr.file)
        k  == FindFunction(fi.functionInfoList, fr.line)
        next(newFr, prov, caller) ==
            [s EXCEPT !.frames[i] = newFr, !.idx = i + 1,
                      !.provider = prov, !.caller = caller]
    IN
    IF ~b.json THEN next(fr, s.provider, s.caller)
    ELSE LET prov   == setResource(s.provider, fi.functionSource, fr.file)
             caller == IF i = 1 THEN getCallerInfo(fr.line, fr.col, fi.functionInfoList)
                       ELSE s.caller
         IN IF fi.functionInfoList = Absent THEN next(fr, prov, s.caller)
            ELSE IF k = 0 \/ fr.col = -1 THEN next(fr, prov, caller)
            ELSE next(Reposition(fi.functionInfoList[k], fr), prov, caller)

(* The loop runs without suspending while every file it meets is in the   *)
(* cache; it stops at the end or at the first miss, where it awaits       *)
(* queryResource (line 130).                                              *)
RECURSIVE RunFrames(_, _)
RunFrames(s, cache) ==
    IF s.idx > Len(s.frames) THEN s
    ELSE LET f == DefaultFile(s.frames[s.idx]).file IN
         IF cache[f] = Absent THEN s
         ELSE RunFrames(ProcessFrame(s, cache[f]), cache)

LocalState(r) ==
    [frames |-> frames[r], idx |-> idx[r], provider |-> provider[r], caller |-> callerInfo[r]]

(* Run the loop from s0 against cache and record where it stopped: at a   *)
(* miss the parse awaits the fetch, at the end it goes on to map.         *)
Continue(r, s0, cache) ==
    LET s == RunFrames(s0, cache) IN
    /\ frames' = [frames EXCEPT ![r] = s.frames]
    /\ idx' = [idx EXCEPT ![r] = s.idx]
    /\ provider' = [provider EXCEPT ![r] = s.provider]
    /\ callerInfo' = [callerInfo EXCEPT ![r] = s.caller]
    /\ pc' = [pc EXCEPT ![r] = IF s.idx > Len(s.frames) THEN "mapping" ELSE "fetchFrame"]

(* Lines 65-70: parse the stack, truncate it, and enter                 *)
(* getStackFramesInProduction with a fresh provider.                      *)
StartLoop(r, cache) ==
    Continue(r, [frames |-> Truncate(Decoded(input[r]).frames), idx |-> 1,
                 provider |-> [f \in Files |-> Absent], caller |-> ""], cache)

-----------------------------------------------------------------------------
(* Actions                                                                 *)

Init ==
    /\ debugInfo = [f \in Files |-> Absent]
    /\ input \in [Requests -> Inputs]
    /\ pc = [r \in Requests |-> "idle"]
    /\ frames = [r \in Requests |-> <<>>]
    /\ idx = [r \in Requests |-> 1]
    /\ provider = [r \in Requests |-> [f \in Files |-> Absent]]
    /\ callerInfo = [r \in Requests |-> ""]
    /\ result = [r \in Requests |-> Absent]

(* Lines 44-54: Math.floor(code / 100) names another channel: null.     *)
Declines(r) ==
    /\ pc[r] = "idle"
    /\ input[r].code \div 100 # E_CODE_MTS
    /\ pc' = [pc EXCEPT ![r] = "done"]
    /\ result' = [result EXCEPT ![r] = Null]
    /\ UNCHANGED <<debugInfo, input, frames, idx, provider, callerInfo>>

(* Line 91: a rawError.cause.cause that is not a string has no split; the *)
(* TypeError rejects the parse.                                           *)
SplitThrows(r) ==
    /\ pc[r] = "idle"
    /\ input[r].code \div 100 = E_CODE_MTS
    /\ input[r].error.cause = NonString
    /\ pc' = [pc EXCEPT ![r] = "done"]
    /\ result' = [result EXCEPT ![r] = Threw]
    /\ UNCHANGED <<debugInfo, input, frames, idx, provider, callerInfo>>

(* Lines 55-67: decode the error; with a template_debug_url the parse     *)
(* awaits its fetch, without one it goes straight on to the frames.       *)
Begin(r) ==
    /\ pc[r] = "idle"
    /\ input[r].code \div 100 = E_CODE_MTS
    /\ input[r].error.cause # NonString
    /\ IF Decoded(input[r]).url # NoUrl
       THEN /\ pc' = [pc EXCEPT ![r] = "fetchUrl"]
            /\ UNCHANGED <<frames, idx, provider, callerInfo>>
       ELSE StartLoop(r, debugInfo)
    /\ UNCHANGED <<debugInfo, input, result>>

(* Lines 62-63: the fetched debug info, '' included, is stored under      *)
(* 'main-thread.js', overwriting whatever an earlier parse stored there.  *)
UrlFetched(r) ==
    /\ pc[r] = "fetchUrl"
    /\ \E res \in Served(Decoded(input[r]).url) :
          LET cache == [debugInfo EXCEPT ![MainThreadFile] = res] IN
          /\ debugInfo' = cache
          /\ StartLoop(r, cache)
    /\ UNCHANGED <<input, result>>

(* Lines 130-131: the missed file's debug info arrives and is cached,     *)
(* '' included, even if another parse cached it meanwhile; the loop       *)
(* resumes.                                                                *)
FrameFetched(r) ==
    /\ pc[r] = "fetchFrame"
    /\ LET f == DefaultFile(frames[r][idx[r]]).file IN
       \E res \in Served(f) :
          LET cache == [debugInfo EXCEPT ![f] = res] IN
          /\ debugInfo' = cache
          /\ Continue(r, LocalState(r), cache)
    /\ UNCHANGED <<input, result>>

(* queryResource rejects: nothing catches it inside parse, which rejects. *)
FetchRejects(r) ==
    /\ pc[r] \in {"fetchUrl", "fetchFrame"}
    /\ pc' = [pc EXCEPT ![r] = "done"]
    /\ result' = [result EXCEPT ![r] = Threw]
    /\ UNCHANGED <<debugInfo, input, frames, idx, provider, callerInfo>>

(* Lines 81-87: append the caller info to a "not a function" message,   *)
(* then hand the frames and the provider to map (FrameMapper).            *)
Finish(r) ==
    /\ pc[r] = "mapping"
    /\ pc' = [pc EXCEPT ![r] = "done"]
    /\ result' = [result EXCEPT ![r] =
                    [frames   |-> frames[r],
                     provider |-> provider[r],
                     appended |-> IF Decoded(input[r]).notAFunction /\ callerInfo[r] # ""
                                  THEN callerInfo[r] ELSE ""]]
    /\ UNCHANGED <<debugInfo, input, frames, idx, provider, callerInfo>>

Next ==
    \E r \in Requests :
        \/ Declines(r)
        \/ SplitThrows(r)
        \/ Begin(r)
        \/ UrlFetched(r)
        \/ FrameFetched(r)
        \/ FetchRejects(r)
        \/ Finish(r)

Step(r) == Declines(r) \/ SplitThrows(r) \/ Begin(r) \/ UrlFetched(r) \/ FrameFetched(r) \/ Finish(r)

(* queryResource settles in finite time (spec §5), so a parse that is not *)
(* done keeps being able to step and eventually does: weak fairness of    *)
(* Step(r), written with the state predicate that is its enabling         *)
(* condition (every step of a parse that is not done changes pc).         *)
Fairness ==
    \A r \in Requests : []<>(pc[r] = "done") \/ []<><<Step(r)>>_vars

Spec == Init /\ [][Next]_vars /\ Fairness

-----------------------------------------------------------------------------
(* Reference: phase A as spec §4.5 states it, one error at a time.  The  *)
(* debug info of a file is what queryResource serves for it, except that *)
(* main-thread.js frames of an error carrying template_debug_url use the  *)
(* debug info at that url.                                                *)

\* The error text split as spec 4.5 and 6 state it: the message before the
\* first backtrace:, the stack up to the first template_debug_url:, the url
\* after it; its frames, and whether the message says 'not a function'.
RefDecoded(in) ==
    LET t == IF in.error.cause # Absent THEN in.error.cause ELSE in.error.text
        b == SelectInSeq(t, LAMBDA x : x = BT)
        d == SelectInSeq(t, LAMBDA x : x = TDU)
        stack == SubSeq(t, b + 1, IF d > b THEN d - 1 ELSE Len(t))
    IN [url          |-> IF d = 0 \/ d = Len(t) THEN NoUrl ELSE t[d + 1],
        frames       |-> StackFrames(stack),
        notAFunction |-> "naf" \in ToSet(SubSeq(t, 1, b - 1))]

RefDebugInfo(in, f) ==
    IF f = MainThreadFile /\ in.url # NoUrl THEN Resource[in.url] ELSE Resource[f]

RefFrames(in) ==
    LET fs == SubSeq(in.frames, 1, IF Len(in.frames) < MAX_STACK_FRAME_LEN
                                     THEN Len(in.frames) ELSE MAX_STACK_FRAME_LEN)
    IN [i \in DOMAIN fs |-> DefaultFile(fs[i])]

\* The function-info entries a frame names, as a set (empty when none);
\* the debug-info entry of the file is located as getFunctionInfo does.
RefEntry(b, fr) ==
    LET list == getFunctionInfo(b, fr.file).functionInfoList IN
    IF b.json /\ list # Absent THEN {fi \in ToSet(list) : fi.function_id = fr.line} ELSE {}

RefPosition(b, fr) ==
    LET p == fr.col IN
    IF RefEntry(b, fr) = {} \/ p < 0 THEN fr
    ELSE LET fi == CHOOSE x \in RefEntry(b, fr) : TRUE IN
         IF p < Len(fi.line_col)
         THEN [fr EXCEPT !.line = fi.line_col[p + 1].line, !.col = fi.line_col[p + 1].column]
         ELSE IF p >= Len(fi.legacy) THEN fr
         ELSE LET pos == fi.legacy[p + 1] IN
              CASE pos.line = 0 /\ pos.column > 65536 ->
                     [fr EXCEPT !.line = (pos.column \div 65536) % 65536,
                                !.col = pos.column % 65536]
                [] pos.line > 0 /\ pos.column > 0 ->
                     [fr EXCEPT !.line = pos.line, !.col = pos.column]
                [] OTHER -> fr

\* Each file's function source is registered once; no debug info, no entry.
RefProvider(in) ==
    LET fs == RefFrames(in)
        named(f) == {i \in DOMAIN fs : fs[i].file = f /\ RefDebugInfo(in, f).json}
    IN [f \in Files |-> IF named(f) = {} THEN Absent
                        ELSE getFunctionInfo(RefDebugInfo(in, f), f).functionSource]

\* The caller info of the first frame: pc2caller_info at its pc, else "".
RefCallerInfo(in) ==
    LET fr == RefFrames(in)[1]
        es == RefEntry(RefDebugInfo(in, fr.file), fr)
    IN IF \E fi \in es : fr.col \in DOMAIN fi.callers
       THEN (CHOOSE fi \in es : TRUE).callers[fr.col] ELSE ""

Returned(r) == pc[r] = "done" /\ result[r] \notin {Threw, Null}

-----------------------------------------------------------------------------
(* Properties                                                              *)

(* Whatever the interleaving of concurrent parses around the shared       *)
(* debugInfo cache, each returned record carries the frames phase A gives *)
(* that error on its own (truncated, main-thread.js defaulted, positions  *)
(* resolved through its debug info, legacy packing decoded) and a         *)
(* provider holding exactly the function source of each of its files.    *)
ResolvedAsReference ==
    \A r \in Requests :
        /\ pc[r] = "done" => (result[r] = Null <=> input[r].code \div 100 # E_CODE_MTS)
        /\ Returned(r) =>
            LET in == RefDecoded(input[r]) IN
            /\ result[r].frames = [i \in DOMAIN RefFrames(in) |->
                                    RefPosition(RefDebugInfo(in, RefFrames(in)[i].file),
                                                RefFrames(in)[i])]
            /\ result[r].provider = RefProvider(in)

(* A "not a function" message gets the caller info pc2caller_info holds   *)
(* for the first frame's function id and pc, and no other message gets    *)
(* anything appended.                                                      *)
CallerInfoAsReference ==
    \A r \in Requests :
        Returned(r) =>
            LET in == RefDecoded(input[r]) IN
            result[r].appended = IF in.notAFunction /\ in.frames # <<>>
                                 THEN RefCallerInfo(in) ELSE ""

(* MTSResourceProvider registers a file's source once: an attempt to set  *)
(* an empty value for a file that already holds a source is ignored (spec *)
(* §4.5, phase B), so a parse never loses a source it registered.         *)
ProviderKeepsSource ==
    [][\A r \in Requests, f \in Files :
         provider[r][f] \notin {Absent, ""} => provider'[r][f] # ""]_provider

(* The per-file debug-info cache refuses to overwrite a present truthy   *)
(* value with a falsy one (spec 5): once a file's debug info is cached, a *)
(* later query that resolves '' does not replace it.                      *)
CacheKeepsTruthy ==
    [][\A f \in Files :
         debugInfo[f] \notin {Absent, EmptyText} => debugInfo'[f] # EmptyText]_debugInfo

(* A failed debug-info fetch passes the frame through unresolved (spec   *)
(* 4.5, phase A) and a resource-fetch failure never aborts the record     *)
(* (spec 7): a parse of this channel rejects only when its error text     *)
(* cannot be split, never because queryResource rejected (lines 62, 130).  *)
FetchFailureTolerated ==
    \A r \in Requests :
        pc[r] = "done" /\ result[r] = Threw => input[r].error.cause = NonString

=============================================================================
