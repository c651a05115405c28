----------------------------- MODULE Dispatcher -----------------------------
(***************************************************************************)
(* The logbox error dispatcher: parseErrorWrapper and registerErrorParser   *)
(* of logbox/src/parser/index.ts.                                          *)
(*                                                                         *)
(* Several raw errors may be dispatched concurrently: each call of         *)
(* parseErrorWrapper is a request with its own program counter, and the    *)
(* only state the requests share is the namespace -> parser registry.      *)
(* A request suspends at two awaits: the bridge's loadErrorParser and the  *)
(* selected parser's parse.  Everything between two awaits is one action.  *)
(*                                                                         *)
(* A parser is abstracted to which parser it is: the fallback parser the   *)
(* dispatcher installs itself, or the real parser a loaded script         *)
(* registers.  A raw error is abstracted to its request id (the log).      *)
(***************************************************************************)
EXTENDS Integers, FiniteSets

CONSTANTS
    Requests,        \* the raw errors dispatched; each id stands for its log
    Namespaces,      \* namespace tags a raw error may carry
    UNKNOWN_NAMESPACE,
    LoaderMayReject, \* whether getBridge().loadErrorParser may reject
    NoRaw,           \* a record whose rawErrorText the parser did not set
    NoResult,        \* a request that has not returned yet
    Rejected,        \* parseErrorWrapper's promise rejected
    Null,            \* a parser's parse resolved to null
    Throw            \* a parser's parse threw

ASSUME UNKNOWN_NAMESPACE \in Namespaces
ASSUME LoaderMayReject \in BOOLEAN

\* Values held by the registry.
None     == "none"
Fallback == "fallback"
Real     == "real"
ParserValue == {None, Fallback, Real}

\* Results of a request: an error record, or the rejection that escapes.
Record(src, raw, code) == [src |-> src, raw |-> raw, code |-> code]
Records == [src : {"parser", "fallback"}, raw : Requests \cup {NoRaw}, code : {-1, 0}]

VARIABLES
    parsers,   \* the module-level registry, namespace -> parser
    ns,        \* rawData.namespace ?? UNKNOWN_NAMESPACE, per request
    pc,        \* where each request is suspended
    parser,    \* the parser each request selected
    loaded,    \* namespaces for which a loadErrorParser call has returned
    result     \* what each request returned

vars == <<parsers, ns, pc, parser, loaded, result>>

TypeOK ==
    /\ parsers \in [Namespaces -> ParserValue]
    /\ ns \in [Requests -> Namespaces]
    /\ pc \in [Requests -> {"idle", "loading", "parsing", "done"}]
    /\ parser \in [Requests -> ParserValue]
    /\ loaded \subseteq Namespaces
    /\ result \in [Requests -> Records \cup {Rejected, NoResult}]

(* constructFallbackErrorRecord(message): code -1, rawErrorText = message. *)
constructFallbackErrorRecord(log) == Record("fallback", log, -1)

(* registerErrorParser: overwrite, no validation of the namespace.        *)
registerErrorParser(n, p) == parsers' = [parsers EXCEPT ![n] = p]

(* Lines 37-41: look the parser up, and if absent install (and keep) a    *)
(* fallback parser for the namespace, then call parse on it.              *)
SelectParser(r) ==
    IF parsers[ns[r]] = None
    THEN /\ registerErrorParser(ns[r], Fallback)
         /\ parser' = [parser EXCEPT ![r] = Fallback]
    ELSE /\ parser' = [parser EXCEPT ![r] = parsers[ns[r]]]
         /\ UNCHANGED parsers

Init ==
    /\ parsers = [n \in Namespaces |-> None]
    /\ ns \in [Requests -> Namespaces]
    /\ pc = [r \in Requests |-> "idle"]
    /\ parser = [r \in Requests |-> None]
    /\ loaded = {}
    /\ result = [r \in Requests |-> NoResult]

(* Mutant: the await on the loader left out.                            *)
StartNoLoad(r) ==
    /\ pc[r] = "idle"
    /\ pc' = [pc EXCEPT ![r] = "parsing"]
    /\ SelectParser(r)
    /\ UNCHANGED <<ns, loaded, result>>

(* Lines 33-36: a namespaced error with no registered parser awaits the   *)
(* bridge's loader; any other error selects its parser right away.        *)
Start(r) ==
    /\ pc[r] = "idle"
    /\ IF ns[r] # UNKNOWN_NAMESPACE /\ parsers[ns[r]] = None
       THEN /\ pc' = [pc EXCEPT ![r] = "loading"]
            /\ UNCHANGED <<parsers, parser>>
       ELSE /\ pc' = [pc EXCEPT ![r] = "parsing"]
            /\ SelectParser(r)
    /\ UNCHANGED <<ns, loaded, result>>

(* The loader registers the namespace's parser as a side effect and       *)
(* resolves; the request resumes at line 37 and selects its parser.       *)
LoadRegisters(r) ==
    /\ pc[r] = "loading"
    /\ loaded' = loaded \cup {ns[r]}
    /\ pc' = [pc EXCEPT ![r] = "parsing"]
    /\ parser' = [parser EXCEPT ![r] = Real]
    /\ registerErrorParser(ns[r], Real)
    /\ UNCHANGED <<ns, result>>

(* The loader resolves without registering anything (the script failed   *)
(* to load, or registered another namespace); lines 37-41 then run.       *)
LoadResolvesEmpty(r) ==
    /\ pc[r] = "loading"
    /\ loaded' = loaded \cup {ns[r]}
    /\ pc' = [pc EXCEPT ![r] = "parsing"]
    /\ SelectParser(r)
    /\ UNCHANGED <<ns, result>>

(* The loader rejects: line 35 is outside the try, so parseErrorWrapper   *)
(* itself rejects.                                                        *)
LoadRejects(r) ==
    /\ LoaderMayReject
    /\ pc[r] = "loading"
    /\ loaded' = loaded \cup {ns[r]}
    /\ pc' = [pc EXCEPT ![r] = "done"]
    /\ result' = [result EXCEPT ![r] = Rejected]
    /\ UNCHANGED <<parsers, ns, parser>>

(* What the selected parser's parse settles with: the fallback parser     *)
(* always returns its record; a real parser returns a record (without     *)
(* rawErrorText), returns null, or throws.                                *)
ParseOutcomes(p, r) ==
    IF p = Fallback THEN {constructFallbackErrorRecord(r)}
    ELSE {Record("parser", NoRaw, 0), Null, Throw}

(* Mutant: the parser's result returned as it is, null included.         *)
WrapResultAsIs(out, r) == out

(* Mutant: a record returned without rawErrorText stamped on it.          *)
WrapResultUnstamped(out, r) ==
    IF out \in Records THEN out ELSE constructFallbackErrorRecord(r)

(* Lines 43-50: a record is returned with rawErrorText stamped over it;   *)
(* null, or an exception caught at line 47, gives the fallback record.    *)
WrapResult(out, r) ==
    IF out \in Records
    THEN [out EXCEPT !.raw = r]
    ELSE constructFallbackErrorRecord(r)

ParseSettles(r) ==
    /\ pc[r] = "parsing"
    /\ \E out \in ParseOutcomes(parser[r], r) :
          result' = [result EXCEPT ![r] = WrapResult(out, r)]
    /\ pc' = [pc EXCEPT ![r] = "done"]
    /\ UNCHANGED <<parsers, ns, parser, loaded>>

(* A loaded parser script, or any other code, calls registerErrorParser.  *)
Register(n) ==
    /\ parsers[n] # Real
    /\ registerErrorParser(n, Real)
    /\ UNCHANGED <<ns, pc, parser, loaded, result>>

Next ==
    \/ \E r \in Requests :
          \/ Start(r)
          \/ LoadRegisters(r)
          \/ LoadResolvesEmpty(r)
          \/ LoadRejects(r)
          \/ ParseSettles(r)
    \/ \E n \in Namespaces \ {UNKNOWN_NAMESPACE} : Register(n)

(* The bridge's loader and every parse settle in finite time (spec §5);   *)
(* a raw error handed to the dispatcher is dispatched.                    *)
Fairness ==
    \A r \in Requests :
        WF_vars(Start(r) \/ LoadRegisters(r) \/ LoadResolvesEmpty(r)
                \/ LoadRejects(r) \/ ParseSettles(r))

Spec == Init /\ [][Next]_vars /\ Fairness

-----------------------------------------------------------------------------
(* Properties                                                              *)

(* P1, total dispatch: every call of parseErrorWrapper that has returned  *)
(* returned an error record (never a rejection) whose rawErrorText is the *)
(* raw error it was given.                                                *)
TotalDispatch ==
    \A r \in Requests :
        pc[r] = "done" => result[r] \in Records /\ result[r].raw = r

(* A namespaced error is handed to the fallback parser only after the     *)
(* bridge has been asked to load that namespace's parser: the fallback is *)
(* never installed for a namespace nobody tried to load.                  *)
LoadBeforeFallback ==
    \A r \in Requests :
        /\ parser[r] = Fallback
        /\ ns[r] # UNKNOWN_NAMESPACE
        => ns[r] \in loaded

(* The dispatcher implements its promise: under the refinement mapping   *)
(* answer <- result, every behaviour answers each raw error once, with a  *)
(* record carrying that raw error, or fails it only when the loader may   *)
(* reject, and eventually answers all of them, however the requests for  *)
(* one namespace interleave around the loader.                           *)
Abstract == INSTANCE DispatchAbstract
                WITH answer <- result, Failed <- Rejected, MayFail <- LoaderMayReject

DispatchRefinement == Abstract!Spec

=============================================================================
