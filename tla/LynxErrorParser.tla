--------------------------- MODULE LynxErrorParser ---------------------------
(***************************************************************************)
(* LynxErrorParser of lynx-error-parser/src/index.ts, the parser of the    *)
(* "lynx" namespace, with its first child BTSErrorParser                  *)
(* (btsErrorParser.ts) translated and the main-thread child abstracted to  *)
(* its outcomes (MTSErrorParser models it in full).                        *)
(*                                                                         *)
(* parse(rawData) JSON-decodes the log, then awaits each child in turn:    *)
(* BTS, MTS, Default.  A child that returns null, or throws, passes the   *)
(* error to the next; the first record is returned with rawErrorText set. *)
(* The children keep no state between calls except MTS's debugInfo, which *)
(* this model does not touch, so one parse is modelled, over every input. *)
(*                                                                         *)
(* A raw log is a record: json (does JSON.parse accept it), code (its      *)
(* error_code, or Absent), and error, the decoded "error" field as the     *)
(* background channel sees it: NotJson, NoRawError, NoStack, or the       *)
(* number of frames parseStack finds in rawError; and mts, what           *)
(* MTSErrorParser.parse may settle with on its own channel, a nonempty    *)
(* subset of {"record", "throw"}.                                          *)
(***************************************************************************)
EXTENDS Integers

CONSTANTS
    Inputs,              \* the raw logs parse may be given
    E_CODE_BTS,          \* channel of background-thread errors
    E_CODE_MTS,          \* channel of main-thread errors
    MAX_STACK_FRAME_LEN,
    DEFAULT_CONTEXT_SIZE,
    Absent,              \* error_code missing
    NotJson, NoRawError, NoStack

ASSUME E_CODE_BTS # E_CODE_MTS

VARIABLES
    raw,      \* the log being parsed
    pc,       \* "decode", "child", "done"
    child,    \* index of the child being awaited (1 BTS, 2 MTS, 3 Default)
    result    \* the record returned

vars == <<raw, pc, child, result>>

Srcs == {"fallback", "bts", "mts", "default"}
Rec(src, frames, code) ==
    [src |-> src, frames |-> frames, code |-> code, contextSize |-> DEFAULT_CONTEXT_SIZE]
NoRecord == [src |-> "none"]
Null  == [src |-> "null"]    \* a child's parse resolved to null
Throw == [src |-> "throw"]   \* a child's parse threw

TypeOK ==
    /\ raw \in Inputs
    /\ pc \in {"decode", "child", "done"}
    /\ child \in 1..3
    /\ result = NoRecord
       \/ /\ result.src \in Srcs
          /\ result.frames \in 0..MAX_STACK_FRAME_LEN
          /\ result.contextSize = DEFAULT_CONTEXT_SIZE

-----------------------------------------------------------------------------
(* errorProps.code ?? 0 (btsErrorParser.ts line 15, mtsErrorParser.ts 50). *)
Code(in) == IF in.code = Absent THEN 0 ELSE in.code

(* Mutant: the channel rounded up.                                       *)
ChannelCeil(code) == (code + 99) \div 100

(* Math.floor(code / 100): \div rounds toward minus infinity, as floor.   *)
Channel(code) == code \div 100

(* constructFallbackErrorRecord (index.ts lines 7-16): code -1, no frames. *)
constructFallbackErrorRecord == Rec("fallback", 0, -1)

(* Mutant: one frame too many kept.                                      *)
TruncatedOffByOne(n) == IF n > MAX_STACK_FRAME_LEN THEN MAX_STACK_FRAME_LEN + 1 ELSE n

(* rawFrames.slice(0, MAX_STACK_FRAME_LEN) when longer (lines 26-28).     *)
Truncated(n) == IF n > MAX_STACK_FRAME_LEN THEN MAX_STACK_FRAME_LEN ELSE n

(* BTSErrorParser.parse (lines 9-42): null for another channel (15-19) or *)
(* a payload without rawError.stack (20-23); else the frames of rawError, *)
(* truncated and passed through map, which keeps their number.           *)
BTSParse(in) ==
    IF Channel(Code(in)) # E_CODE_BTS THEN {Null}
    ELSE IF in.error \in {NotJson, NoRawError, NoStack} THEN {Null}
    ELSE {Rec("bts", Truncated(in.error), Code(in))}

(* MTSErrorParser.parse: null for another channel (lines 50-54); on its   *)
(* own channel a record, or a rejection (a failed queryResource, or an    *)
(* error field that is not a string at line 91).                           *)
MTSParse(in) ==
    IF Channel(Code(in)) # E_CODE_MTS THEN {Null}
    ELSE {IF o = "record" THEN Rec("mts", 0, Code(in)) ELSE Throw : o \in in.mts}

(* DefaultErrorParser: always a record (spec 4.5).                        *)
DefaultParse(in) == {Rec("default", 0, -1)}

(* The children, in the order the constructor pushes them (lines 21-26). *)
ChildOutcomes(k, in) ==
    CASE k = 1 -> BTSParse(in)
      [] k = 2 -> MTSParse(in)
      [] k = 3 -> DefaultParse(in)

-----------------------------------------------------------------------------
Init ==
    /\ raw \in Inputs
    /\ pc = "decode"
    /\ child = 1
    /\ result = NoRecord

(* Lines 29-33: a log JSON.parse rejects gives the fallback record.       *)
Decode ==
    /\ pc = "decode"
    /\ IF raw.json
       THEN /\ pc' = "child"
            /\ UNCHANGED result
       ELSE /\ pc' = "done"
            /\ result' = constructFallbackErrorRecord
    /\ UNCHANGED <<raw, child>>

(* Lines 34-43: the awaited child returns a record, which is returned   *)
(* with rawErrorText stamped (the stamp is the log itself, implicit here). *)
ChildRecognizes ==
    /\ pc = "child"
    /\ \E res \in ChildOutcomes(child, raw) \ {Null, Throw} :
          /\ pc' = "done"
          /\ result' = res
    /\ UNCHANGED <<raw, child>>

(* Lines 36-41: the child returns null, or throws and the exception is    *)
(* caught; the loop moves on to the next child.  Default, the last one,   *)
(* always returns a record, so the fallback of line 45 is never reached.  *)
ChildPasses ==
    /\ pc = "child"
    /\ ChildOutcomes(child, raw) \cap {Null, Throw} # {}
    /\ child < 3
    /\ child' = child + 1
    /\ UNCHANGED <<raw, pc, result>>

Next == Decode \/ ChildRecognizes \/ ChildPasses

(* Every child's parse settles (spec 5): weak fairness of the one parse.  *)
Spec == Init /\ [][Next]_vars /\ WF_vars(Next)

-----------------------------------------------------------------------------
(* Properties                                                              *)

(* Reference, from spec 4.5 and P4/P6: floor(code / 100) names at most    *)
(* one channel; a decodable log of the background channel with a stack   *)
(* gets that channel's record with the first MAX_STACK_FRAME_LEN frames;  *)
(* one of the main-thread channel gets that channel's record or, when it  *)
(* fails, the default record; anything else gets the default record; an  *)
(* undecodable log gets the fallback record.                              *)
Expected(in) ==
    LET c  == IF in.code = Absent THEN 0 ELSE in.code
        hi == (c - (c % 100)) \div 100
        n  == in.error
    IN
    IF ~in.json THEN {Rec("fallback", 0, -1)}
    ELSE IF hi = E_CODE_BTS /\ n \notin {NotJson, NoRawError, NoStack}
         THEN {Rec("bts", IF n < MAX_STACK_FRAME_LEN THEN n ELSE MAX_STACK_FRAME_LEN, c)}
    ELSE IF hi = E_CODE_MTS
         THEN {IF o = "record" THEN Rec("mts", 0, c) ELSE Rec("default", 0, -1) : o \in in.mts}
    ELSE {Rec("default", 0, -1)}

(* Whatever the children return, null or throw, the record parse returns  *)
(* is the one the reference names for the log: the channel the code       *)
(* selects, the truncated frame count, and the default record only when  *)
(* the channel's own parser did not produce one.                          *)
CascadeAsReference == pc = "done" => result \in Expected(raw)

=============================================================================
