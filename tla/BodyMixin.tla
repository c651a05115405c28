------------------------------ MODULE BodyMixin ------------------------------
(***************************************************************************)
(* BodyMixin of lynx-core/src/modules/fetch/BodyMixin.ts: the body of a   *)
(* fetch Request or Response, its construction from a BodyInit or from    *)
(* another body (setBody), and its one-time consumption (arrayBuffer,     *)
(* text, json through safeUseBody).                                        *)
(*                                                                         *)
(* Bodies are created one at a time, each from an init; a body may be     *)
(* created from another one before or after that one was read, and reads  *)
(* of different bodies interleave freely.  Bytes are sequences of small   *)
(* integers; every view (DataView, typed array) looks into one underlying *)
(* ArrayBuffer, Memory.  TextCodecHelper is external: a text or a JSON    *)
(* value is represented by the bytes it was decoded from.                 *)
(***************************************************************************)
EXTENDS Integers, Sequences

CONSTANTS
    Bodies,        \* the bodies created, in creation order (a sequence)
    Memory,        \* the ArrayBuffer behind every view
    Inits,         \* what a body may be created from
    Encode(_),     \* TextEncoder().encode(s).buffer for a string init s
    IsJson(_),     \* does JSON.parse accept the text these bytes decode to
    Null,          \* the null this._arrayBuffer holds once used
    MaxReads       \* bound on the reads of one body

VARIABLES
    created,   \* the bodies constructed so far
    init,      \* the init each body was created from
    srcUsed,   \* for a body made from another: was that one used then
    buffer,    \* this._arrayBuffer
    bodyUsed,  \* this._bodyUsed
    read       \* per body, the results its reads returned, in order

vars == <<created, init, srcUsed, buffer, bodyUsed, read>>

BodySet == {Bodies[i] : i \in DOMAIN Bodies}
Undefined == [as |-> "undefined"]
Threw == [as |-> "threw"]

TypeOK ==
    /\ created \in 0..Len(Bodies)
    /\ buffer \in [BodySet -> Seq(Int) \cup {Null}]
    /\ bodyUsed \in [BodySet -> BOOLEAN]
    /\ \A b \in BodySet : \A i \in DOMAIN read[b] :
          \/ read[b][i] \in {Undefined, Threw}
          \/ /\ read[b][i].as \in {"arrayBuffer", "text", "json"}
             /\ read[b][i].bytes \in Seq(Int)

-----------------------------------------------------------------------------
(* src.slice(0): a copy; sequences are values, so the copy is the value.  *)
cloneArrayBuffer(src) == src

(* view.buffer.slice(byteOffset, byteOffset + byteLength).                *)
ViewBytes(v) == SubSeq(Memory, v.offset + 1, v.offset + v.length)

(* Mutant: a DataView copied whole, like a typed array.                  *)
setBodyWholeView(cur, in) ==
    CASE in.kind = "body"        -> IF bodyUsed[in.from] THEN cur
                                    ELSE cloneArrayBuffer(buffer[in.from])
      [] in.kind \in {"arrayBuffer", "dataView", "typedArray"} -> cloneArrayBuffer(Memory)
      [] in.kind = "string"      -> Encode(in.value)
      [] in.kind = "none"        -> cur

(* setBody(body), lines 32-52, on a body whose buffer is still the empty  *)
(* ArrayBuffer of the constructor.  A used source body leaves it empty;   *)
(* a typed array copies its whole underlying buffer (line 47), a DataView *)
(* only the range it views; a falsy init leaves it empty.                 *)
setBody(cur, in) ==
    CASE in.kind = "body"        -> IF bodyUsed[in.from] THEN cur
                                    ELSE cloneArrayBuffer(buffer[in.from])
      [] in.kind = "arrayBuffer" -> cloneArrayBuffer(Memory)
      [] in.kind = "dataView"    -> cloneArrayBuffer(ViewBytes(in))
      [] in.kind = "typedArray"  -> cloneArrayBuffer(Memory)
      [] in.kind = "string"      -> Encode(in.value)
      [] in.kind = "none"        -> cur

(* Mutant: an empty buffer decoded to null instead of ''.                 *)
decodeNullEmpty(bytes) == IF Len(bytes) = 0 THEN Null ELSE bytes

(* TextDecoder.decode on an ArrayBuffer (lines 15-29 of TextDecoder.ts): *)
(* '' for an empty one, else what TextCodecHelper decodes.                *)
decode(bytes) == IF Len(bytes) = 0 THEN << >> ELSE bytes

(* The use each reader hands safeUseBody: arrayBuffer() returns the      *)
(* buffer itself, text() and json() decode it first (lines 55, 60, 66).   *)
use(as, body) == IF as = "arrayBuffer" THEN body ELSE decode(body)

-----------------------------------------------------------------------------
Init ==
    /\ created = 0
    /\ init = [b \in BodySet |-> [kind |-> "none"]]
    /\ srcUsed = [b \in BodySet |-> FALSE]
    /\ buffer = [b \in BodySet |-> << >>]
    /\ bodyUsed = [b \in BodySet |-> FALSE]
    /\ read = [b \in BodySet |-> << >>]

(* The constructor (lines 11-14) followed by setBody(in) (lines 32-52).   *)
Construct ==
    /\ created < Len(Bodies)
    /\ LET b == Bodies[created + 1] IN
       \E in \in Inits :
          /\ in.kind = "body" => in.from \in {Bodies[i] : i \in 1..created}
          /\ init' = [init EXCEPT ![b] = in]
          /\ srcUsed' = [srcUsed EXCEPT ![b] = in.kind = "body" /\ bodyUsed[in.from]]
          /\ buffer' = [buffer EXCEPT ![b] = setBody(<< >>, in)]
    /\ created' = created + 1
    /\ UNCHANGED <<bodyUsed, read>>

IsCreated(b) == \E i \in 1..created : Bodies[i] = b

(* Mutant: the body not marked used after a read.                        *)
UseBodyNoMark(b, as) ==
    /\ IsCreated(b)
    /\ Len(read[b]) < MaxReads
    /\ IF bodyUsed[b]
       THEN /\ read' = [read EXCEPT ![b] = Append(@, Undefined)]
            /\ UNCHANGED <<buffer, bodyUsed>>
       ELSE /\ read' = [read EXCEPT ![b] = Append(@, [as |-> as, bytes |-> use(as, buffer[b])])]
            /\ UNCHANGED <<buffer, bodyUsed>>
    /\ UNCHANGED <<created, init, srcUsed>>

(* safeUseBody(use), lines 16-26, for a use that returns: a used body     *)
(* gives undefined; otherwise the use runs on the buffer, and the body is *)
(* then marked used and its buffer dropped.                               *)
UseBody(b, as) ==
    /\ IsCreated(b)
    /\ Len(read[b]) < MaxReads
    /\ IF bodyUsed[b]
       THEN /\ read' = [read EXCEPT ![b] = Append(@, Undefined)]
            /\ UNCHANGED <<buffer, bodyUsed>>
       ELSE /\ read' = [read EXCEPT ![b] = Append(@, [as |-> as, bytes |-> use(as, buffer[b])])]
            /\ bodyUsed' = [bodyUsed EXCEPT ![b] = TRUE]
            /\ buffer' = [buffer EXCEPT ![b] = Null]
    /\ UNCHANGED <<created, init, srcUsed>>

(* arrayBuffer(), lines 54-56.                                             *)
ArrayBuffer(b) == UseBody(b, "arrayBuffer")

(* text(), lines 58-62.                                                    *)
Text(b) == UseBody(b, "text")

(* json(), lines 64-68, when JSON.parse accepts the decoded text.         *)
Json(b) ==
    /\ ~bodyUsed[b] => IsJson(decode(buffer[b]))
    /\ UseBody(b, "json")

(* json() when JSON.parse throws inside use (line 22): the exception      *)
(* leaves safeUseBody before lines 23-24, so the body stays unused, and   *)
(* json() throws instead of returning a rejected promise.                 *)
JsonThrows(b) ==
    /\ IsCreated(b)
    /\ Len(read[b]) < MaxReads
    /\ ~bodyUsed[b]
    /\ ~IsJson(decode(buffer[b]))
    /\ read' = [read EXCEPT ![b] = Append(@, Threw)]
    /\ UNCHANGED <<created, init, srcUsed, buffer, bodyUsed>>

Next ==
    \/ Construct
    \/ \E b \in BodySet : ArrayBuffer(b) \/ Text(b) \/ Json(b) \/ JsonThrows(b)

Spec == Init /\ [][Next]_vars

-----------------------------------------------------------------------------
(* Properties                                                              *)

(* The bytes a body was made from, as the Fetch standard extracts them:   *)
(* the viewed range of any view, the encoded string, and for a body made  *)
(* from another the bytes of that one, or none when it had been read.     *)
RECURSIVE InitBytes(_)
InitBytes(b) ==
    LET in == init[b] IN
    CASE in.kind = "body" -> IF srcUsed[b] THEN << >> ELSE InitBytes(in.from)
      [] in.kind = "arrayBuffer" -> Memory
      [] in.kind \in {"dataView", "typedArray"} -> SubSeq(Memory, in.offset + 1, in.offset + in.length)
      [] in.kind = "string" -> Encode(in.value)
      [] in.kind = "none" -> << >>

Delivered(b) == {i \in DOMAIN read[b] : read[b][i] \notin {Undefined, Threw}}

(* safeUseBody hands a body's bytes out once: of all the arrayBuffer,     *)
(* text and json calls on a body, in any order and interleaved with the   *)
(* creation of bodies cloned from it, at most one returns its content and *)
(* every later one returns undefined.                                     *)
DeliveredOnce ==
    \A b \in BodySet :
        \A i, j \in Delivered(b) : i = j

(* What a read returns is exactly the bytes the body was made from,       *)
(* however many clones lie between the init and the body read.            *)
DeliversInitBytes ==
    \A b \in BodySet : \A i \in Delivered(b) : read[b][i].bytes = InitBytes(b)

=============================================================================
