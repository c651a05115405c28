-------------------------- MODULE DispatchAbstract --------------------------
(***************************************************************************)
(* What parseErrorWrapper promises its callers (spec §4.6): each raw error *)
(* handed to it is, in one step, answered with an error record whose      *)
(* rawErrorText is that raw error, and every one is answered.  When the    *)
(* bridge's loader may fail (MayFail), a call may instead fail, once and   *)
(* for good; spec P1 is the promise with MayFail = FALSE.                  *)
(***************************************************************************)
CONSTANTS Requests, Records, NoResult, Failed, MayFail

VARIABLE answer

Init == answer = [r \in Requests |-> NoResult]

Answer(r) ==
    /\ answer[r] = NoResult
    /\ \E rec \in Records :
          /\ rec.raw = r
          /\ answer' = [answer EXCEPT ![r] = rec]

Fail(r) ==
    /\ MayFail
    /\ answer[r] = NoResult
    /\ answer' = [answer EXCEPT ![r] = Failed]

Next == \E r \in Requests : Answer(r) \/ Fail(r)

Spec == Init /\ [][Next]_answer /\ \A r \in Requests : WF_answer(Answer(r) \/ Fail(r))
=============================================================================
