----------------------------- MODULE MCInputFocus -----------------------------
EXTENDS InputFocus

CONSTANTS a, b    \* an <input> a and a <textarea> b

(* a before b in focus order.                                              *)
InputThenTextArea == <<a, b>>
=============================================================================
