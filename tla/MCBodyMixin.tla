---------------------------- MODULE MCBodyMixin ----------------------------
EXTENDS BodyMixin, TLC

\* A request, a response made from it, and a body made from that one.
MCBodies == <<"req", "res", "clone">>

MCMemory == <<7, 8, 9>>

\* The text "{}" and the text "x", as the bytes TextEncoder gives them.
MCEncode(s) == IF s = "{}" THEN <<123, 125>> ELSE <<120>>

\* Only the text "{}" and the whole of MCMemory parse as JSON.
MCIsJson(bytes) == bytes \in {<<123, 125>>, MCMemory}

\* Every kind of init; the views cover the whole buffer, where a typed
\* array and a DataView agree.
WholeViewInits ==
    { [kind |-> "none"], [kind |-> "arrayBuffer"], [kind |-> "string", value |-> "{}"],
      [kind |-> "string", value |-> "x"],
      [kind |-> "dataView", offset |-> 1, length |-> 2],
      [kind |-> "typedArray", offset |-> 0, length |-> 3] }
      \cup { [kind |-> "body", from |-> f] : f \in {"req", "res"} }

\* A typed array viewing part of its buffer.
PartialViewInits == WholeViewInits \cup {[kind |-> "typedArray", offset |-> 1, length |-> 1]}
=============================================================================
