---------------------------- MODULE MCApiParser ----------------------------
(***************************************************************************)
(* Source files for the API-doc extractor: two names, members of every    *)
(* visibility, JSDoc with @param tags in and out of parameter order and   *)
(* one too many, a non-exported class instantiated by an exported const,  *)
(* and export lists naming none, one or both names.                       *)
(***************************************************************************)
EXTENDS ApiParser

Tag(t, c) == [tag |-> t, c |-> c]
P1 == Tag("param", "x")
P2 == Tag("param", "y")

Mem(name, vis, np, docs) == [name |-> name, vis |-> vis, np |-> np, docs |-> docs]

\* A documented class A: a constructor, a method documented in order, a
\* protected method with one @param tag too many, a public and a private
\* property, and a getter with @since.
ClassA ==
    [name |-> "A", exported |-> TRUE, docs |-> << Tag("apidoc", ""), Tag("since", "x") >>,
     ctors |-> << Mem("constructor", "public", 2, << P2, P1 >>) >>,
     methods |-> << Mem("run", "public", 1, << P1, Tag("returns", "y"), Tag("since", "x") >>),
                    Mem("hidden", "protected", 0, << P1 >>) >>,
     props |-> << Mem("size", "public", 0, << Tag("since", "y") >>), Mem("secret", "private", 0, << >>) >>,
     getters |-> << Mem("value", "public", 0, << Tag("return", "x") >>) >>]

\* Class A whose public method carries two @param tags for one parameter.
ClassAOverflow == [ClassA EXCEPT !.methods = << Mem("run", "public", 1, << P1, P2 >>) >>]

\* A class B that is not exported; its private getter has a stray @param.
ClassB ==
    [name |-> "B", exported |-> FALSE, docs |-> << >>,
     ctors |-> << >>,
     methods |-> << Mem("go", "public", 0, << Tag("apidoc", "") >>) >>,
     props |-> << >>,
     getters |-> << Mem("inner", "private", 0, << P1 >>) >>]

IfaceB ==
    [name |-> "B", exported |-> TRUE,
     methods |-> << Mem("call", "public", 2, << P1 >>) >>,
     props |-> << Mem("id", "public", 0, << >>) >>]
EnumA == [name |-> "A", exported |-> TRUE, members |-> << "On", "Off" >>]
AliasB == [name |-> "B", exported |-> TRUE]
AliasHidden == [name |-> "A", exported |-> FALSE]

\* export const b = new B(); const a = new A(); export const c = make().
InstB == [name |-> "b", exported |-> TRUE, init |-> "newIdent", cls |-> "B"]
InstA == [name |-> "a", exported |-> FALSE, init |-> "newIdent", cls |-> "A"]
Other == [name |-> "c", exported |-> TRUE, init |-> "other", cls |-> "A"]

Files ==
    [classes : { << >>, << ClassA >>, << ClassAOverflow >>, << ClassA, ClassB >> },
     interfaces : { << >>, << IfaceB >> },
     enums : { << >>, << EnumA >> },
     vars : { << >>, << InstB, Other >>, << InstA >> },
     aliases : { << >>, << AliasB, AliasHidden >> }]

Entries == [file : Files, exports : SUBSET {"A", "B"}]

SmallFiles ==
    [classes : { << ClassA, ClassB >>, << ClassAOverflow >> },
     interfaces : { << IfaceB >> }, enums : { << >> }, vars : { << InstB >> },
     aliases : { << >> }]

MCLists ==
    { << e >> : e \in Entries }
    \cup { << e1, e2 >> : e1, e2 \in [file : SmallFiles, exports : {{"A"}, {"A", "B"}}] }
=============================================================================
