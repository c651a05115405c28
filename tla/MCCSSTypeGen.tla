----------------------------- MODULE MCCSSTypeGen -----------------------------
(* CSSTypeGen instantiated for TLC: eight defines that reach every branch *)
(* of generateTypeDefinition and every category, names that include the  *)
(* keywords of two categories, a leading "-", a file JSON.parse rejects,  *)
(* one the schema rejects and an entry that is not .json; a listing is    *)
(* any sequence of up to three distinct entries.                          *)
EXTENDS CSSTypeGen, FiniteSets

MCWordKeys ==
    [w \in {"", "flex", "direction", "font", "size", "border", "inline", "color",
            "background", "position", "animation", "webkit", "line", "clamp",
            "z", "index"} |->
        CASE w = "inline"     -> {"line"}
          [] w \in {"flex", "font", "border", "color", "background", "position",
                    "animation", "line"} -> {w}
          [] OTHER            -> {}]

MCLowerStart == {"flex", "direction", "font", "size", "border", "inline", "color",
                 "background", "position", "animation", "webkit", "line", "clamp",
                 "z", "index"}

Def(name, type, values, keywords, sh) ==
    [name |-> name, type |-> type, values |-> values, keywords |-> keywords,
     is_shorthand |-> sh]

File(d) == [ext |-> TRUE, json |-> TRUE, schema |-> TRUE, define |-> d]

Flex        == File(Def(<< "flex" >>, "string", Absent, << "none" >>, TRUE))
FlexDir     == File(Def(<< "flex", "direction" >>, "enum", << "row", "column" >>, Absent, FALSE))
FontSize    == File(Def(<< "font", "size" >>, "number", Absent, Absent, FALSE))
BorderColor == File(Def(<< "border", "inline", "color" >>, "string", Absent, Absent, FALSE))
BgPosition  == File(Def(<< "background", "position" >>, "string", Absent, << "center" >>, FALSE))
Animation   == File(Def(<< "animation" >>, "string", Absent, Absent, TRUE))
LineClamp   == File(Def(<< "", "webkit", "line", "clamp" >>, "integer", Absent, Absent, FALSE))
ZIndex      == File(Def(<< "z", "index" >>, "integer", Absent, Absent, FALSE))
NotJson     == [File(ZIndex.define) EXCEPT !.json = FALSE]
BadSchema   == [File(Flex.define) EXCEPT !.schema = FALSE]
Readme      == [File(Flex.define) EXCEPT !.ext = FALSE]

Entries == {Flex, FlexDir, FontSize, BorderColor, BgPosition, Animation, LineClamp,
            ZIndex, NotJson, BadSchema, Readme}

MCDirs == {d \in BoundedSeq(Entries, 3) : Cardinality(ToSet(d)) = Len(d)}

(* Listings of three defines that all validate.                           *)
ValidDirs == {d \in MCDirs : Len(d) = 3 /\ \A i \in 1..3 : d[i] \in Entries \ {NotJson, BadSchema, Readme}}
=============================================================================
