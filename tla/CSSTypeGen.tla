------------------------------ MODULE CSSTypeGen ------------------------------
(***************************************************************************)
(* The CSS type generator, css_generator/scripts/generate-types.ts, with   *)
(* the validateCSSDefine it calls (validate.ts).                           *)
(*                                                                         *)
(* The script makes dist/ if it is missing, reads the .json entries of    *)
(* css_defines/ in directory order, validates each one (throwing at the   *)
(* first invalid file), groups the defines by category, and writes        *)
(* dist/csstype.d.ts: the CSSProperties type, one optional member per     *)
(* define, and the Shorthands and Longhands unions of member names.       *)
(*                                                                         *)
(* A property name is a sequence of words (its text split at "-"), each  *)
(* word an atom whose category keywords are given by WordKeys.  The       *)
(* emitted text is abstracted to the TypeScript tokens it holds: a member *)
(* name is its camel-case form, "|" is Bar; in the unions the line breaks *)
(* and the "// category" line comments are kept, since a comment swallows *)
(* what follows it on its line.  The Ajv schema check is the given        *)
(* verdict of each file.                                                  *)
(***************************************************************************)
EXTENDS Integers, Sequences, SequencesExt

CONSTANTS
    Dirs,        \* the possible listings of css_defines/, as sequences of entries
    WordKeys,    \* WordKeys[w]: the category keywords the word w contains
    LowerStart,  \* the words that start with a letter a-z
    Absent       \* a field missing from a define

VARIABLES
    pc,          \* "start", "read", "done" or "threw"
    files,       \* the .json entries of the listing
    idx,         \* the file being read
    cssDefines,  \* the defines read so far
    distDir,     \* dist/ exists
    distFile     \* dist/csstype.d.ts: Stale, or the emitted declarations

vars == <<pc, files, idx, cssDefines, distDir, distFile>>

(* A token of the emitted TypeScript: a bar, a quoted literal, a member  *)
(* name or a keyword type.                                                 *)
Tok(kind, val) == [kind |-> kind, val |-> val]
Bar == Tok("bar", << >>)
NL == Tok("nl", << >>)
Semi == Tok("semi", << >>)
Comment(c) == Tok("comment", << c >>)
Stale == "stale"        \* a file a previous run wrote
NoFile == "nofile"
NoDef == [nodef |-> TRUE] \* generateTypeDefinition's '' for a define with no name

Categories == << "layout", "typography", "visual", "animation", "other" >>

TypeOK ==
    /\ pc \in {"start", "read", "done", "threw"}
    /\ idx \in 1..(Len(files) + 1)
    /\ cssDefines \in Seq({f.define : f \in Range(files)})
    /\ distDir \in BOOLEAN

-----------------------------------------------------------------------------
(* toCamelCase (lines 16-18): every "-" followed by a letter a-z is        *)
(* dropped and the letter upper-cased; any other "-" stays.               *)
toCamelCase(name) ==
    [i \in DOMAIN name |->
        [w |-> name[i], cap |-> i > 1 /\ name[i] \in LowerStart,
         dash |-> i > 1 /\ name[i] \notin LowerStart]]

Includes(name, key) == \E i \in DOMAIN name : key \in WordKeys[name[i]]

IncludesAny(name, keys) == \E k \in keys : Includes(name, k)

CategoryKeys ==
    [layout     |-> {"position", "display", "flex", "grid", "margin", "padding"},
     typography |-> {"font", "text", "line"},
     visual     |-> {"color", "background", "border"},
     animation  |-> {"animation", "transition"}]

(* Mutant: each category tested on its own, without the else chain.     *)
InCategoryNoElse(p, c) ==
    IF c = "other"
    THEN ~\E k \in {"layout", "typography", "visual", "animation"} :
             IncludesAny(p.name, CategoryKeys[k])
    ELSE IncludesAny(p.name, CategoryKeys[c])

(* The if / else-if chain of groupProperties (lines 84-112): the first     *)
(* category one of whose keywords the lower-cased name includes.           *)
InCategory(p, c) ==
    LET first == CASE IncludesAny(p.name, CategoryKeys.layout)     -> "layout"
                   [] IncludesAny(p.name, CategoryKeys.typography) -> "typography"
                   [] IncludesAny(p.name, CategoryKeys.visual)     -> "visual"
                   [] IncludesAny(p.name, CategoryKeys.animation)  -> "animation"
                   [] OTHER                                        -> "other"
    IN first = c

(* groupProperties (lines 73-115): the defines of each category, in the   *)
(* order they were read.                                                   *)
groupProperties(defs) ==
    [c \in ToSet(Categories) |-> SelectSeq(defs, LAMBDA p : InCategory(p, c))]

(* Joins token sequences with a separator sequence, as Array.join.        *)
Join(seqs, sep) ==
    FlattenSeq([i \in DOMAIN seqs |-> IF i = 1 THEN seqs[i] ELSE sep \o seqs[i]])

Lit(v) == Tok("lit", << v >>)

Lits(vs) == [i \in DOMAIN vs |-> << Lit(vs[i]) >>]

(* generateTypeDefinition (lines 20-51): the member's name and the tokens *)
(* of its type.  A value given as an object and one given as a string     *)
(* both print as the quoted value (lines 33-38).                          *)
generateTypeDefinition(p) ==
    IF p.name = << >> THEN NoDef
    ELSE [key  |-> toCamelCase(p.name),
          type |-> CASE p.type \in {"number", "integer"} -> << Tok("kw", << "number" >>) >>
                     [] p.values # Absent   -> Join(Lits(p.values), << Bar >>)
                     [] p.keywords # Absent -> Join(Lits(p.keywords), << Bar >>)
                                                 \o << Bar, Tok("kw", << "string & {}" >>) >>
                     [] OTHER               -> << Tok("kw", << "string" >>) >>]

(* generateShorthandsOrLonghands (lines 53-70): per category a line break, *)
(* the "// category" comment, and, on the next line, the names of the     *)
(* matching defines joined by " | "; trimEnd drops that last line when it *)
(* is empty; the categories are joined by " |".                           *)
generateShorthandsOrLonghands(groups, isShorthand) ==
    Join([c \in DOMAIN Categories |->
            LET ps == SelectSeq(groups[Categories[c]],
                                LAMBDA p : p.is_shorthand = isShorthand)
                types == Join([i \in DOMAIN ps |-> << Tok("name", toCamelCase(ps[i].name)) >>],
                              << Bar >>)
            IN << NL, Comment(Categories[c]) >> \o (IF types = << >> THEN << >> ELSE << NL >> \o types)],
         << Bar >>)

(* generateTypeDefinitions (lines 142-177): the members per category,     *)
(* without the '' of a nameless define, and the two unions.               *)
Emit(defs) ==
    LET groups == groupProperties(defs) IN
    [props      |-> [c \in DOMAIN Categories |->
                       SelectSeq([i \in DOMAIN groups[Categories[c]] |->
                                    generateTypeDefinition(groups[Categories[c]][i])],
                                 LAMBDA d : "key" \in DOMAIN d)],
     shorthands |-> generateShorthandsOrLonghands(groups, TRUE) \o << Semi >>,
     longhands  |-> generateShorthandsOrLonghands(groups, FALSE) \o << Semi >>]

(* validateCSSDefine (validate.ts lines 39-70): a file that JSON.parse     *)
(* rejects is invalid (the catch), otherwise the schema decides.          *)
validateCSSDefine(f) == f.json /\ f.schema

-----------------------------------------------------------------------------
(* Lines 119-121: the listing's entries ending in .json, in its order.     *)
Init ==
    /\ \E dir \in Dirs : files = SelectSeq(dir, LAMBDA f : f.ext)
    /\ pc = "start"
    /\ idx = 1
    /\ cssDefines = << >>
    /\ distDir \in BOOLEAN
    /\ distFile \in IF distDir THEN {NoFile, Stale} ELSE {NoFile}

(* Lines 180-184: dist/ is made when it is missing.                        *)
MkDist ==
    /\ pc = "start"
    /\ distDir' = TRUE
    /\ pc' = "read"
    /\ UNCHANGED <<files, idx, cssDefines, distFile>>

(* Mutant: the file's text is returned without JSON.parse.                 *)
ReadFileUnparsed ==
    /\ pc = "read"
    /\ idx <= Len(files)
    /\ IF validateCSSDefine(files[idx])
       THEN /\ cssDefines' = Append(cssDefines, files[idx])
            /\ idx' = idx + 1
            /\ UNCHANGED pc
       ELSE /\ pc' = "threw"
            /\ UNCHANGED <<idx, cssDefines>>
    /\ UNCHANGED <<files, distDir, distFile>>

(* One iteration of files.map (lines 123-140): an invalid file throws,    *)
(* and the script ends with nothing written.                              *)
ReadFile ==
    /\ pc = "read"
    /\ idx <= Len(files)
    /\ IF validateCSSDefine(files[idx])
       THEN /\ cssDefines' = Append(cssDefines, files[idx].define)
            /\ idx' = idx + 1
            /\ UNCHANGED pc
       ELSE /\ pc' = "threw"
            /\ UNCHANGED <<idx, cssDefines>>
    /\ UNCHANGED <<files, distDir, distFile>>

(* Lines 142-177 and 187-188: the declarations are built and written.    *)
Generate ==
    /\ pc = "read"
    /\ idx > Len(files)
    /\ distFile' = Emit(cssDefines)
    /\ pc' = "done"
    /\ UNCHANGED <<files, idx, cssDefines, distDir>>

Next == MkDist \/ ReadFile \/ Generate

Spec == Init /\ [][Next]_vars

-----------------------------------------------------------------------------
(* Properties                                                              *)

Keys(toks) == {toks[i].val : i \in {j \in DOMAIN toks : toks[j].kind = "name"}}

(* The category a define belongs in: the first of the list, in order, with *)
(* a keyword the name includes, else "other".                             *)
RefCategory(p) ==
    LET hits == SelectSeq(SubSeq(Categories, 1, 4),
                          LAMBDA c : IncludesAny(p.name, CategoryKeys[c]))
    IN IF hits = << >> THEN "other" ELSE hits[1]

Camels(defs, P(_)) == {toCamelCase(defs[i].name) : i \in {j \in DOMAIN defs : P(defs[j])}}

(* A written file declares every define read exactly once, in the block  *)
(* of the category groupProperties gives it, and names it in Shorthands   *)
(* or Longhands as its is_shorthand says, so that both Pick types select *)
(* members CSSProperties has.                                              *)
TypesCoverDefines ==
    pc = "done" =>
        /\ \A c \in DOMAIN Categories :
               LET ms == distFile.props[c] IN
               /\ {ms[i].key : i \in DOMAIN ms}
                    = Camels(cssDefines, LAMBDA p : RefCategory(p) = Categories[c])
               /\ Len(ms) = Len(SelectSeq(cssDefines,
                                          LAMBDA p : RefCategory(p) = Categories[c]))
        /\ Keys(distFile.shorthands) = Camels(cssDefines, LAMBDA p : p.is_shorthand)
        /\ Keys(distFile.longhands) = Camels(cssDefines, LAMBDA p : ~p.is_shorthand)

(* A union TypeScript parses: members separated by single bars, with at  *)
(* most a leading bar.                                                     *)
UnionParses(toks) ==
    LET t == IF toks # << >> /\ toks[1].kind = "bar" THEN Tail(toks) ELSE toks IN
    /\ Len(t) % 2 = 1
    /\ \A i \in DOMAIN t : (t[i].kind = "bar") <=> (i % 2 = 0)

(* The tokens TypeScript sees: a line comment hides the rest of its line, *)
(* and line breaks separate nothing inside a type.                         *)
RECURSIVE Lexed(_)
Lexed(toks) ==
    IF toks = << >> THEN << >>
    ELSE IF Head(toks).kind = "comment"
         THEN LET eol == SelectInSeq(toks, LAMBDA t : t.kind = "nl") IN
              IF eol = 0 THEN << >> ELSE Lexed(SubSeq(toks, eol, Len(toks)))
    ELSE IF Head(toks).kind = "nl" THEN Lexed(Tail(toks))
    ELSE << Head(toks) >> \o Lexed(Tail(toks))

(* `export type X = <union>;`: a union followed by its semicolon.          *)
AliasParses(toks) ==
    LET t == Lexed(toks) IN
    /\ t # << >>
    /\ Last(t).kind = "semi"
    /\ UnionParses(Front(t))

(* The file the script writes is TypeScript: every member's type parses,  *)
(* and both type aliases of the unions do, whichever defines the          *)
(* directory holds.                                                        *)
GeneratedTypesParse ==
    pc = "done" =>
        /\ AliasParses(distFile.shorthands)
        /\ AliasParses(distFile.longhands)
        /\ \A c \in DOMAIN Categories :
               \A i \in DOMAIN distFile.props[c] : UnionParses(distFile.props[c][i].type)

=============================================================================
