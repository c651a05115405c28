------------------------------ MODULE ApiParser ------------------------------
(***************************************************************************)
(* The API-doc extractor of tools/api/parser/ts_morph: parseSourceFile     *)
(* (api-parser.ts) and the command line that runs it over a list of files  *)
(* (cli.ts).                                                               *)
(*                                                                         *)
(* A source file is abstracted to what parseSourceFile asks ts-morph for:  *)
(* its classes, interfaces, enums, variable statements and type aliases,  *)
(* in that order, each with its name and export flag; a member to its      *)
(* name, its visibility, its number of parameters and its JSDoc tags (all  *)
(* JSDoc blocks of a node, concatenated: paramsIndex runs across blocks).  *)
(* The emitted metadata keeps what the code decides (which declarations    *)
(* and members appear, in which order, and which doc fields each gets);    *)
(* the definition strings are left out, except for the prototype form.    *)
(* A variable statement holds one declaration.                             *)
(*                                                                         *)
(* Everything runs synchronously; a step is one iteration of one of the   *)
(* forEach loops of parseSourceFile, or the cli loop pushing a file's      *)
(* metadata.  A TypeError thrown while building a member is not caught    *)
(* anywhere: the cli prints nothing.                                       *)
(***************************************************************************)
EXTENDS Integers, Sequences

LOCAL SX == INSTANCE SequencesExt
LOCAL FX == INSTANCE FiniteSetsExt

CONSTANTS
    Lists    \* the metadatObjectList values the cli may be given

VARIABLES
    list,      \* the list being processed
    file,      \* index of the entry being parsed
    phase,     \* which loop of parseSourceFile runs (1 classes .. 5 aliases, 6 returned)
    idx,       \* index of the declaration in that loop
    metadata,  \* parseSourceFile's metadata array
    all,       \* the cli's allMetadata
    status     \* "running", "done" (printed) or "threw"

vars == <<list, file, phase, idx, metadata, all, status>>

NoReturns == "null"    \* returns: null
Crash == [thrown |-> "TypeError"]    \* a TypeError thrown while building

ObjectTypes == {"class", "interface", "enum", "type"}
MemberForms == {"method", "getter", "constructor", "property", "enumMember"}

TypeOK ==
    /\ list \in Lists
    /\ file \in 1..Len(list)
    /\ phase \in 1..6
    /\ status \in {"running", "done", "threw"}
    /\ \A k \in DOMAIN all : all[k].type \in ObjectTypes
    /\ \A k \in DOMAIN metadata :
          /\ metadata[k].type \in ObjectTypes
          /\ \A j \in DOMAIN metadata[k].children : metadata[k].children[j].form \in MemberForms

-----------------------------------------------------------------------------
(* isNeedParse (lines 29-44): exported and named in export_object.        *)
isNeedParse(d, exports) == d.exported /\ d.name \in exports

(* The member filter of the class loops: neither private nor protected.  *)
Public(s) == SelectSeq(s, LAMBDA m : m.vis = "public")

IsMember(m) == "params" \in DOMAIN m

(* Mutant: a @param tag may fill the slot just past the last parameter.  *)
RECURSIVE ApplyTagsOffByOne(_, _, _)
ApplyTagsOffByOne(m, tags, i) ==
    IF tags = << >> THEN m
    ELSE LET t == Head(tags) IN
         CASE t.tag = "param" ->
                IF i <= Len(m.params)
                THEN ApplyTagsOffByOne([m EXCEPT !.params[i + 1] = t.c], Tail(tags), i + 1)
                ELSE Crash
           [] t.tag \in {"returns", "return"} -> ApplyTagsOffByOne([m EXCEPT !.returns = t.c], Tail(tags), i)
           [] t.tag = "since" -> ApplyTagsOffByOne([m EXCEPT !.since = t.c], Tail(tags), i)
           [] OTHER -> ApplyTagsOffByOne(m, Tail(tags), i)

(* The tag loop of handleJSDoc (lines 103-117): the i-th @param tag, in    *)
(* document order, describes params[i]; one more @param tag than there    *)
(* are parameters reads params[n], undefined, and setting its brief_desc  *)
(* throws.  @returns/@return and @since overwrite, so the last one wins.  *)
RECURSIVE ApplyTags(_, _, _)
ApplyTags(m, tags, i) ==
    IF tags = << >> THEN m
    ELSE LET t == Head(tags) IN
         CASE t.tag = "param" ->
                IF i < Len(m.params)
                THEN ApplyTags([m EXCEPT !.params[i + 1] = t.c], Tail(tags), i + 1)
                ELSE Crash
           [] t.tag \in {"returns", "return"} -> ApplyTags([m EXCEPT !.returns = t.c], Tail(tags), i)
           [] t.tag = "since" -> ApplyTags([m EXCEPT !.since = t.c], Tail(tags), i)
           [] OTHER -> ApplyTags(m, Tail(tags), i)

(* handleJSDoc (lines 91-118): has_apidoc from an @apidoc tag; an object  *)
(* (no params, no returns) stops there (lines 99-101).                    *)
handleJSDoc(m, docs) ==
    LET withApidoc == [m EXCEPT !.has_apidoc = \E k \in DOMAIN docs : docs[k].tag = "apidoc"]
    IN IF IsMember(withApidoc) THEN ApplyTags(withApidoc, docs, 0) ELSE withApidoc

Object(name, type) ==
    [name |-> name, type |-> type, has_apidoc |-> FALSE, since |-> "", children |-> << >>]

MemberOf(name, form, np, returns) ==
    [name |-> name, form |-> form, has_apidoc |-> FALSE, since |-> "",
     params |-> [k \in 1..np |-> ""], returns |-> returns]

(* buildClassPrototype (lines 47-89).                                      *)
buildClassPrototype(c) == handleJSDoc(Object(c.name, "class"), c.docs)

(* buildMethodPrototype (lines 153-213): one param per parameter, then the *)
(* JSDoc; also used for getters (line 472).                               *)
buildMethodPrototype(m) == handleJSDoc(MemberOf(m.name, "method", m.np, ""), m.docs)

(* buildConstructorPrototype (lines 345-399).                              *)
buildConstructorPrototype(m) == handleJSDoc(MemberOf("constructor", "constructor", m.np, ""), m.docs)

(* buildPropertyPrototype (lines 295-343): no JSDoc is read.               *)
buildPropertyPrototype(m) == MemberOf(m.name, "property", 0, NoReturns)

(* buildInterfacePrototype (216-244), buildEnumPrototype (246-267),        *)
(* buildTypeAliasPrototype (401-431): no JSDoc is read.                    *)
buildInterfacePrototype(d) == Object(d.name, "interface")
buildEnumPrototype(d) == Object(d.name, "enum")
buildTypeAliasPrototype(d) == Object(d.name, "type")

(* buildEnumMemberPrototype (lines 269-293).                               *)
buildEnumMemberPrototype(n) == MemberOf(n, "enumMember", 0, NoReturns)

Built(s, Build(_)) == [k \in DOMAIN s |-> Build(s[k])]
Throws(kids) == \E k \in DOMAIN kids : kids[k] = Crash

(* sourceFile.getClass(name): the first class of the file with that name. *)
HasClass(f, n) == \E k \in DOMAIN f.classes : f.classes[k].name = n
ClassNamed(f, n) ==
    f.classes[CHOOSE k \in DOMAIN f.classes :
                 /\ f.classes[k].name = n
                 /\ \A j \in 1..(k - 1) : f.classes[j].name # n]

Entry == list[file]
F == Entry.file

(* The declarations the loop of the current phase runs over.             *)
Decls(p) == CASE p = 1 -> F.classes
              [] p = 2 -> F.interfaces
              [] p = 3 -> F.enums
              [] p = 4 -> F.vars
              [] p = 5 -> F.aliases

(* The object a declaration contributes, << >> when the loop skips it,    *)
(* or << Crash >> when building it throws.                                *)
Emit(obj, kids) ==
    IF Throws(kids) THEN << Crash >> ELSE << [obj EXCEPT !.children = kids] >>

-----------------------------------------------------------------------------
Init ==
    /\ list \in Lists
    /\ file = 1
    /\ phase = 1
    /\ idx = 1
    /\ metadata = << >>
    /\ all = << >>
    /\ status = "running"

(* Step(out): the current loop iteration contributes out.                 *)
Step(out) ==
    /\ IF out = << Crash >>
       THEN /\ status' = "threw"
            /\ UNCHANGED metadata
       ELSE /\ metadata' = metadata \o out
            /\ UNCHANGED status
    /\ idx' = idx + 1
    /\ UNCHANGED <<list, file, phase, all>>

Running(p) == status = "running" /\ phase = p /\ idx <= Len(Decls(p))

(* Lines 440-477: an exported class named in the exports, with its public *)
(* constructors, methods, properties and getters, in that order.         *)
ClassStep ==
    /\ Running(1)
    /\ LET c == F.classes[idx] IN
       Step(IF isNeedParse(c, Entry.exports)
            THEN Emit(buildClassPrototype(c),
                      Built(Public(c.ctors), buildConstructorPrototype)
                      \o Built(Public(c.methods), buildMethodPrototype)
                      \o Built(Public(c.props), buildPropertyPrototype)
                      \o Built(Public(c.getters), buildMethodPrototype))
            ELSE << >>)

(* Lines 480-491: every method, then every property, of the interface.    *)
InterfaceStep ==
    /\ Running(2)
    /\ LET d == F.interfaces[idx] IN
       Step(IF isNeedParse(d, Entry.exports)
            THEN Emit(buildInterfacePrototype(d),
                      Built(d.methods, buildMethodPrototype)
                      \o Built(d.props, buildPropertyPrototype))
            ELSE << >>)

(* Lines 494-502.                                                          *)
EnumStep ==
    /\ Running(3)
    /\ LET d == F.enums[idx] IN
       Step(IF isNeedParse(d, Entry.exports)
            THEN Emit(buildEnumPrototype(d), Built(d.members, buildEnumMemberPrototype))
            ELSE << >>)

(* Lines 505-548: an exported `const x = new C()` with C a class of the   *)
(* file gives C's object renamed x, with C's public methods and           *)
(* properties; the export list is not consulted.                          *)
VariableStep ==
    /\ Running(4)
    /\ LET v == F.vars[idx] IN
       Step(IF v.exported /\ v.init = "newIdent" /\ HasClass(F, v.cls)
            THEN LET c == ClassNamed(F, v.cls) IN
                 Emit([buildClassPrototype(c) EXCEPT !.name = v.name],
                      Built(Public(c.methods), buildMethodPrototype)
                      \o Built(Public(c.props), buildPropertyPrototype))
            ELSE << >>)

(* Lines 550-554.                                                          *)
TypeAliasStep ==
    /\ Running(5)
    /\ LET d == F.aliases[idx] IN
       Step(IF isNeedParse(d, Entry.exports) THEN << buildTypeAliasPrototype(d) >> ELSE << >>)

(* One loop of parseSourceFile is over; the next one starts.              *)
NextLoop ==
    /\ status = "running"
    /\ phase <= 5
    /\ idx > Len(Decls(phase))
    /\ phase' = phase + 1
    /\ idx' = 1
    /\ UNCHANGED <<list, file, metadata, all, status>>

(* Mutant: the cli loop runs past the last entry of the list.             *)
FileParsedNoStop ==
    /\ status = "running"
    /\ phase = 6
    /\ all' = all \o metadata
    /\ metadata' = << >>
    /\ IF file > Len(list)
       THEN /\ status' = "done"
            /\ UNCHANGED <<file, phase, idx>>
       ELSE /\ file' = file + 1
            /\ phase' = 1
            /\ idx' = 1
            /\ UNCHANGED status
    /\ UNCHANGED list

(* cli.ts lines 24-30: the returned metadata is pushed onto allMetadata;  *)
(* after the last file it is printed.                                     *)
FileParsed ==
    /\ status = "running"
    /\ phase = 6
    /\ all' = all \o metadata
    /\ metadata' = << >>
    /\ IF file = Len(list)
       THEN /\ status' = "done"
            /\ UNCHANGED <<file, phase, idx>>
       ELSE /\ file' = file + 1
            /\ phase' = 1
            /\ idx' = 1
            /\ UNCHANGED status
    /\ UNCHANGED list

Next ==
    \/ ClassStep \/ InterfaceStep \/ EnumStep \/ VariableStep \/ TypeAliasStep
    \/ NextLoop \/ FileParsed

Spec == Init /\ [][Next]_vars

-----------------------------------------------------------------------------
(* Properties                                                              *)

(* The reference: what the extractor documents, stated per declaration    *)
(* rather than as a loop.  A documented member's k-th parameter carries    *)
(* the comment of the k-th @param tag, its returns and since the last     *)
(* @returns (or @return) and @since tags; a member with more @param tags   *)
(* than parameters cannot be documented and fails the whole run.          *)
ParamTags(docs) == SelectSeq(docs, LAMBDA t : t.tag = "param")
LastTag(docs, kinds) ==
    LET ks == {k \in DOMAIN docs : docs[k].tag \in kinds}
    IN IF ks = {} THEN "" ELSE docs[FX!Max(ks)].c
Apidoc(docs) == \E k \in DOMAIN docs : docs[k].tag = "apidoc"
Overflows(m) == Len(ParamTags(m.docs)) > m.np

RefDocumented(m, name) ==
    [name |-> name, form |-> IF name = "constructor" THEN "constructor" ELSE "method",
     has_apidoc |-> Apidoc(m.docs), since |-> LastTag(m.docs, {"since"}),
     params |-> [k \in 1..m.np |-> IF k <= Len(ParamTags(m.docs)) THEN ParamTags(m.docs)[k].c ELSE ""],
     returns |-> LastTag(m.docs, {"returns", "return"})]
RefUndocumented(name, form) ==
    [name |-> name, form |-> form, has_apidoc |-> FALSE, since |-> "",
     params |-> << >>, returns |-> NoReturns]
RefObject(name, type, apidoc, kids) ==
    [name |-> name, type |-> type, has_apidoc |-> apidoc, since |-> "", children |-> kids]

Visible(s) == SelectSeq(s, LAMBDA m : m.vis \notin {"private", "protected"})
RefMethods(s) == [k \in DOMAIN s |-> RefDocumented(s[k], s[k].name)]
RefProps(s) == [k \in DOMAIN s |-> RefUndocumented(s[k].name, "property")]
RefCtors(s) == [k \in DOMAIN s |-> RefDocumented(s[k], "constructor")]

(* A documented class: all its visible members; a documented instance:   *)
(* its class's visible methods and properties only.                      *)
RefClassKids(c) ==
    RefCtors(Visible(c.ctors)) \o RefMethods(Visible(c.methods))
    \o RefProps(Visible(c.props)) \o RefMethods(Visible(c.getters))
RefInstanceKids(c) == RefMethods(Visible(c.methods)) \o RefProps(Visible(c.props))

Instances(f) ==
    SelectSeq(f.vars, LAMBDA v : v.exported /\ v.init = "newIdent"
                                 /\ \E k \in DOMAIN f.classes : f.classes[k].name = v.cls)
Requested(s, x) == SelectSeq(s, LAMBDA d : d.exported /\ d.name \in x)

RefFile(e) ==
    LET f == e.file
        cs == Requested(f.classes, e.exports)
        is == Requested(f.interfaces, e.exports)
        es == Requested(f.enums, e.exports)
        vs == Instances(f)
        ts == Requested(f.aliases, e.exports)
    IN  [k \in DOMAIN cs |-> RefObject(cs[k].name, "class", Apidoc(cs[k].docs), RefClassKids(cs[k]))]
     \o [k \in DOMAIN is |-> RefObject(is[k].name, "interface", FALSE,
                                       RefMethods(is[k].methods) \o RefProps(is[k].props))]
     \o [k \in DOMAIN es |-> RefObject(es[k].name, "enum", FALSE,
                                       [j \in DOMAIN es[k].members |-> RefUndocumented(es[k].members[j], "enumMember")])]
     \o [k \in DOMAIN vs |-> LET c == ClassNamed(f, vs[k].cls) IN
                             RefObject(vs[k].name, "class", Apidoc(c.docs), RefInstanceKids(c))]
     \o [k \in DOMAIN ts |-> RefObject(ts[k].name, "type", FALSE, << >>)]

(* The members whose JSDoc is read when the entry is documented.         *)
RefDocumentedMembers(e) ==
    LET f == e.file
        cs == Requested(f.classes, e.exports)
        is == Requested(f.interfaces, e.exports)
        vs == Instances(f)
    IN  SX!FlattenSeq([k \in DOMAIN cs |->
                          Visible(cs[k].ctors) \o Visible(cs[k].methods) \o Visible(cs[k].getters)])
     \o SX!FlattenSeq([k \in DOMAIN is |-> is[k].methods])
     \o SX!FlattenSeq([k \in DOMAIN vs |-> Visible(ClassNamed(f, vs[k].cls).methods)])

(* Does documenting the entry meet a member with too many @param tags.    *)
RefThrows(e) ==
    \E k \in DOMAIN RefDocumentedMembers(e) : Overflows(RefDocumentedMembers(e)[k])

(* The cli prints, in file order, exactly the documentation the reference *)
(* gives for each entry (the requested declarations with their visible    *)
(* members, each @param tag on the parameter of its rank); it fails       *)
(* without printing exactly when some documented member has more @param  *)
(* tags than parameters, whatever file of the list it is in.              *)
ParseAsReference ==
    /\ status = "done" =>
          /\ \A k \in DOMAIN list : ~RefThrows(list[k])
          /\ all = SX!FlattenSeq([k \in DOMAIN list |-> RefFile(list[k])])
    /\ status = "threw" => \E k \in DOMAIN list : RefThrows(list[k])

(* Further checks, each violated by what the code does.                   *)

(* Every documented object is a declaration the entry's export list asks *)
(* for: isNeedParse is the filter of the class, interface, enum and type *)
(* loops, but the exported-instance loop (lines 505-548) never calls it.  *)
ExportsRespected ==
    \A k \in DOMAIN all : \E j \in DOMAIN list : all[k].name \in list[j].exports

(* A class getter is documented with a getter prototype, as               *)
(* buildGetterPrototype (lines 120-150) writes it; the class loop hands   *)
(* getters to buildMethodPrototype instead (line 472).                    *)
GettersAsGetters ==
    \A k \in DOMAIN all : \A j \in DOMAIN all[k].children :
        (\E e \in DOMAIN list : \E c \in DOMAIN list[e].file.classes :
            \E g \in DOMAIN list[e].file.classes[c].getters :
                list[e].file.classes[c].getters[g].name = all[k].children[j].name)
        => all[k].children[j].form = "getter"

(* A documented class records the version of its @since tag: handleJSDoc  *)
(* returns before its tag loop for an object (lines 99-101), so since    *)
(* stays empty.                                                           *)
SinceRecorded ==
    \A k \in DOMAIN all :
        all[k].type = "class" =>
            \E e \in DOMAIN list : \E c \in DOMAIN list[e].file.classes :
                /\ list[e].file.classes[c].name = all[k].name
                /\ LastTag(list[e].file.classes[c].docs, {"since"}) = all[k].since

=============================================================================
