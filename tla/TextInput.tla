------------------------------ MODULE TextInput ------------------------------
(***************************************************************************)
(* The text of one Android input element of lynx_xelement_input: an       *)
(* <input> (LynxUIInput) or a <textarea> (LynxUITextArea), both built on   *)
(* LynxUIBaseInput over a LynxEditText.                                    *)
(*                                                                         *)
(* Every change of the text goes through Editable.replace, which runs the *)
(* view's InputFilters in array order, each on what the previous one      *)
(* returned, then replaces the range and calls the TextWatchers (the      *)
(* textarea's afterTextDidChanged).  The changes come from the IME        *)
(* (commitText, setComposingText, deleteSurroundingText through           *)
(* LynxInputConnectionWrapper) and from the page's UI methods (setValue,  *)
(* setSelectionRange, getValue); props replace the filters' parameters.   *)
(* All of it runs on the UI thread, one call at a time: one action each.  *)
(*                                                                         *)
(* A text is a sequence of characters; a filter's source is a record of   *)
(* its characters and whether it still carries the IME's composing span   *)
(* (a String built by a filter carries none).  Layout is abstracted to    *)
(* StaticLayout's line count with a fixed number of characters per line; *)
(* a height is a number of lines.                                          *)
(***************************************************************************)
EXTENDS Integers, Sequences, FiniteSets

CONSTANTS
    Chars,          \* the characters a text is made of
    NL,             \* the character "\n"
    Width,          \* characters per layout line
    Placeholder,    \* the hint text
    ImeTexts,       \* texts the IME commits or composes
    Values,         \* values setValue is called with
    Cursors,        \* cursor params of setValue (-1 when absent)
    Offsets,        \* selectionStart / selectionEnd params (-1 when absent)
    MaxLengthProps, \* maxlength prop values (numbers, or NullProp)
    RegexProps,     \* input-filter props: the characters a regex accepts, or NoRegex
    MaxLinesProps,  \* maxlines prop values (the prop's default is 0)
    ConfirmProps,   \* confirm-type prop values, or NullProp
    TypeProps,      \* type prop values: "text", "password", NullProp
    NullProp,
    NoRegex,
    MaxText         \* bound on the length of the text the IME builds

INT_MAX == 2147483647
NoMaxLines == -1            \* maxHeightInputFilter is null: maxlines never set
ConfirmActions == {"next", "search", "send", "done", "go"}
SUCCESS == "success"
PARAM_INVALID == "param_invalid"
Threw == "threw"            \* the method threw before invoking its callback
Idle == "idle"              \* no UI method called yet

VARIABLES
    kind,        \* "input" or "textarea"
    text,        \* mView.text
    selStart,    \* mView.selectionStart
    selEnd,      \* mView.selectionEnd
    comp,        \* the composing span's range, or NoComp
    maxLength,   \* the max of maxLengthInputFilter
    regex,       \* mInputFilterRegex
    maxLines,    \* the maxLines of maxHeightInputFilter, or NoMaxLines
    confirm,     \* isConfirmEnter(): imeOptions holds a confirm action
    preHeight,   \* LynxUITextArea.mPreHeight
    reached,     \* LynxUITextArea.mMaxLinesReached
    uiHeight,    \* LynxUIBaseInputShadowNode.mUIHeight
    reply,       \* what the last UI method passed to its callback
    trans,       \* mView.transformationMethod: "single", "password" or "none"
    singleLine,  \* the TextView's mSingleLine
    typeThrew    \* the last step was a type prop whose setSelection threw

vars == <<kind, text, selStart, selEnd, comp, maxLength, regex, maxLines,
          confirm, preHeight, reached, uiHeight, reply, trans, singleLine,
          typeThrew>>

NoComp == [a |-> -1, b |-> -1]

TypeOK ==
    /\ kind \in {"input", "textarea"}
    /\ text \in Seq(Chars)
    /\ selStart \in 0..Len(text) /\ selEnd \in 0..Len(text)
    /\ \/ comp = NoComp
       \/ 0 <= comp.a /\ comp.a < comp.b /\ comp.b <= Len(text)
    /\ maxLength \in Int
    /\ reached \in BOOLEAN
    /\ uiHeight \in Nat
    /\ reply \in {Idle, SUCCESS, PARAM_INVALID, Threw}
    /\ trans \in {"single", "password", "none"}
    /\ singleLine \in BOOLEAN
    /\ typeThrew \in BOOLEAN

-----------------------------------------------------------------------------
(* Text helpers                                                            *)

Lo(x, y) == IF x <= y THEN x ELSE y

(* Editable.replace(a, b, s) on 0-based offsets.                          *)
Replace(t, a, b, s) == SubSeq(t, 1, a) \o s \o SubSeq(t, b + 1, Len(t))

Src(cs, spanned) == [chars |-> cs, spanned |-> spanned]

(* LynxInputUtils.getLayoutInEditText(...).lineCount: StaticLayout breaks *)
(* a line at "\n" and wraps it after Width characters; "" has one line.  *)
RECURSIVE LinesFrom(_, _, _)
LinesFrom(t, n, col) ==
    IF t = << >> THEN n
    ELSE IF Head(t) = NL THEN LinesFrom(Tail(t), n + 1, 0)
    ELSE IF col = Width THEN LinesFrom(Tail(t), n + 1, 1)
    ELSE LinesFrom(Tail(t), n, col + 1)

LineCount(t) == LinesFrom(t, 1, 0)

(* Int.coerceAtLeast, as triggerUpdateLayout applies it to the placeholder. *)
coerceAtLeast(h, least) == IF h >= least THEN h ELSE least

-----------------------------------------------------------------------------
(* The filters                                                             *)

(* InputFilter.LengthFilter(maxLength).filter of the Android framework:   *)
(* what fits of the source, cut with subSequence (spans kept), or "".     *)
LengthFilter(src, a, b) ==
    LET keep == maxLength - (Len(text) - (b - a)) IN
    IF keep <= 0 THEN Src(<< >>, FALSE)
    ELSE IF keep >= Len(src.chars) THEN src
    ELSE Src(SubSeq(src.chars, 1, keep), src.spanned)

RECURSIVE Matching(_)
Matching(cs) ==
    IF cs = << >> THEN << >>
    ELSE (IF Head(cs) \in regex THEN << Head(cs) >> ELSE << >>) \o Matching(Tail(cs))

(* inputValueRegexFilter (LynxUIBaseInput lines 79-100): the characters   *)
(* whose one-character string matches the regex, built into a String.    *)
inputValueRegexFilter(src) ==
    IF regex = NoRegex THEN src ELSE Src(Matching(src.chars), FALSE)

(* confirmEnterFilter (LynxUITextArea lines 29-35).                       *)
confirmEnterFilter(src) ==
    IF confirm /\ src.chars = << NL >> THEN Src(<< >>, FALSE) ELSE src

(* Mutant: the candidate holds mid source characters instead of mid + 1. *)
MaxLinesCutShort(dest, a, b, s, m) ==
    LET RECURSIVE Search(_, _)
        Search(l, r) ==
            IF l >= r THEN r
            ELSE LET mid == (l + r) \div 2 IN
                 IF LineCount(Replace(dest, a, b, SubSeq(s, 1, mid))) <= m
                 THEN Search(mid + 1, r) ELSE Search(l, mid)
    IN Search(0, Len(s))

(* The binary search of maxLinesFilter (LynxUITextArea lines 86-102): the *)
(* r it ends with, for a source starting at 0.                            *)
MaxLinesCut(dest, a, b, s, m) ==
    LET RECURSIVE Search(_, _)
        Search(l, r) ==
            IF l >= r THEN r
            ELSE LET mid == (l + r) \div 2 IN
                 IF LineCount(Replace(dest, a, b, SubSeq(s, 1, mid + 1))) <= m
                 THEN Search(mid + 1, r) ELSE Search(l, mid)
    IN Search(0, Len(s))

(* maxLinesFilter (lines 80-117): the source cut at r; mMaxLinesReached   *)
(* records whether anything was cut.  maxLines is never Int.MAX_VALUE in  *)
(* this model, so line 116 is not reached.                                *)
maxLinesFilter(src, a, b) ==
    LET r == MaxLinesCut(text, a, b, src.chars, maxLines) IN
    [out |-> Src(SubSeq(src.chars, 1, r), src.spanned), reached |-> r < Len(src.chars)]

(* Mutant: the textarea's array with maxlines set left without          *)
(* maxLengthInputFilter in the other branch.                              *)
FiltersNoMaxLength ==
    IF kind = "textarea"
    THEN << "confirmEnter" >>
         \o (IF maxLines # NoMaxLines THEN << "maxLength", "maxHeight" >> ELSE << >>)
         \o << "regex" >>
    ELSE << "maxLength", "regex" >>

(* Mutant: the textarea's array with maxlines set left without           *)
(* inputValueRegexFilter.                                                 *)
FiltersNoRegex ==
    IF kind = "textarea"
    THEN << "confirmEnter", "maxLength" >>
         \o (IF maxLines # NoMaxLines THEN << "maxHeight" >> ELSE << "regex" >>)
    ELSE << "maxLength", "regex" >>

(* Mutant: the textarea's array built without maxHeightInputFilter.       *)
FiltersNoMaxHeight ==
    IF kind = "textarea"
    THEN << "confirmEnter", "maxLength", "regex" >>
    ELSE << "maxLength", "regex" >>

(* mView.filters as afterPropsUpdated sets them: LynxUIInput lines 47-53, *)
(* LynxUITextArea lines 60-67.                                            *)
Filters ==
    IF kind = "textarea"
    THEN << "confirmEnter", "maxLength" >>
         \o (IF maxLines # NoMaxLines THEN << "maxHeight" >> ELSE << >>)
         \o << "regex" >>
    ELSE << "maxLength", "regex" >>

(* The filter loop of SpannableStringBuilder.replace: each filter sees    *)
(* what the previous one returned; maxLinesFilter also sets reached.      *)
RECURSIVE RunFilters(_, _, _, _, _)
RunFilters(fs, src, rch, a, b) ==
    IF fs = << >> THEN [out |-> src, reached |-> rch]
    ELSE LET f == Head(fs) IN
         IF f = "maxHeight"
         THEN LET res == maxLinesFilter(src, a, b) IN
              RunFilters(Tail(fs), res.out, res.reached, a, b)
         ELSE RunFilters(Tail(fs),
                         CASE f = "confirmEnter" -> confirmEnterFilter(src)
                           [] f = "maxLength"    -> LengthFilter(src, a, b)
                           [] f = "regex"        -> inputValueRegexFilter(src),
                         rch, a, b)

(* LynxUITextArea.afterTextDidChanged (lines 119-137) with                *)
(* triggerUpdateLayout (LynxUIBaseInput 624-635) and updateHeightIfNeeded:*)
(* called by the TextWatcher unless the replace was a no-op.              *)
afterTextDidChanged(changed, new, rch) ==
    LET h == LineCount(new) IN
    IF changed /\ kind = "textarea" /\ h # preHeight /\ ~rch
    THEN /\ preHeight' = h
         /\ uiHeight' = coerceAtLeast(h, LineCount(Placeholder))
    ELSE UNCHANGED <<preHeight, uiHeight>>

(* The part of the view a setText changes.                               *)
ViewNow == [text |-> text, reached |-> reached, preHeight |-> preHeight,
            uiHeight |-> uiHeight]

(* TextView.setText(mText), run by setTransformationMethod when the method *)
(* changes: every filter runs over the whole text against an empty        *)
(* destination (a replace of all of the current text, to LengthFilter   *)
(* and maxLinesFilter), the text becomes a new Editable whose selection   *)
(* ArrowKeyMovementMethod.initialize puts at 0, and the TextWatcher runs  *)
(* afterTextDidChanged.                                                    *)
SetText(view) ==
    LET res  == RunFilters(Filters, Src(view.text, FALSE), view.reached, 0, Len(text))
        new  == res.out.chars
        h    == LineCount(new)
        grow == kind = "textarea" /\ h # view.preHeight /\ ~res.reached
    IN [text |-> new, reached |-> res.reached,
        preHeight |-> IF grow THEN h ELSE view.preHeight,
        uiHeight |-> IF grow THEN coerceAtLeast(h, LineCount(Placeholder))
                     ELSE view.uiHeight]

SetTextIf(changed, view) == IF changed THEN SetText(view) ELSE view

ApplyView(view) ==
    /\ text' = view.text /\ reached' = view.reached
    /\ preHeight' = view.preHeight /\ uiHeight' = view.uiHeight

-----------------------------------------------------------------------------
Init ==
    /\ kind \in {"input", "textarea"}
    /\ text = << >>
    /\ selStart = 0 /\ selEnd = 0
    /\ comp = NoComp
    /\ maxLength = INT_MAX
    /\ regex = NoRegex
    /\ maxLines = NoMaxLines
    /\ confirm = FALSE
    /\ preHeight = -1
    /\ reached = FALSE
    /\ uiHeight = coerceAtLeast(LineCount(<< >>), LineCount(Placeholder))
    /\ reply = Idle
    /\ trans = IF kind = "input" THEN "single" ELSE "none"
    /\ singleLine = (kind = "input")
    /\ typeThrew = FALSE

(* BaseInputConnection.replaceText, which commitText and setComposingText *)
(* (LynxInputConnectionWrapper lines 39-45) reach: the text replaces the  *)
(* composing region, or the selection when there is none; the cursor is  *)
(* put after what the filters let in; a composing text marks the result  *)
(* composing only if it still carries the span the IME attached.         *)
ImeReplace(s, composing) ==
    LET a   == IF comp # NoComp THEN comp.a ELSE Lo(selStart, selEnd)
        b   == IF comp # NoComp THEN comp.b ELSE selStart + selEnd - Lo(selStart, selEnd)
        res == RunFilters(Filters, Src(s, composing), reached, a, b)
        out == res.out.chars
        new == Replace(text, a, b, out)
    IN
    /\ Len(text) + Len(s) <= MaxText
    /\ text' = new
    /\ reached' = res.reached
    /\ selStart' = a + Len(out)
    /\ selEnd' = a + Len(out)
    /\ comp' = IF composing /\ res.out.spanned /\ out # << >>
               THEN [a |-> a, b |-> a + Len(out)] ELSE NoComp
    /\ afterTextDidChanged(b - a + Len(out) > 0, new, res.reached)
    /\ UNCHANGED <<kind, trans, singleLine, maxLength, regex, maxLines, confirm, reply>>

(* commitText(text, 1).                                                    *)
CommitText(s) == ImeReplace(s, FALSE)

(* setComposingText(text, 1).                                              *)
SetComposingText(s) == ImeReplace(s, TRUE)

(* finishComposingText: the composing span is removed, the text stays.    *)
FinishComposingText ==
    /\ comp # NoComp
    /\ comp' = NoComp
    /\ UNCHANGED <<kind, trans, singleLine, text, selStart, selEnd, maxLength, regex, maxLines,
                   confirm, preHeight, reached, uiHeight, reply, trans, singleLine,
          typeThrew>>

(* deleteSurroundingText(1, 0), LynxInputConnectionWrapper lines 30-37:   *)
(* no BackspaceListener is ever set, so the framework deletes the one    *)
(* character before the selection or the composing region, whichever     *)
(* starts first; content.delete runs the filters on "" and is a no-op at *)
(* offset 0.  Offsets after the deleted character move back by one.      *)
DeleteSurroundingText ==
    LET a0  == Lo(selStart, selEnd)
        a   == IF comp # NoComp THEN Lo(comp.a, a0) ELSE a0
        st  == IF a > 0 THEN a - 1 ELSE 0
        res == RunFilters(Filters, Src(<< >>, FALSE), reached, st, a)
        new == Replace(text, st, a, << >>)
        Sh(p) == IF p >= a THEN p - (a - st) ELSE p
    IN
    /\ text' = new
    /\ reached' = res.reached
    /\ selStart' = Sh(selStart)
    /\ selEnd' = Sh(selEnd)
    /\ comp' = IF comp = NoComp THEN NoComp ELSE [a |-> Sh(comp.a), b |-> Sh(comp.b)]
    /\ afterTextDidChanged(a - st > 0, new, res.reached)
    /\ UNCHANGED <<kind, trans, singleLine, maxLength, regex, maxLines, confirm, reply>>

(* setValue with params (LynxUIBaseInput lines 659-676): the whole text  *)
(* is replaced through the filters; a selection point inside the replaced *)
(* range moves to its end unless it is at 0, and a composing span that    *)
(* becomes empty is dropped.  A cursor the filtered text cannot hold      *)
(* makes setSelection throw: the text stays replaced, the callback is    *)
(* never invoked.                                                          *)
SetValue(v, cursor) ==
    LET res == RunFilters(Filters, Src(v, FALSE), reached, 0, Len(text))
        out == res.out.chars
        P(x) == IF x = 0 THEN 0 ELSE Len(out)
    IN
    /\ text' = out
    /\ reached' = res.reached
    /\ comp' = IF comp # NoComp /\ P(comp.a) < P(comp.b)
               THEN [a |-> P(comp.a), b |-> P(comp.b)] ELSE NoComp
    /\ afterTextDidChanged(Len(text) + Len(out) > 0, out, res.reached)
    /\ IF cursor = -1 \/ cursor \in 0..Len(out)
       THEN /\ selStart' = IF cursor = -1 THEN P(selStart) ELSE cursor
            /\ selEnd' = IF cursor = -1 THEN P(selEnd) ELSE cursor
            /\ reply' = SUCCESS
       ELSE /\ selStart' = P(selStart)
            /\ selEnd' = P(selEnd)
            /\ reply' = Threw
    /\ UNCHANGED <<kind, trans, singleLine, maxLength, regex, maxLines, confirm>>

(* setValue(null): lines 660-663.                                          *)
SetValueNoParams ==
    /\ reply' = PARAM_INVALID
    /\ UNCHANGED <<kind, trans, singleLine, text, selStart, selEnd, comp, maxLength, regex,
                   maxLines, confirm, preHeight, reached, uiHeight>>

(* getValue (lines 679-702) reads the text, the selection and the         *)
(* composing state and always answers.                                    *)
GetValue ==
    /\ reply' = SUCCESS
    /\ UNCHANGED <<kind, trans, singleLine, text, selStart, selEnd, comp, maxLength, regex,
                   maxLines, confirm, preHeight, reached, uiHeight>>

(* Mutant: the range not checked against the text's length.              *)
SetSelectionRangeUnchecked(s, e) ==
    IF s < 0 \/ e < 0
    THEN /\ reply' = PARAM_INVALID
         /\ UNCHANGED <<kind, trans, singleLine, text, selStart, selEnd, comp, maxLength, regex,
                        maxLines, confirm, preHeight, reached, uiHeight>>
    ELSE /\ selStart' = s /\ selEnd' = e
         /\ reply' = SUCCESS
         /\ UNCHANGED <<kind, trans, singleLine, text, comp, maxLength, regex, maxLines, confirm,
                        preHeight, reached, uiHeight>>

(* setSelectionRange (lines 705-731); an absent or null param is -1.      *)
SetSelectionRange(s, e) ==
    IF s > Len(text) \/ e > Len(text) \/ s < 0 \/ e < 0
    THEN /\ reply' = PARAM_INVALID
         /\ UNCHANGED <<kind, trans, singleLine, text, selStart, selEnd, comp, maxLength, regex,
                        maxLines, confirm, preHeight, reached, uiHeight>>
    ELSE /\ selStart' = s /\ selEnd' = e
         /\ reply' = SUCCESS
         /\ UNCHANGED <<kind, trans, singleLine, text, comp, maxLength, regex, maxLines, confirm,
                        preHeight, reached, uiHeight>>

PropsUnchanged == UNCHANGED <<kind, trans, singleLine, text, selStart, selEnd, comp, preHeight,
                              reached, uiHeight, reply>>

(* maxlength (lines 418-430), then afterPropsUpdated installs the new     *)
(* filter; a null prop (the attribute removed) keeps the old one.         *)
SetMaxLength(v) ==
    /\ maxLength' = IF v = NullProp THEN maxLength ELSE v
    /\ UNCHANGED <<regex, maxLines, confirm>>
    /\ PropsUnchanged

(* input-filter (lines 432-435).                                           *)
SetInputFilter(r) ==
    /\ regex' = r
    /\ UNCHANGED <<maxLength, maxLines, confirm>>
    /\ PropsUnchanged

(* maxlines of a textarea (LynxUITextArea lines 54-58); default 0.        *)
SetMaxLines(n) ==
    /\ kind = "textarea"
    /\ maxLines' = n
    /\ UNCHANGED <<maxLength, regex, confirm>>
    /\ PropsUnchanged

(* confirm-type (lines 375-391): null means "done"; a value of no action  *)
(* leaves imeOptions, and so isConfirmEnter, as they were.  On a textarea *)
(* isSingleLine = false and then inputType = TYPE_CLASS_TEXT (no          *)
(* multi-line flag) make the framework apply single-line mode: the        *)
(* transformation becomes "none" and then "single", each change a setText.*)
SetConfirmType(v) ==
    /\ confirm' = IF v = NullProp \/ v \in ConfirmActions THEN TRUE ELSE confirm
    /\ IF kind = "textarea"
       THEN LET view == SetText(SetTextIf(trans # "none", ViewNow)) IN
            /\ ApplyView(view)
            /\ selStart' = 0 /\ selEnd' = 0
            /\ comp' = NoComp
            /\ trans' = "single" /\ singleLine' = TRUE
       ELSE UNCHANGED <<text, reached, preHeight, uiHeight, selStart, selEnd,
                        comp, trans, singleLine>>
    /\ UNCHANGED <<kind, maxLength, regex, maxLines, reply>>

(* type (lines 393-416).  Every type but "password" leaves the view as    *)
(* "text" does here.  Setting inputType runs TextView.setInputType, which *)
(* applies single-line mode when mSingleLine is off (the class has no     *)
(* multi-line flag, and TYPE_TEXT_VARIATION_PASSWORD without              *)
(* TYPE_CLASS_TEXT is no password type to it); then selectionStart is     *)
(* read, the transformation set, and setSelection(selectionStart) run on  *)
(* the text as the transformation's setText left it: past its end it      *)
(* throws and lines 411-415 never run.  A textarea then leaves single-    *)
(* line mode, which sets the transformation to "none".                    *)
SetInputType(v) ==
    LET t1   == IF singleLine THEN trans ELSE "single"
        t2   == IF v = "password" THEN "password" ELSE "single"
        v1   == SetTextIf(t1 # trans, ViewNow)
        v2   == SetTextIf(t2 # t1, v1)
        sel  == IF t1 # trans THEN 0 ELSE selStart
        past == sel > Len(v2.text)
        v3   == SetTextIf(kind = "textarea" /\ ~past, v2)
        re   == t1 # trans \/ t2 # t1 \/ (kind = "textarea" /\ ~past)
    IN
    /\ ApplyView(v3)
    /\ comp' = IF re THEN NoComp ELSE comp
    /\ typeThrew' = past
    /\ IF past
       THEN /\ selStart' = 0 /\ selEnd' = 0
            /\ trans' = t2 /\ singleLine' = TRUE
       ELSE /\ selStart' = IF kind = "textarea" THEN 0 ELSE sel
            /\ selEnd' = IF kind = "textarea" THEN 0 ELSE sel
            /\ trans' = IF kind = "textarea" THEN "none" ELSE t2
            /\ singleLine' = (kind = "input")
    /\ UNCHANGED <<kind, maxLength, regex, maxLines, confirm, reply>>

OtherStep ==
    \/ \E s \in ImeTexts : CommitText(s) \/ SetComposingText(s)
    \/ FinishComposingText
    \/ DeleteSurroundingText
    \/ \E v \in Values, c \in Cursors : SetValue(v, c)
    \/ SetValueNoParams
    \/ GetValue
    \/ \E s, e \in Offsets : SetSelectionRange(s, e)
    \/ \E v \in MaxLengthProps : SetMaxLength(v)
    \/ \E r \in RegexProps : SetInputFilter(r)
    \/ \E n \in MaxLinesProps : SetMaxLines(n)
    \/ \E v \in ConfirmProps : SetConfirmType(v)

(* Every step but a type change clears typeThrew.                        *)
Next ==
    \/ /\ typeThrew' = FALSE
       /\ OtherStep
    \/ \E v \in TypeProps : SetInputType(v)

Spec == Init /\ [][Next]_vars

-----------------------------------------------------------------------------
(* Properties                                                              *)

(* The longest prefix of s that, put in place of [a, b) of dest, lays out *)
(* in at most m lines (none when even one character is too many).         *)
LongestFit(dest, a, b, s, m) ==
    LET fits == {k \in 1..Len(s) : LineCount(Replace(dest, a, b, SubSeq(s, 1, k))) <= m}
    IN IF fits = {} THEN 0 ELSE CHOOSE k \in fits : \A j \in fits : j <= k

(* The binary search of maxLinesFilter keeps exactly the longest prefix  *)
(* of what the IME would type next that still fits in maxlines lines,    *)
(* wherever the selection or composing region puts it in the text.        *)
MaxLinesCutIsLongestFit ==
    \A s \in ImeTexts, m \in MaxLinesProps :
        LET a == IF comp # NoComp THEN comp.a ELSE Lo(selStart, selEnd)
            b == IF comp # NoComp THEN comp.b ELSE selStart + selEnd - Lo(selStart, selEnd)
        IN MaxLinesCut(text, a, b, s, m) = LongestFit(text, a, b, s, m)

(* No change of the text, by the IME or by setValue, makes it longer than *)
(* maxlength, unless it already was (maxlength lowered) and the change    *)
(* does not lengthen it: LengthFilter counts the replaced range, also     *)
(* for a composing region and after the confirm and regex filters.       *)
EditsKeepMaxLength ==
    [][text' # text => Len(text') <= maxLength \/ Len(text') <= Len(text)]_vars

(* The characters of the text that input-filter rejects.                 *)
Rejected(t) == {i \in DOMAIN t : regex # NoRegex /\ t[i] \notin regex}

(* No change of the text, by the IME, setValue, a backspace or the setText *)
(* of a type or confirm-type change, adds a character the current         *)
(* input-filter rejects: inputValueRegexFilter runs last in both filter   *)
(* arrays, on what the filters before it returned.                         *)
EditsKeepRegex ==
    [][text' # text => Cardinality(Rejected(text')) <= Cardinality(Rejected(text))]_vars

(* No change of a textarea's text makes it lay out in more lines than     *)
(* maxlines, unless it did already and the change does not add lines.     *)
EditsKeepMaxLines ==
    [][text' # text /\ maxLines # NoMaxLines =>
         LineCount(text') <= maxLines \/ LineCount(text') <= LineCount(text)]_vars

(* The textarea's height (the shadow node's) is that of its text, or of  *)
(* the placeholder if taller, after every change of the text.            *)
HeightTracksText ==
    kind = "textarea" => uiHeight = coerceAtLeast(LineCount(text), LineCount(Placeholder))

(* Every UI method call invokes its callback.                              *)
EveryCallAnswered == reply # Threw

(* After the IME sets composing text that the filters let in, the text    *)
(* holds a composing span over it, as LynxInputConnectionWrapper's        *)
(* comment on hasComposingText requires of every filter (lines 69-84).    *)
ComposingSpanKept ==
    [][\A s \in ImeTexts : SetComposingText(s) /\ Len(text') > Len(text) => comp' # NoComp]_vars

(* The type prop never makes the view throw: setInputType reads          *)
(* selectionStart to put the cursor back where it was once the            *)
(* transformation is set (lines 404-410).                                 *)
TypeChangeNeverThrows == ~typeThrew

=============================================================================
