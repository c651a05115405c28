------------------------------ MODULE InputFocus ------------------------------
(***************************************************************************)
(* Focus and the system soft keyboard of the Android input elements of    *)
(* lynx_xelement_input: an <input> (LynxUIInput) or a <textarea>           *)
(* (LynxUITextArea), both LynxUIBaseInput over a LynxEditTextView.  The   *)
(* inputs of a page share one window and one InputMethodManager:          *)
(*                                                                         *)
(*  - focus moves by a tap, by the focus / blur UI methods, by Lynx's      *)
(*    onFocusChanged and by a "next" editor action; the view's focus       *)
(*    listener shows the keyboard, blur hides it;                          *)
(*  - the IME's editor action confirms, and blurs or moves on;             *)
(*  - the disabled, readonly, confirm-type, android-fullscreen-mode and    *)
(*    show-soft-input-on-focus props write the view's focusability,        *)
(*    imeOptions and mUseCustomKeyboard.                                   *)
(*                                                                         *)
(* All of it runs on the UI thread, one setter or callback at a time, so  *)
(* each is one action.  The Android framework is taken as: requestFocus   *)
(* succeeds on a focusable, enabled view (API 26+) and calls the focus    *)
(* listeners of the view losing and the view gaining focus; clearFocus    *)
(* and setFocusable(false) drop focus without touching the keyboard;      *)
(* showSoftInput shows it for the focused view only; hideSoftInputFrom-   *)
(* Window hides it whichever view is focused.  The inputs are the         *)
(* window's only focusable views.  The window's soft-input mode, which    *)
(* show-soft-input-on-focus also writes, is SoftInputMode's.              *)
(***************************************************************************)
EXTENDS Integers, Sequences

CONSTANTS
    Inputs,          \* the input elements of the page
    Order,           \* the inputs in focus-search order (a sequence)
    TextAreas,       \* the inputs that are <textarea>s
    ConfirmTypes     \* confirm-type values a page sets ("null" for null)

NoView == "none"             \* no view of the window has focus
ImeActions == {"none", "next", "search", "send", "done", "go"}

VARIABLES
    custom,      \* per input: mUseCustomKeyboard (= not mView.showSoftInputOnFocus)
    focused,     \* the input view holding focus, or NoView
    kbd,         \* is the system soft keyboard shown
    enabled,     \* per input: mView.isEnabled
    focusable,   \* per input: mView.isFocusable (= isFocusableInTouchMode = userInteractionEnabled)
    ime,         \* per input: the action of mView.imeOptions
    noFull,      \* per input: imeOptions has IME_FLAG_NO_FULLSCREEN and NO_EXTRACT_UI
    answered     \* did the last focus / blur call call its callback

vars == <<custom, focused, kbd, enabled, focusable, ime, noFull, answered>>

TypeOK ==
    /\ custom \in [Inputs -> BOOLEAN]
    /\ focused \in Inputs \cup {NoView}
    /\ kbd \in BOOLEAN
    /\ enabled \in [Inputs -> BOOLEAN]
    /\ focusable \in [Inputs -> BOOLEAN]
    /\ ime \in [Inputs -> ImeActions]
    /\ noFull \in [Inputs -> BOOLEAN]
    /\ answered \in BOOLEAN

-----------------------------------------------------------------------------
(* View.requestFocus (API 26+): a focusable, enabled view takes focus.    *)
CanTakeFocus(i) == focusable[i] /\ enabled[i]

(* The view holding focus after requestFocus on i, focus being at f.     *)
RequestFocus(i, f) == IF CanTakeFocus(i) THEN i ELSE f

(* Mutant: the listener shows the keyboard for a custom keyboard too.    *)
FocusListenerUnchecked(i, k) == TRUE

(* Mutant: the listener without its showSoftInput.                        *)
FocusListenerNoShow(i, k) == k

(* The focus listener of createView (lines 111-137) on the view gaining   *)
(* focus: showSoftInput unless show-soft-input-on-focus is off; k is the *)
(* keyboard before.  The focus / blur events and setFocusedUI it sends    *)
(* to Lynx change no state of this model.                                 *)
FocusListener(i, k) == IF ~custom[i] THEN TRUE ELSE k

(* The keyboard after requestFocus on i, focus being at f and the         *)
(* keyboard k: the listener runs only when focus moves to i.              *)
KbdAfterFocus(i, f, k) ==
    IF CanTakeFocus(i) /\ f # i THEN FocusListener(i, k) ELSE k

(* mView.clearFocus(): the view, if it held focus, drops it.             *)
ClearFocus(i) == IF focused = i THEN NoView ELSE focused

(* blur's keyboard (lines 751-753): hideSoftInput unless the input uses   *)
(* a custom keyboard.                                                      *)
KbdAfterBlur(i) == kbd /\ custom[i]

(* FocusFinder.findNextFocus(FOCUS_FORWARD) from i, the inputs being the *)
(* window's focusable views in Order: the next one after i, wrapping      *)
(* around to the first, and none when i is the only one.                  *)
NextFocusable(i) ==
    LET at  == CHOOSE p \in DOMAIN Order : Order[p] = i
        fs  == {p \in DOMAIN Order : CanTakeFocus(Order[p]) \/ p = at}
        up  == {p \in fs : p > at}
        low(S) == CHOOSE p \in S : \A q \in S : p <= q
    IN  IF fs = {at} THEN NoView
        ELSE IF up # {} THEN Order[low(up)] ELSE Order[low(fs)]

-----------------------------------------------------------------------------
(* createView (lines 108-207): a view that is enabled, focusable, with   *)
(* imeOptions IME_ACTION_NONE (line 156); no view has focus yet.          *)
Init ==
    /\ custom = [i \in Inputs |-> FALSE]
    /\ focused = NoView
    /\ kbd = FALSE
    /\ enabled = [i \in Inputs |-> TRUE]
    /\ focusable = [i \in Inputs |-> TRUE]
    /\ ime = [i \in Inputs |-> "none"]
    /\ noFull = [i \in Inputs |-> FALSE]
    /\ answered = TRUE

(* show-soft-input-on-focus, lines 452-478 (API 21+, in an Activity): the *)
(* flag that keeps the focus listener, focus and onFocusChanged from       *)
(* showing the keyboard, and mView.showSoftInputOnFocus, which keeps a     *)
(* tap from showing it.  The keyboard already shown stays.                *)
SetShowSoftInputOnFocus(i, isShowSoftInputOnFocus) ==
    /\ custom' = [custom EXCEPT ![i] = ~isShowSoftInputOnFocus]
    /\ UNCHANGED <<focused, kbd, enabled, focusable, ime, noFull, answered>>

(* A touch on the view: LynxEditTextView.onTouchEvent (lines 44-81)      *)
(* ignores it when the view is not focusable; TextView.onTouchEvent,      *)
(* on an enabled view, takes focus and, on the tap's up, shows the        *)
(* keyboard when showSoftInputOnFocus (lines 466 and 474) is on.           *)
Tap(i) ==
    /\ focusable[i]
    /\ enabled[i]
    /\ focused' = i
    /\ kbd' = (KbdAfterFocus(i, focused, kbd) \/ ~custom[i])
    /\ UNCHANGED <<enabled, focusable, ime, noFull, answered>>
    /\ UNCHANGED custom

(* The focus UI method, lines 733-746 (showSoftInput, 758-762, succeeds    *)
(* for the focused view): with a custom keyboard it hides the keyboard    *)
(* and returns without calling back; otherwise it calls back SUCCESS,    *)
(* or UNKNOWN when the view cannot take focus.                              *)
Focus(i) ==
    /\ IF RequestFocus(i, focused) = i
       THEN /\ focused' = i
            /\ kbd' = ~custom[i]
            /\ answered' = ~custom[i]
       ELSE /\ answered' = TRUE
            /\ UNCHANGED <<focused, kbd>>
    /\ UNCHANGED <<enabled, focusable, ime, noFull>>
    /\ UNCHANGED custom

(* The blur UI method, lines 748-755 (hideSoftInput, 765-769, hides the   *)
(* keyboard of the window, whichever view holds focus); it calls back    *)
(* SUCCESS.                                                                 *)
Blur(i) ==
    /\ focused' = ClearFocus(i)
    /\ kbd' = KbdAfterBlur(i)
    /\ answered' = TRUE
    /\ UNCHANGED <<enabled, focusable, ime, noFull>>
    /\ UNCHANGED custom

(* onFocusChanged(hasFocus, isFocusTransition = false), lines 643-656,    *)
(* called by Lynx's event dispatcher.                                     *)
OnFocusChanged(i, hasFocus) ==
    /\ IF hasFocus
       THEN LET f == RequestFocus(i, focused) IN
            /\ focused' = f
            /\ kbd' = (KbdAfterFocus(i, focused, kbd) \/ (f = i /\ ~custom[i]))
       ELSE /\ focused' = ClearFocus(i)
            /\ kbd' = FALSE
    /\ UNCHANGED <<enabled, focusable, ime, noFull, answered>>
    /\ UNCHANGED custom

(* The disabled prop, lines 437-443; setFocusable(false) drops focus.      *)
SetDisable(i, d) ==
    /\ enabled' = [enabled EXCEPT ![i] = ~d]
    /\ focusable' = [focusable EXCEPT ![i] = ~d]
    /\ focused' = IF d THEN ClearFocus(i) ELSE focused
    /\ UNCHANGED <<kbd, ime, noFull, answered>>
    /\ UNCHANGED custom

(* The readonly prop, lines 445-450.                                       *)
SetIsReadOnly(i, r) ==
    /\ focusable' = [focusable EXCEPT ![i] = ~r]
    /\ focused' = IF r THEN ClearFocus(i) ELSE focused
    /\ UNCHANGED <<kbd, enabled, ime, noFull, answered>>
    /\ UNCHANGED custom

(* The confirm-type prop, lines 375-391: a known value (null is "done")  *)
(* replaces the whole of imeOptions by its action; any other value        *)
(* leaves imeOptions as it is.                                             *)
SetConfirmType(i, v) ==
    /\ LET a == IF v = "null" THEN "done" ELSE v IN
       IF a \in ImeActions \ {"none"}
       THEN /\ ime' = [ime EXCEPT ![i] = a]
            /\ noFull' = [noFull EXCEPT ![i] = FALSE]
       ELSE UNCHANGED <<ime, noFull>>
    /\ UNCHANGED <<focused, kbd, enabled, focusable, answered>>
    /\ UNCHANGED custom

(* The android-fullscreen-mode prop, lines 480-487: sets or clears the   *)
(* no-fullscreen flags, keeping the rest of imeOptions.                    *)
SetFullscreenMode(i, isFullscreenMode) ==
    /\ noFull' = [noFull EXCEPT ![i] = ~isFullscreenMode]
    /\ UNCHANGED <<focused, kbd, enabled, focusable, ime, answered>>
    /\ UNCHANGED custom

(* The action ids the IME sends the focused view: its imeOptions action; *)
(* an <input> also gets IME_NULL from the Enter key.                      *)
EditorActions(i) ==
    IF i \in TextAreas THEN {ime[i]} \ {"none"}
    ELSE {ime[i], "null"} \ {"none"}

(* The editor action listener of LynxUIInput.createView, lines 26-42:     *)
(* every action it gets confirms; all but next also blur and consume the *)
(* action.  Next is left to TextView.onEditorAction, which moves focus to *)
(* the next focusable view.                                                *)
InputEditorAction(i, a) ==
    IF a # "next"
    THEN /\ focused' = ClearFocus(i)
         /\ kbd' = KbdAfterBlur(i)
    ELSE LET n == NextFocusable(i) IN
         IF n = NoView THEN UNCHANGED <<focused, kbd>>
         ELSE /\ focused' = n
              /\ kbd' = KbdAfterFocus(n, focused, kbd)

(* The editor action listener of LynxUITextArea.createView, lines 43-50, *)
(* and isConfirmEnter, lines 69-78: it confirms and blurs, and returns    *)
(* false, so TextView.onEditorAction goes on: next moves focus to the     *)
(* next focusable view, done hides the keyboard if the view is still the *)
(* one the InputMethodManager serves, which it may or may not be.          *)
TextAreaEditorAction(i, a) ==
    LET f1 == ClearFocus(i)
        k1 == KbdAfterBlur(i)
        n  == NextFocusable(i)
    IN  CASE a = "next" /\ n # NoView ->
                 /\ focused' = n
                 /\ kbd' = KbdAfterFocus(n, f1, k1)
          [] a = "done" ->
                 /\ focused' = f1
                 /\ kbd' \in {k1, FALSE}
          [] OTHER ->
                 /\ focused' = f1
                 /\ kbd' = k1

EditorAction(i, a) ==
    /\ focused = i
    /\ a \in EditorActions(i)
    /\ IF i \in TextAreas THEN TextAreaEditorAction(i, a) ELSE InputEditorAction(i, a)
    /\ UNCHANGED <<enabled, focusable, ime, noFull, answered>>
    /\ UNCHANGED custom

Next ==
    \E i \in Inputs :
        \/ \E b \in BOOLEAN : SetShowSoftInputOnFocus(i, b)
        \/ Tap(i)
        \/ Focus(i)
        \/ Blur(i)
        \/ \E b \in BOOLEAN : OnFocusChanged(i, b)
        \/ \E b \in BOOLEAN : SetDisable(i, b)
        \/ \E b \in BOOLEAN : SetIsReadOnly(i, b)
        \/ \E v \in ConfirmTypes : SetConfirmType(i, v)
        \/ \E b \in BOOLEAN : SetFullscreenMode(i, b)
        \/ \E a \in EditorActions(i) : EditorAction(i, a)

Spec == Init /\ [][Next]_vars

-----------------------------------------------------------------------------
(* Properties                                                              *)

(* Whatever path gives an input focus (a tap, the focus method, Lynx's    *)
(* onFocusChanged, a next editor action of another input), an input that *)
(* does not use a custom keyboard has the system keyboard once it has     *)
(* focus: the focus listener's showSoftInput covers the paths that do not *)
(* show it themselves.                                                     *)
FocusBringsKeyboard ==
    [][focused' # NoView /\ focused' # focused /\ ~custom[focused'] => kbd']_vars

(* No step of these handlers opens the system keyboard for an input that *)
(* uses a custom keyboard (show-soft-input-on-focus = false), nor when no *)
(* input has focus.                                                        *)
CustomKeyboardNeverOpened ==
    [][~kbd /\ kbd' => focused' # NoView /\ ~custom'[focused']]_vars

(* The system keyboard is shown only while an input has focus: every     *)
(* handler that takes focus away also hides it.                           *)
KeyboardOnlyWhileFocused == kbd => focused # NoView

(* Every call of the focus UI method calls its callback back.             *)
FocusAnswered == answered

(* A disabled input takes no touch: while disabled is set, the view is   *)
(* neither focusable nor userInteractionEnabled, whatever readonly says.  *)
DisabledNotFocusable == \A i \in Inputs : ~enabled[i] => ~focusable[i]

(* Once a page turned android-fullscreen-mode off for an input, the IME   *)
(* flags stay set until the page turns it back on.                         *)
NoFullscreenKept ==
    [][\A i \in Inputs : noFull[i] /\ ~noFull'[i] => SetFullscreenMode(i, TRUE)]_vars
=============================================================================
