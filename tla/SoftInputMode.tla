---------------------------- MODULE SoftInputMode ----------------------------
(***************************************************************************)
(* The soft-input mode of the Activity window, as the Android input         *)
(* elements of lynx_xelement_input (LynxUIBaseInput.kt, LynxEditText.kt)    *)
(* change it.  Every input element of a page writes the same window:        *)
(*                                                                         *)
(*  - show-soft-input-on-focus = false stashes the window's state bits and *)
(*    writes a mode meant to keep the keyboard hidden; = true writes the   *)
(*    stash back (setShowSoftInputOnFocus);                                 *)
(*  - android-set-soft-input-mode records an adjust mode on the view       *)
(*    (setSoftInputMode, updateInputMode), which the view writes to the    *)
(*    window whenever it is attached (onAttachedToWindow).                  *)
(*                                                                         *)
(* All of this runs on the UI thread, one setter or callback at a time, so *)
(* each is one action.  A mode is the int of WindowManager.LayoutParams:   *)
(* bits 0-3 the state (SOFT_INPUT_MASK_STATE), bits 4-7 the adjust mode.   *)
(* Inputs inside an x-overlay-ng write the overlay's window instead; the   *)
(* model has one window and no overlay.                                    *)
(***************************************************************************)
EXTENDS Integers, Bitwise

CONSTANTS
    Inputs,          \* the input elements of the page
    InitialModes,    \* softInputMode values the Activity window may start with
    OnChangeOnly     \* is a prop setter called only when the prop's value changes

SOFT_INPUT_MASK_STATE == 15
SOFT_INPUT_STATE_UNSPECIFIED == 0
SOFT_INPUT_STATE_ALWAYS_HIDDEN == 3
SOFT_INPUT_ADJUST_UNSPECIFIED == 0
SOFT_INPUT_ADJUST_RESIZE == 16
SOFT_INPUT_ADJUST_PAN == 32
SOFT_INPUT_ADJUST_NOTHING == 48
LYNX_EDIT_TEXT_LIGHT_INPUT_MODE_UNDEFINED == -1

ModeValues == {"unspecified", "nothing", "pan", "resize", "other"}

VARIABLES
    window,      \* the window's attributes.softInputMode
    custom,      \* per input: mUseCustomKeyboard
    stash,       \* per input: mSoftInputModeStateStash
    adjust,      \* per input: LynxEditText.mAdjustInputMode
    lastHide,    \* who wrote the window last and the mode before, if that write hid the keyboard
    origin       \* the mode the window started with

vars == <<window, custom, stash, adjust, lastHide, origin>>

NoHide == [by |-> "none"]

TypeOK ==
    /\ window \in Nat
    /\ custom \in [Inputs -> BOOLEAN]
    /\ stash \in [Inputs -> Nat]
    /\ adjust \in [Inputs -> {LYNX_EDIT_TEXT_LIGHT_INPUT_MODE_UNDEFINED} \cup 0..255]
    /\ lastHide \in [by : Inputs, prev : Nat] \cup {NoHide}

-----------------------------------------------------------------------------
(* Window.setSoftInputMode(mode) of the Android framework: a mode of       *)
(* SOFT_INPUT_STATE_UNSPECIFIED (0) leaves the attribute as it is.         *)
setSoftInputMode(cur, mode) ==
    IF mode # SOFT_INPUT_STATE_UNSPECIFIED THEN mode ELSE cur

(* The mode show-soft-input-on-focus = false writes (lines 460-464): the   *)
(* current mode xor SOFT_INPUT_MASK_STATE, or SOFT_INPUT_STATE_ALWAYS_HIDDEN. *)
HiddenMode(cur) == (cur ^^ SOFT_INPUT_MASK_STATE) | SOFT_INPUT_STATE_ALWAYS_HIDDEN

(* The mode show-soft-input-on-focus = true writes (lines 469-472): the    *)
(* current mode xor SOFT_INPUT_MASK_STATE, or the stashed state.          *)
RestoredMode(cur, s) == (cur ^^ SOFT_INPUT_MASK_STATE) | s

(* setSoftInputMode(value), lines 489-501: the adjust mode a value names; *)
(* any other string gives SOFT_INPUT_ADJUST_UNSPECIFIED.                   *)
AdjustOf(v) ==
    CASE v = "nothing" -> SOFT_INPUT_ADJUST_NOTHING
      [] v = "pan"     -> SOFT_INPUT_ADJUST_PAN
      [] v = "resize"  -> SOFT_INPUT_ADJUST_RESIZE
      [] OTHER         -> SOFT_INPUT_ADJUST_UNSPECIFIED

-----------------------------------------------------------------------------
Init ==
    /\ window \in InitialModes
    /\ custom = [i \in Inputs |-> FALSE]
    /\ stash = [i \in Inputs |-> SOFT_INPUT_STATE_UNSPECIFIED]
    /\ adjust = [i \in Inputs |-> LYNX_EDIT_TEXT_LIGHT_INPUT_MODE_UNDEFINED]
    /\ lastHide = NoHide
    /\ origin = window

(* Mutant: the whole mode stashed, adjust bits included.                  *)
HideKeyboardWholeStash(i) ==
    /\ OnChangeOnly => ~custom[i]
    /\ custom' = [custom EXCEPT ![i] = TRUE]
    /\ stash' = [stash EXCEPT ![i] = window]
    /\ window' = setSoftInputMode(window, HiddenMode(window))
    /\ lastHide' = [by |-> i, prev |-> window]
    /\ UNCHANGED <<adjust, origin>>

(* setShowSoftInputOnFocus(false), lines 457-466.                          *)
HideKeyboard(i) ==
    /\ OnChangeOnly => ~custom[i]
    /\ custom' = [custom EXCEPT ![i] = TRUE]
    /\ stash' = [stash EXCEPT ![i] = window & SOFT_INPUT_MASK_STATE]
    /\ window' = setSoftInputMode(window, HiddenMode(window))
    /\ lastHide' = [by |-> i, prev |-> window]
    /\ UNCHANGED <<adjust, origin>>

(* setShowSoftInputOnFocus(true), lines 467-475: also the prop's default, *)
(* so it runs when a page sets the prop to true or removes it.            *)
ShowKeyboard(i) ==
    /\ OnChangeOnly => custom[i]
    /\ custom' = [custom EXCEPT ![i] = FALSE]
    /\ window' = setSoftInputMode(window, RestoredMode(window, stash[i]))
    /\ lastHide' = NoHide
    /\ UNCHANGED <<stash, adjust, origin>>

(* android-set-soft-input-mode: setSoftInputMode(value) and                *)
(* LynxEditText.updateInputMode (lines 126-128); the window is untouched  *)
(* until the view is next attached.                                       *)
SetAdjust(i, v) ==
    /\ adjust' = [adjust EXCEPT ![i] = AdjustOf(v)]
    /\ UNCHANGED <<window, custom, stash, lastHide, origin>>

(* Mutant: the view writes its adjust mode even when none was set.       *)
AttachUnguarded(i) ==
    /\ window' = setSoftInputMode(window, adjust[i])
    /\ lastHide' = NoHide
    /\ UNCHANGED <<custom, stash, adjust, origin>>

(* LynxEditText.onAttachedToWindow (lines 117-124) and the listener of     *)
(* createView (lines 139-150): a view with an adjust mode writes it, as    *)
(* the whole mode, to the window each time it is attached.                *)
Attach(i) ==
    /\ adjust[i] # LYNX_EDIT_TEXT_LIGHT_INPUT_MODE_UNDEFINED
    /\ window' = setSoftInputMode(window, adjust[i])
    /\ lastHide' = NoHide
    /\ UNCHANGED <<custom, stash, adjust, origin>>

Next ==
    \E i \in Inputs :
        \/ HideKeyboard(i)
        \/ ShowKeyboard(i)
        \/ \E v \in ModeValues : SetAdjust(i, v)
        \/ Attach(i)

Spec == Init /\ [][Next]_vars

-----------------------------------------------------------------------------
(* Properties                                                              *)

AdjustBits(m) == m \div 16

(* Turning show-soft-input-on-focus off or on never changes how the window *)
(* adjusts to the keyboard (resize, pan, nothing): only the state bits of *)
(* the mode are the toggle's to change, whatever other inputs attached    *)
(* with their own adjust mode in between.                                 *)
ToggleKeepsAdjust ==
    [][\A i \in Inputs :
         HideKeyboard(i) \/ ShowKeyboard(i) => AdjustBits(window') = AdjustBits(window)]_vars

(* While an input has show-soft-input-on-focus off, the window's state is *)
(* SOFT_INPUT_STATE_ALWAYS_HIDDEN, the mode lines 460-464 mean to write.   *)
HiddenWhileCustom ==
    (\E i \in Inputs : custom[i]) =>
        window & SOFT_INPUT_MASK_STATE = SOFT_INPUT_STATE_ALWAYS_HIDDEN

(* Turning show-soft-input-on-focus back on right after turning it off    *)
(* gives the window back the mode it had before.                          *)
RestoredAfterOwnToggle ==
    [][lastHide # NoHide /\ ShowKeyboard(lastHide.by) => window' = lastHide.prev]_vars

(* Once every input that turned the keyboard off has turned it back on,   *)
(* and no input wrote an adjust mode, the window has its initial mode.    *)
WindowRestoredWhenAllOn ==
    /\ \A i \in Inputs : ~custom[i]
    /\ \A i \in Inputs : adjust[i] = LYNX_EDIT_TEXT_LIGHT_INPUT_MODE_UNDEFINED
    => window = origin
=============================================================================
