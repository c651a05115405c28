--------------------------- MODULE MCSoftInputMode ---------------------------
EXTENDS SoftInputMode

(* Window modes: all zero (no windowSoftInputMode in the manifest),        *)
(* adjustResize with stateHidden, and adjustNothing with stateAlwaysVisible. *)
MCInitialModes == {0, SOFT_INPUT_ADJUST_RESIZE + 2, SOFT_INPUT_ADJUST_NOTHING + 5}
ResizeHidden == {SOFT_INPUT_ADJUST_RESIZE + 2}
AllZero == {0}
=============================================================================
