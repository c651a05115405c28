CONSTANTS
    a = a
    b = b
    Inputs = {a, b}
    Order <- InputThenTextArea
    TextAreas = {b}
    ConfirmTypes = {"next", "done", "send", "null", "other"}

SPECIFICATION Spec

PROPERTY NoFullscreenKept
