------------------------- MODULE MCLynxErrorParser -------------------------
EXTENDS LynxErrorParser, TLC

\* Codes at both ends of each channel's hundred, just outside them, a
\* negative code, and a missing one.
MCCodes == {Absent, -1, 16010199, 16010200, 16010299, 16010300, 16010301, 16010400}

\* The decoded error field: not JSON, no rawError, no stack, or a stack of
\* 0, 2 or 4 frames (4 is over MAX_STACK_FRAME_LEN).
MCErrors == {NotJson, NoRawError, NoStack, 0, 2, 4}

MCInputs ==
    [json : BOOLEAN, code : MCCodes, error : MCErrors,
     mts : {{"record"}, {"throw"}, {"record", "throw"}}]
=============================================================================
