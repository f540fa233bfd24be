--------------------------- MODULE MCOtpThrottle ---------------------------
(***************************************************************************)
(* A small instance of OtpThrottle for TLC.                                *)
(***************************************************************************)
EXTENDS OtpThrottle

CONSTANTS plain, spaced, short  \* one number in two spellings, and no number

SmallNormalised ==
    [p \in {plain, spaced, short} |-> IF p = short THEN NoNumber ELSE plain]
=============================================================================
