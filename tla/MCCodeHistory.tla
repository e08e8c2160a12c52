---------------------------- MODULE MCCodeHistory ----------------------------
(* CodeHistory for TLC.                                                      *)
EXTENDS CodeHistory

\* Stick left and right; the codes 4-4-1-0 and 2-4-0-1 share digits.
TwoCodes == {272, 2313}
=============================================================================
