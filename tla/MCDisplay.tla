------------------------------- MODULE MCDisplay -------------------------------
(* Display for TLC.                                                          *)
EXTENDS Display

Quadrants == BOOLEAN \X BOOLEAN

\* Below and to the left.
AtRest == {<<FALSE, FALSE>>}
=============================================================================
