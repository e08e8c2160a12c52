---------------------------- MODULE SampleHistory ----------------------------
(* How long a sampled input has been what it is, counted up to Window.      *)
EXTENDS Integers

CONSTANT Window

ASSUME WindowAssumption == Window \in Nat /\ Window >= 4

\* How many samples in a row are equal, after one more.
Streak(stable, last, sample) == IF sample # last THEN 1
                                ELSE IF stable < Window THEN stable + 1 ELSE stable
=============================================================================
