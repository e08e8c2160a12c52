------------------------------- MODULE Signals -------------------------------
(***************************************************************************)
(* Vocabulary shared by the hardware modules: a one-bit signal is 0 or 1,  *)
(* a vector is the natural number it encodes.                              *)
(***************************************************************************)
EXTENDS Naturals

Bit == {0, 1}

\* The level of a combinational condition.
Level(cond) == IF cond THEN 1 ELSE 0

\* Three bits of a vector, from the bit of the given weight upwards.
Slice3(v, weight) == (v \div weight) % 8
=============================================================================
