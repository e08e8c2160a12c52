------------------------------ MODULE KeypadScan ------------------------------
(***************************************************************************)
(* The scanner (Keypad) with hands on its keys: any set of at most         *)
(* MaxPressed keys is down at any time.                                    *)
(***************************************************************************)
EXTENDS Keypad, FiniteSets

CONSTANTS Keys, MaxPressed

VARIABLES reset_n, keys

vars == <<reset_n, keys, kpc>>

KeySets == {held \in SUBSET Keys : Cardinality(held) <= MaxPressed}

ScanInit == /\ Init
            /\ reset_n \in Bit
            /\ keys \in KeySets

ScanTypeOK == /\ TypeOK
              /\ reset_n \in Bit
              /\ keys \in KeySets

ScanClk == /\ Clk(keys, reset_n)
           /\ UNCHANGED <<reset_n, keys>>

\* A finger presses or releases one key.
Press == \E k \in Keys \ keys : /\ keys' = keys \cup {k}
                                /\ keys' \in KeySets
                                /\ UNCHANGED <<reset_n, kpc>>

Release == \E k \in keys : /\ keys' = keys \ {k}
                           /\ keys' \in KeySets
                           /\ UNCHANGED <<reset_n, kpc>>

ResetFall == /\ reset_n = 1
             /\ reset_n' = 0
             /\ AsyncReset
             /\ UNCHANGED keys

ResetRise == /\ reset_n = 0
             /\ reset_n' = 1
             /\ UNCHANGED <<keys, kpc>>
-----------------------------------------------------------------------------
Reported(k) == Hit(keys) /\ Num(keys) = {k}

\* The column a key is wired to.
ColumnOf(k) == CHOOSE c \in Lines : \E r \in Lines : NumAt[c][r] = k

\* The scan stops on the first key: it stays the reported one until it is released
\* or a second key joins it in its own column, whatever else is pressed.
FirstKeyStays ==
  [][\A k \in Keys :
       (Reported(k) /\ k \in keys' /\ reset_n' = 1)
         => \/ Reported(k)'
            \/ \E other \in keys' \ keys : ColumnOf(other) = ColumnOf(k)]_vars
=============================================================================
