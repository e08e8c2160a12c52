-------------------------------- MODULE Keypad --------------------------------
(***************************************************************************)
(* colseq.sv and kpdecode.sv: the sequencer drives one column of the 4x4   *)
(* keypad low at a time and stops on a column in which exactly one row is  *)
(* pulled low; the decoder turns column and row into a number.  A column   *)
(* or a row is named by the index of its low bit.  The matrix itself is    *)
(* external: a pressed key joins its row to its column.                    *)
(***************************************************************************)
EXTENDS Signals

CONSTANT XNums  \* what the netlist may put on num where the code says 4'bxxxx

VARIABLE kpc    \* the column driven low; NoColumn is any other pattern

Lines == 0 .. 3
NoColumn == 4

\* NumAt[column][row], the two nested cases of kpdecode.
NumAt == [c \in Lines |->
            [r \in Lines |-> CASE c = 3 -> <<14, 7, 4, 1>>[r + 1]
                               [] c = 2 -> <<0, 8, 5, 2>>[r + 1]
                               [] c = 1 -> <<15, 9, 6, 3>>[r + 1]
                               [] c = 0 -> <<13, 12, 11, 10>>[r + 1]]]

TypeOK == kpc \in Lines \cup {NoColumn}

\* Power-up finds kpc at its reset value or at no valid pattern.
Init == kpc \in {3, NoColumn}

\* The rows that the pressed keys (a set of key numbers) pull low.
LowRows(keys) == {r \in Lines : kpc \in Lines /\ NumAt[kpc][r] \in keys}

\* Exactly one row is low: the sequencer stays and the decoder reports a hit.
Hit(keys) == \E r \in Lines : LowRows(keys) = {r}

\* The values kpdecode may put on num.
Num(keys) == IF Hit(keys) THEN {NumAt[kpc][r] : r \in LowRows(keys)} ELSE XNums

\* Fault: the sequencer skips a column.
NextColumnSkips(column) == IF column \in 2 .. 3 THEN column - 2 ELSE 3

\* nextState of colseq when no row, or more than one, is low.
NextColumn(column) == IF column \in 1 .. 3 THEN column - 1 ELSE 3

AsyncReset == kpc' = 3

\* Fault: the sequencer does not wait for the key to be released.
ClkRestless(keys, reset_n) ==
  \/ reset_n = 0 /\ kpc' = 3
  \/ reset_n = 1 /\ kpc' = NextColumn(kpc)

\* One rising edge of clk.
Clk(keys, reset_n) ==
  \/ reset_n = 0 /\ kpc' = 3
  \/ reset_n = 1 /\ Hit(keys) /\ UNCHANGED kpc
  \/ reset_n = 1 /\ ~Hit(keys) /\ kpc' = NextColumn(kpc)
=============================================================================
