----------------------------- MODULE VaultStages -----------------------------
(***************************************************************************)
(* What the vault promises, seen from its lock: the player climbs through  *)
(* the stages one at a time, a puzzle stage is left only after that very   *)
(* visit to the stage has been solved, a solved puzzle is never forgotten, *)
(* and reset throws the player back to the beginning from anywhere.        *)
(***************************************************************************)
EXTENDS Naturals

CONSTANTS Last,     \* the stage in which the vault is open
          Puzzles   \* the stages below it whose circuit reports a win

VARIABLES stage,    \* the stage the player has reached
          solved    \* has the puzzle of this stage been solved on this visit?

vars == <<stage, solved>>

TypeOK == /\ stage \in 0 .. Last
          /\ solved \in BOOLEAN

Init == /\ stage = 0
        /\ solved = FALSE

Solve == /\ stage \in Puzzles
         /\ ~solved
         /\ solved' = TRUE
         /\ UNCHANGED stage

Advance == /\ stage < Last
           /\ stage \in Puzzles => solved
           /\ stage' = stage + 1
           /\ solved' = FALSE

Reset == /\ stage' = 0
         /\ solved' = FALSE

Next == Solve \/ Advance \/ Reset

Safety == Init /\ [][Next]_vars

\* A solved puzzle is followed by the next stage (or by a reset).
Spec == Safety /\ WF_vars(solved /\ Advance)
=============================================================================
