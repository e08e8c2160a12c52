---------------------------- MODULE DebounceFilter ----------------------------
(***************************************************************************)
(* One debouncer (debounce.sv) on its own, with a history of its raw       *)
(* input, so that what it filters can be compared with its promise.        *)
(***************************************************************************)
EXTENDS Debounce, SampleHistory

VARIABLES reset_n, rawInput,
          d,        \* the registers of the debouncer
          last,     \* history: the sample of the last edge
          stable    \* history: how many samples in a row equal it, up to Window

vars == <<reset_n, rawInput, d, last, stable>>

TypeOK == /\ reset_n \in Bit
          /\ rawInput \in Bit
          /\ d \in DebounceReg
          /\ last \in Bit
          /\ stable \in 1 .. Window

\* Registers power up low, which is also what reset makes of them: as if the
\* input had been low for as long as the two flip-flops reach back.
Init == /\ reset_n \in Bit
        /\ rawInput \in Bit
        /\ d = DebounceReset
        /\ last = 0
        /\ stable = 2

\* The raw input may change at any time, and together with the reset.
Input == rawInput' \in Bit /\ UNCHANGED <<reset_n, d, last, stable>>

\* One rising edge of the clock.
Clk == /\ rawInput' \in Bit
       /\ UNCHANGED reset_n
       /\ IF reset_n = 0 THEN UNCHANGED <<d, last, stable>>
          ELSE /\ d' = DebounceClk(d, rawInput)
               /\ last' = rawInput
               /\ stable' = Streak(stable, last, rawInput)

ResetFall == /\ reset_n = 1
             /\ reset_n' = 0
             /\ d' = DebounceReset
             /\ last' = 0
             /\ stable' = 2
             /\ rawInput' \in Bit

ResetRise == /\ reset_n = 0
             /\ reset_n' = 1
             /\ UNCHANGED <<rawInput, d, last, stable>>

Next == Input \/ Clk \/ ResetFall \/ ResetRise

Spec == Init /\ [][Next]_vars
-----------------------------------------------------------------------------
\* An edge that changes the output has seen the last three samples agree on the
\* new value: a glitch of one or two samples never gets through (debounce.sv
\* 61-86).
GlitchFiltered ==
  [][d'.debouncedInput # d.debouncedInput /\ reset_n' = 1
       => stable >= 3 /\ d'.debouncedInput = last]_vars

\* After four equal samples the output has followed: the counter that measures
\* stability restarts after each look and still never misses a stable input.
SettlesInFour == stable >= 4 => d.debouncedInput = last
=============================================================================
