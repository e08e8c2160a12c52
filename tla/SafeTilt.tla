------------------------------- MODULE SafeTilt -------------------------------
(***************************************************************************)
(* safe_tilt_and_unlock.sv: a debounced knock sensor on CLOCK_50 and the   *)
(* flag derived from it.  bankVault instantiates it twice; as for the      *)
(* debouncer, the registers are a record and an edge is a function of it.  *)
(***************************************************************************)
EXTENDS Debounce

TiltReg == [debounce : DebounceReg, output_elmag : Bit, unlocked_flag : Bit]

\* Power-up: every register low.
TiltInit == [debounce |-> DebounceReset, output_elmag |-> 0, unlocked_flag |-> 0]

\* The falling edge of reset_n reaches the debouncer at once, the two
\* output registers only at the next clock edge.
TiltAsyncReset(t) == [t EXCEPT !.debounce = DebounceReset]

Unlocked(t, reset_n, enable) ==
  reset_n = 1 /\ enable = 1 /\ t.debounce.debouncedInput = 1

\* One rising edge of CLOCK_50.
TiltClk(t, knock_input, enable, reset_n) ==
  [debounce |-> IF reset_n = 0 THEN DebounceReset
                               ELSE DebounceClk(t.debounce, knock_input),
   output_elmag  |-> Level(~Unlocked(t, reset_n, enable)),
   unlocked_flag |-> Level(Unlocked(t, reset_n, enable))]
=============================================================================
