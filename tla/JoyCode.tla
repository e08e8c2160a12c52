------------------------------- MODULE JoyCode -------------------------------
(***************************************************************************)
(* joy_code.sv: the code game.  current_state is a wire that follows the   *)
(* register next_state in every branch of state_logic, so one variable     *)
(* carries both.                                                           *)
(***************************************************************************)
EXTENDS Signals

VARIABLE joy_state      \* the register next_state, output as joy_state

s_one == 0
s_pass == 4

TypeOK == joy_state \in s_one .. s_pass

Init == joy_state = s_one

\* adc_x > 12'h700 : the stick is held to the right.
PosMatch(adc_x) == adc_x > 1792

PassFlag == Level(joy_state = s_pass)

\* Does the low half of the keypad number match digit i + 1 of the code?
KeyMatches(key_press, num, i) == key_press % 8 = num[i]

\* One rising edge of clk; num[i] is the input num_(i+1).
Clk(enable, reset_n, num, key_press, pos_match) ==
  \/ /\ reset_n = 0 \/ enable = 0
     /\ joy_state' = s_one
  \/ /\ reset_n = 1 /\ enable = 1
     /\ \/ /\ joy_state < s_pass
           /\ joy_state' = IF KeyMatches(key_press, num, joy_state) /\ pos_match
                             THEN joy_state + 1 ELSE joy_state
        \/ /\ joy_state = s_pass
           /\ joy_state' = s_one
=============================================================================
