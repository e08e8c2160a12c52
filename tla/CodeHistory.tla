------------------------------ MODULE CodeHistory ------------------------------
(***************************************************************************)
(* BankVault with a history of the code game: for every code the display   *)
(* could have shown, how many of its digits, in order, have been on the    *)
(* keypad with the stick to the right since the game was entered.  The     *)
(* history does not know which code the circuit compares with, or when.    *)
(***************************************************************************)
EXTENDS BankVault

VARIABLE entered    \* [Codes -> 0 .. 4]

Codes == {CodeOf(v) : v \in AdcValues}

histVars == <<vars, entered>>

NoneEntered == [c \in Codes |-> 0]

HistInit == Init /\ entered = NoneEntered

\* The next digit of code c, entered at this edge?
Continues(c, num, adc_x) ==
  entered[c] < 4 /\ num % 8 = c[entered[c]] /\ G2!PosMatch(adc_x)

HistClk == \E num \in KP!Num(keys), adcValue, adc_x \in AdcValues :
             /\ ClkWith(num, adcValue, adc_x)
             /\ entered' = IF next_state # game_2 THEN NoneEntered
                           ELSE [c \in Codes |->
                                   IF Continues(c, num, adc_x) THEN entered[c] + 1
                                                               ELSE entered[c]]

HistNext == \/ HistClk
            \/ Clk50 /\ UNCHANGED entered
            \/ ResetFall /\ entered' = NoneEntered
            \/ ResetRise /\ UNCHANGED entered

HistSpec == HistInit /\ [][HistNext]_histVars

\* Both clocks run (BankVault).
HistFairSpec == HistSpec /\ Fairness

\* The code game is won exactly when the code on display, as it is displayed at
\* that moment, was entered digit by digit since the game began: the code does
\* not change under the player, no digit is skipped, asked for twice or carried
\* over from an earlier visit (joy_code.sv 66-84, bankVault.sv 159-177).
WonByCode ==
  next_state = game_2 => /\ r_num \in Codes
                         /\ james_flag = Level(entered[r_num] = 4)
=============================================================================
