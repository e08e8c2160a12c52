------------------------------ MODULE BankVault ------------------------------
(***************************************************************************)
(* bankVault.sv: the lock of the vault.  The stage machine, the keypad,    *)
(* the counting game and the code game run on clk (2 kHz); the two knock   *)
(* circuits run on FPGA_CLK1_50, from which the PLL derives clk.           *)
(*                                                                         *)
(* current_state follows the register next_state in every branch of        *)
(* state_logic, so next_state stands for both.  An input holds its value   *)
(* between two edges of the clock that samples it; the edge uses the value *)
(* held and the environment picks the next one.                            *)
(***************************************************************************)
EXTENDS Signals, FiniteSets

CONSTANTS Keys,        \* the keypad keys that get pressed
          MaxPressed,  \* how many of them at once
          XNums,       \* what kpdecode may output where it says 4'bxxxx
          AdcValues,   \* what the ADC interface delivers
          FastPerClk   \* edges of FPGA_CLK1_50 for one of clk: 25000 on the board

ASSUME VaultAssumption == /\ Keys \subseteq 0 .. 15
                          /\ XNums \subseteq 0 .. 15 /\ XNums # {}
                          /\ AdcValues \subseteq 0 .. 4095
                          /\ FastPerClk \in Nat \ {0}

VARIABLES reset_n,
          keys,              \* the keys held down
          kpc,               \* colseq: the column driven low
          next_state,        \* the stage register
          game_one_counter,
          game_one_bits,     \* gameOne: bits[19:15]
          mo_flag,           \* gameOne: victoryflag
          r_num,             \* r_num[i] is the register r_num_i
          joy_state,         \* joy_code
          knock,             \* GPIO_1[1], the knock sensor
          safe,              \* safe[0], safe[1]: the two knock circuits
          phase,             \* edges of FPGA_CLK1_50 since the last one of clk
          quiet              \* history: edges in a row that sampled knock high

clkVars == <<keys, kpc, next_state, game_one_counter, game_one_bits, mo_flag,
             r_num, joy_state>>
fastVars == <<knock, safe, quiet>>
vars == <<reset_n, clkVars, fastVars, phase>>

KP == INSTANCE Keypad
G1 == INSTANCE GameOne WITH bits <- game_one_bits, victoryflag <- mo_flag
G2 == INSTANCE JoyCode
ST == INSTANCE SafeTilt

start_up == 0
game_1   == 1
game_2   == 2
game_3   == 3
harder   == 4
victory  == 5

Code == [0 .. 3 -> 0 .. 7]

\* Bound of the history variable: the knock circuits forget in fewer edges.
QuietEnough == 5

TypeOK == /\ reset_n \in Bit
          /\ keys \subseteq Keys
          /\ KP!TypeOK
          /\ next_state \in start_up .. victory
          /\ game_one_counter \in 0 .. 7
          /\ G1!TypeOK
          /\ r_num \in Code
          /\ G2!TypeOK
          /\ knock \in Bit
          /\ safe \in [0 .. 1 -> ST!TiltReg]
          /\ phase \in 0 .. FastPerClk
          /\ quiet \in 0 .. QuietEnough
-----------------------------------------------------------------------------
KeySets == {held \in SUBSET Keys : Cardinality(held) <= MaxPressed}

\* Power-up: registers are low, the inputs arbitrary.
Init == /\ reset_n \in Bit
        /\ keys \in KeySets
        /\ KP!Init
        /\ next_state = start_up
        /\ game_one_counter = 0
        /\ G1!Init
        /\ r_num = [i \in 0 .. 3 |-> 0]
        /\ G2!Init
        /\ knock \in Bit
        /\ safe = [i \in 0 .. 1 |-> ST!TiltInit]
        /\ phase = 0
        /\ quiet = 0

In(stage) == Level(next_state = stage)

\* The slices of an ADC sample that become r_num_0 .. r_num_3: from bits 2, 6, 4, 0.
CodeOf(adcValue) == [i \in 0 .. 3 |-> Slice3(adcValue, <<4, 64, 16, 1>>[i + 1])]

\* joy_code's pass_flag and the inputs num_1 .. num_4: r_num_0 .. r_num_3.
james_flag == G2!PassFlag

\* GPIO_1[3]: low releases the lock.
LockOutput == Level(next_state # victory)

\* rgb_res, the active-low reset of the processor; KP_POWER is key d.
rgb_res == Level(reset_n = 1 \/ ~(KP!Hit(keys) /\ 13 \in KP!Num(keys)))

-----------------------------------------------------------------------------
\* Faults a bug in the code below could introduce; the properties notice them.

\* The counter is not cleared outside the game.
CounterKept(num) ==
  game_one_counter' = IF next_state = game_1 /\ num = game_one_bits
                        THEN (game_one_counter + 1) % 8 ELSE game_one_counter

\* The counter is one bit wider than its port.
CounterWide(num) ==
  game_one_counter' = IF next_state # game_1 THEN 0
                      ELSE IF num = game_one_bits THEN (game_one_counter + 1) % 16
                      ELSE game_one_counter

\* The code on display is frozen one stage late.
RandomNumbersThawed(adcValue) ==
  r_num' = IF reset_n = 0 THEN [i \in 0 .. 3 |-> 0]
           ELSE IF next_state = game_3 THEN r_num
           ELSE CodeOf(adcValue)

\* A copied line: both knock stages listen to the first circuit.
StageDoneCopied(num) ==
  \/ next_state = start_up /\ num = 11
  \/ next_state = game_1 /\ mo_flag = 1
  \/ next_state = game_2 /\ james_flag = 1
  \/ next_state \in {game_3, harder} /\ safe[0].unlocked_flag = 0

\* "Unlocked" taken by its name, without the inversions.
StageDoneUninverted(num) ==
  \/ next_state = start_up /\ num = 11
  \/ next_state = game_1 /\ mo_flag = 1
  \/ next_state = game_2 /\ james_flag = 1
  \/ next_state = game_3 /\ safe[0].unlocked_flag = 1
  \/ next_state = harder /\ safe[1].unlocked_flag = 1

\* The win of the code game counts only while the last digit is still held.
StageDoneHeld(num) ==
  \/ next_state = start_up /\ num = 11
  \/ next_state = game_1 /\ mo_flag = 1
  \/ next_state = game_2 /\ james_flag = 1 /\ num % 8 = r_num[3]
  \/ next_state = game_3 /\ safe[0].unlocked_flag = 0
  \/ next_state = harder /\ safe[1].unlocked_flag = 0
-----------------------------------------------------------------------------
\* rn_generator
RandomNumbers(adcValue) ==
  r_num' = IF reset_n = 0 THEN [i \in 0 .. 3 |-> 0]
           ELSE IF next_state = game_2 THEN r_num
           ELSE CodeOf(adcValue)

Counter(num) ==
  game_one_counter' = IF next_state # game_1 THEN 0
                      ELSE IF num = game_one_bits THEN (game_one_counter + 1) % 8
                      ELSE game_one_counter

\* state_handler: what lets the player out of each stage.
StageDone(num) == \/ next_state = start_up /\ num = 11          \* start_flag
                  \/ next_state = game_1 /\ mo_flag = 1
                  \/ next_state = game_2 /\ james_flag = 1
                  \/ next_state = game_3 /\ safe[0].unlocked_flag = 0
                  \/ next_state = harder /\ safe[1].unlocked_flag = 0

StateHandler(num) ==
  next_state' = IF reset_n = 0 THEN start_up
                ELSE IF StageDone(num) THEN next_state + 1
                ELSE next_state

\* One rising edge of clk that samples these inputs.
ClkWith(num, adcValue, adc_x) ==
  /\ phase = FastPerClk
  /\ phase' = 0
  /\ StateHandler(num)
  /\ Counter(num)
  /\ G1!Clk(In(game_1), reset_n, game_one_counter)
  /\ RandomNumbers(adcValue)
  /\ G2!Clk(In(game_2), reset_n, r_num, num, G2!PosMatch(adc_x))
  /\ KP!Clk(keys, reset_n)
  /\ keys' \in KeySets
  /\ UNCHANGED <<reset_n, fastVars>>

Clk == \E num \in KP!Num(keys), adcValue, adc_x \in AdcValues :
         ClkWith(num, adcValue, adc_x)

\* One rising edge of FPGA_CLK1_50.
Clk50 ==
  /\ phase < FastPerClk
  /\ phase' = phase + 1
  /\ safe' = [i \in 0 .. 1 |->
                ST!TiltClk(safe[i], knock, In(<<game_3, harder>>[i + 1]), reset_n)]
  /\ quiet' = IF reset_n = 0 \/ knock = 0 THEN 0
              ELSE IF quiet < QuietEnough THEN quiet + 1 ELSE quiet
  /\ knock' \in Bit
  /\ UNCHANGED <<reset_n, clkVars>>

\* The reset button goes down.  Only the stage register, the sequencer and
\* the debouncers listen to it without a clock.
ResetFall ==
  /\ reset_n = 1
  /\ reset_n' = 0
  /\ next_state' = start_up
  /\ KP!AsyncReset
  /\ safe' = [i \in 0 .. 1 |-> ST!TiltAsyncReset(safe[i])]
  /\ quiet' = 0
  /\ UNCHANGED <<keys, game_one_counter, game_one_bits, mo_flag, r_num,
                 joy_state, knock, phase>>

ResetRise ==
  /\ reset_n = 0
  /\ reset_n' = 1
  /\ UNCHANGED <<clkVars, fastVars, phase>>

Next == Clk \/ Clk50 \/ ResetFall \/ ResetRise

\* The clocks keep running; nobody has to touch the buttons.
Fairness == WF_vars(Clk) /\ WF_vars(Clk50)

Safety == Init /\ [][Next]_vars

Spec == Safety /\ Fairness
-----------------------------------------------------------------------------
\* What the vault promises of its lock (VaultStages), with the win signals of
\* the two puzzles as "solved".
Solved == \/ next_state = game_1 /\ mo_flag = 1
          \/ next_state = game_2 /\ james_flag = 1

Stages == INSTANCE VaultStages WITH Last <- victory, Puzzles <- {game_1, game_2},
                                    stage <- next_state, solved <- Solved

\* The player climbs one stage at a time, leaves a puzzle only after solving it
\* on this visit, and falls back only through reset, whatever stale flags and
\* counters the synchronous resets have not cleared yet (state_handler against
\* gameOne, joy_code and the asynchronous reset).
StagesSafe == Stages!Safety

\* The same with liveness: the one-edge pulse of james_flag and the win of the
\* wrapping counter are always followed by the next stage or by a reset.
StagesSpec == Stages!Spec

\* A puzzle is entered from scratch: nothing of an earlier visit survives, even
\* when an asynchronous reset left counter, bits and flags set (bankVault.sv
\* 190-199, gameOne.sv 9-11, joy_code.sv 67-68).
FreshStage ==
  [][next_state' # next_state =>
       /\ next_state' = game_1 => game_one_counter' = 0 /\ mo_flag' = 0
       /\ next_state' = game_2 => joy_state' = G2!s_one]_vars

\* The digit on display trails the counter by at most one edge, also across the
\* wrap from 7 to 0, so one press never counts more than twice.
DisplayLag ==
  next_state = game_1 /\ game_one_bits # G1!Off =>
    game_one_counter \in {game_one_bits, (game_one_bits + 1) % 8}

\* A knock stage is not left while the sensor has been quiet: unlocked_flag of a
\* stage just entered still says "knocked" (it is low while disabled) and must be
\* refreshed on the fast clock before state_handler reads it.
NoAdvanceWhenQuiet ==
  [][quiet = QuietEnough /\ next_state \in {game_3, harder}
       => next_state' \in {next_state, start_up}]_vars

\* Why NoAdvanceWhenQuiet holds: reset keeps the stage machine at the start, a run
\* of high samples fills both debouncers step by step, and once they are full the
\* knock stage that is on has seen it by the time clk comes round.
ResetHolds == reset_n = 0 => next_state = start_up /\ quiet = 0

QuietFills ==
  \A i \in 0 .. 1 :
    /\ quiet = 0 => safe[i].debounce.Q1 = 0
    /\ quiet = 1 => safe[i].debounce.Q1 = 1 /\ safe[i].debounce.Q2 = 0
    /\ quiet >= 2 => safe[i].debounce.Q1 = 1 /\ safe[i].debounce.Q2 = 1
    /\ quiet = 2 => safe[i].debounce.count = 0
    /\ quiet = 3 => safe[i].debounce.count = 1
    /\ quiet >= 4 => safe[i].debounce.debouncedInput = 1

FlagFresh ==
  quiet = QuietEnough /\ phase >= 1 =>
    /\ next_state = game_3 => safe[0].unlocked_flag = 1
    /\ next_state = harder => safe[1].unlocked_flag = 1

QuietInv == ResetHolds /\ QuietFills /\ FlagFresh

\* Someone who keeps shaking the safe gets from the knock stages to the open vault:
\* the sensor held low passes both debouncers and both stages, and GPIO_1[3] goes low.
ShakenOpen ==
  next_state \in {game_3, harder} ~>
    (LockOutput = 0 \/ knock = 1 \/ reset_n = 0)

\* A counter that has reached 7 takes the player out of the first game.
CountedOut ==
  (next_state = game_1 /\ game_one_counter = 7) ~> (next_state # game_1)
=============================================================================
