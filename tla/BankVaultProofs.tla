---------------------------- MODULE BankVaultProofs ----------------------------
(***************************************************************************)
(* Theorems about BankVault for every keypad, every ADC, every ratio of    *)
(* the two clocks.                                                         *)
(***************************************************************************)
EXTENDS CodeHistory, TLAPS

-----------------------------------------------------------------------------
(* Typing lemmas about the parts.                                          *)

\* A code is made of three-bit digits, whatever the ADC says.
LEMMA CodeTyped == ASSUME NEW v \in Nat PROVE CodeOf(v) \in Code
<1>1. \A i \in 0 .. 3 : Slice3(v, <<4, 64, 16, 1>>[i + 1]) \in 0 .. 7
  <2>1. \A i \in 0 .. 3 : i = 0 \/ i = 1 \/ i = 2 \/ i = 3
    OBVIOUS
  <2>2. /\ (v \div 4) % 8 \in 0 .. 7
        /\ (v \div 64) % 8 \in 0 .. 7
        /\ (v \div 16) % 8 \in 0 .. 7
        /\ (v \div 1) % 8 \in 0 .. 7
    OBVIOUS
  <2>. QED BY <2>1, <2>2 DEF Slice3
<1>. QED BY <1>1 DEF CodeOf, Code

\* An edge keeps the registers of a debouncer in their ranges.
LEMMA DebounceTyped ==
  ASSUME NEW d \in ST!DebounceReg, NEW rawInput \in Bit
  PROVE  ST!DebounceClk(d, rawInput) \in ST!DebounceReg
BY DEF ST!DebounceClk, ST!DebounceReg, ST!Counting, ST!Differ, ST!Settled,
       ST!Threshold, ST!Bit, Bit

\* So does an edge of a knock circuit, whether in reset or not.
LEMMA TiltTyped ==
  ASSUME NEW t \in ST!TiltReg, NEW k \in Bit, NEW enable, NEW r
  PROVE  ST!TiltClk(t, k, enable, r) \in ST!TiltReg
<1>1. ST!DebounceReset \in ST!DebounceReg
  BY DEF ST!DebounceReset, ST!DebounceReg, ST!Bit, ST!Threshold
<1>2. ST!DebounceClk(t.debounce, k) \in ST!DebounceReg
  BY DebounceTyped DEF ST!TiltReg
<1>. QED BY <1>1, <1>2 DEF ST!TiltClk, ST!TiltReg, ST!Level, ST!Bit

LEMMA TiltResetTyped ==
  ASSUME NEW t \in ST!TiltReg
  PROVE  ST!TiltAsyncReset(t) \in ST!TiltReg
BY DEF ST!TiltAsyncReset, ST!TiltReg, ST!DebounceReset, ST!DebounceReg, ST!Bit,
       ST!Threshold
-----------------------------------------------------------------------------
(* Type correctness.                                                       *)

\* Every value of the power-up is in its register's range.
LEMMA InitTyped == Init => TypeOK
<1>1. ST!TiltInit \in ST!TiltReg
  BY DEF ST!TiltInit, ST!TiltReg, ST!DebounceReset, ST!DebounceReg, ST!Bit, ST!Threshold
<1>. QED
  BY <1>1, VaultAssumption
  DEF Init, TypeOK, KeySets, KP!Init, KP!TypeOK, KP!Lines, KP!NoColumn, G1!Init,
      G1!TypeOK, G1!CounterRange, G1!Bit, G2!Init, G2!TypeOK, G2!s_one, G2!s_pass,
      start_up, victory, Code, QuietEnough, Bit

\* An edge of clk keeps every register in range.
LEMMA ClkTyped == TypeOK /\ Clk => TypeOK'
<1>. SUFFICES ASSUME TypeOK, NEW num, NEW adcValue \in AdcValues, NEW adc_x,
                     ClkWith(num, adcValue, adc_x)
              PROVE  TypeOK'
  BY DEF Clk
<1>. USE DEF ClkWith
<1>1. next_state' \in start_up .. victory
  BY DEF TypeOK, StateHandler, StageDone, start_up, game_1, game_2, game_3, harder, victory
<1>2. game_one_counter' \in 0 .. 7
  BY DEF TypeOK, Counter
<1>3. G1!TypeOK'
  BY DEF TypeOK, G1!TypeOK, G1!CounterRange, G1!Clk, G1!Cleared, G1!Play, G1!StateBits,
         G1!Level, G1!Bit
<1>4. r_num' \in Code
  <2>0. adcValue \in Nat
    BY VaultAssumption
  <2>1. CodeOf(adcValue) \in Code
    BY <2>0, CodeTyped
  <2>. QED BY <2>1 DEF TypeOK, RandomNumbers, Code
<1>5. G2!TypeOK'
  BY DEF TypeOK, G2!TypeOK, G2!Clk, G2!s_one, G2!s_pass
<1>6. KP!TypeOK'
  BY DEF TypeOK, KP!TypeOK, KP!Clk, KP!NextColumn, KP!Lines, KP!NoColumn
<1>7. keys' \subseteq Keys /\ phase' \in 0 .. FastPerClk
  BY VaultAssumption DEF KeySets
<1>. QED BY <1>1, <1>2, <1>3, <1>4, <1>5, <1>6, <1>7 DEF TypeOK, fastVars

\* So does an edge of the fast clock.
LEMMA Clk50Typed == TypeOK /\ Clk50 => TypeOK'
<1>. SUFFICES ASSUME TypeOK, Clk50 PROVE TypeOK'
  OBVIOUS
<1>1. safe' \in [0 .. 1 -> ST!TiltReg]
  BY TiltTyped DEF TypeOK, Clk50
<1>2. quiet' \in 0 .. QuietEnough
  BY DEF TypeOK, Clk50, QuietEnough
<1>3. phase' \in 0 .. FastPerClk
  BY VaultAssumption DEF TypeOK, Clk50
<1>. QED
  BY <1>1, <1>2, <1>3 DEF TypeOK, Clk50, clkVars, KP!TypeOK, G1!TypeOK, G2!TypeOK

\* So do the two edges of the reset button.
LEMMA ResetTyped == TypeOK /\ (ResetFall \/ ResetRise) => TypeOK'
<1>1. ASSUME TypeOK, ResetFall PROVE TypeOK'
  <2>1. safe' \in [0 .. 1 -> ST!TiltReg]
    BY <1>1, TiltResetTyped DEF TypeOK, ResetFall
  <2>. QED
    BY <1>1, <2>1 DEF TypeOK, ResetFall, KP!TypeOK, KP!AsyncReset, KP!Lines, G1!TypeOK,
                      G2!TypeOK, Bit, start_up, victory, QuietEnough
<1>2. ASSUME TypeOK, ResetRise PROVE TypeOK'
  BY <1>2 DEF TypeOK, ResetRise, clkVars, fastVars, Bit, KP!TypeOK, G1!TypeOK, G2!TypeOK
<1>. QED BY <1>1, <1>2

\* Every register and counter stays in its width, every history in its bound: the
\* three-bit counter wraps and the stage never leaves its six values.
THEOREM TypeCorrect == Safety => []TypeOK
<1>1. TypeOK /\ [Next]_vars => TypeOK'
  <2>1. TypeOK /\ UNCHANGED vars => TypeOK'
    BY DEF TypeOK, vars, clkVars, fastVars, KP!TypeOK, G1!TypeOK, G2!TypeOK
  <2>. QED BY <2>1, ClkTyped, Clk50Typed, ResetTyped DEF Next
<1>. QED BY <1>1, InitTyped, PTL DEF Safety
-----------------------------------------------------------------------------
(* The quiet safe.                                                         *)

\* A knock circuit takes its debouncer through the steps QuietFills names.
LEMMA FillStep ==
  ASSUME TypeOK, ResetHolds, QuietFills, Clk50
  PROVE  QuietFills'
<1>. SUFFICES ASSUME NEW i \in 0 .. 1
              PROVE  /\ quiet' = 0 => safe'[i].debounce.Q1 = 0
                     /\ quiet' = 1 => safe'[i].debounce.Q1 = 1 /\ safe'[i].debounce.Q2 = 0
                     /\ quiet' >= 2 => safe'[i].debounce.Q1 = 1 /\ safe'[i].debounce.Q2 = 1
                     /\ quiet' = 2 => safe'[i].debounce.count = 0
                     /\ quiet' = 3 => safe'[i].debounce.count = 1
                     /\ quiet' >= 4 => safe'[i].debounce.debouncedInput = 1
  BY DEF QuietFills
<1>. DEFINE d == safe[i].debounce
<1>1. /\ d \in ST!DebounceReg
      /\ knock \in {0, 1} /\ reset_n \in {0, 1} /\ quiet \in 0 .. 5
  BY DEF TypeOK, ST!TiltReg, Bit, QuietEnough
<1>2. safe'[i].debounce = IF reset_n = 0 THEN ST!DebounceReset
                                         ELSE ST!DebounceClk(d, knock)
  BY DEF Clk50, ST!TiltClk
<1>3. CASE reset_n = 0
  BY <1>1, <1>2, <1>3 DEF Clk50, ST!DebounceReset
<1>4. CASE reset_n = 1 /\ knock = 0
  BY <1>1, <1>2, <1>4 DEF Clk50, ST!DebounceClk
<1>5. CASE reset_n = 1 /\ knock = 1
  <2>1. quiet' = IF quiet < 5 THEN quiet + 1 ELSE quiet
    BY <1>5 DEF Clk50, QuietEnough
  <2>2. /\ quiet = 0 => d.Q1 = 0
        /\ quiet = 1 => d.Q1 = 1 /\ d.Q2 = 0
        /\ quiet >= 2 => d.Q1 = 1 /\ d.Q2 = 1
        /\ quiet = 2 => d.count = 0
        /\ quiet = 3 => d.count = 1
        /\ quiet >= 4 => d.debouncedInput = 1
    BY DEF QuietFills
  <2>3. safe'[i].debounce = ST!DebounceClk(d, 1)
    BY <1>2, <1>5
  <2>. HIDE DEF d
  <2>. QED
    BY <1>1, <2>1, <2>2, <2>3
    DEF ST!DebounceClk, ST!DebounceReg, ST!Counting, ST!Settled, ST!Differ, ST!Threshold, ST!Bit
<1>. QED BY <1>1, <1>3, <1>4, <1>5

\* The flag a stage is judged by was computed from the full debouncer.
LEMMA FlagStep ==
  ASSUME TypeOK, ResetHolds, QuietFills, Clk50
  PROVE  FlagFresh'
<1>. SUFFICES ASSUME quiet' = 5, next_state' \in {game_3, harder}
              PROVE  /\ next_state' = game_3 => safe'[0].unlocked_flag = 1
                     /\ next_state' = harder => safe'[1].unlocked_flag = 1
  BY DEF FlagFresh, QuietEnough
<1>1. reset_n = 1 /\ quiet >= 4
  BY DEF TypeOK, Clk50, QuietEnough, Bit
<1>2. \A i \in 0 .. 1 : safe[i].debounce.debouncedInput = 1
  BY <1>1 DEF QuietFills
<1>3. next_state' = next_state
  BY DEF Clk50, clkVars
<1>4. \A i \in 0 .. 1 :
        safe'[i].unlocked_flag =
          ST!Level(ST!Unlocked(safe[i], reset_n, In(<<game_3, harder>>[i + 1])))
  BY DEF Clk50, ST!TiltClk
<1>5. ASSUME next_state = game_3 PROVE safe'[0].unlocked_flag = 1
  BY <1>1, <1>2, <1>4, <1>5 DEF ST!Level, ST!Unlocked, In, Level
<1>6. ASSUME next_state = harder PROVE safe'[1].unlocked_flag = 1
  BY <1>1, <1>2, <1>4, <1>6 DEF ST!Level, ST!Unlocked, In, Level
<1>. QED BY <1>3, <1>5, <1>6

\* QuietInv is inductive, given the types.
LEMMA QuietStep == TypeOK /\ QuietInv /\ [Next]_vars => QuietInv'
<1>. SUFFICES ASSUME TypeOK, QuietInv, [Next]_vars PROVE QuietInv'
  OBVIOUS
<1>. USE DEF QuietInv
<1>1. CASE Clk
  <2>1. PICK num, adcValue, adc_x : ClkWith(num, adcValue, adc_x)
    BY <1>1 DEF Clk
  <2>2. ResetHolds'
    BY <2>1 DEF ClkWith, ResetHolds, StateHandler, fastVars
  <2>3. QuietFills'
    BY <2>1 DEF ClkWith, QuietFills, fastVars
  <2>4. FlagFresh'
    BY <2>1 DEF ClkWith, FlagFresh
  <2>. QED BY <2>2, <2>3, <2>4
<1>2. CASE Clk50
  <2>1. ResetHolds'
    BY <1>2 DEF Clk50, ResetHolds, clkVars
  <2>. QED BY <1>2, <2>1, FillStep, FlagStep
<1>3. CASE ResetFall
  <2>1. \A i \in 0 .. 1 : safe'[i].debounce.Q1 = 0
    BY <1>3 DEF ResetFall, TypeOK, ST!TiltAsyncReset, ST!TiltReg, ST!DebounceReset
  <2>. QED
    BY <1>3, <2>1 DEF ResetFall, ResetHolds, QuietFills, FlagFresh, QuietEnough
<1>4. CASE ResetRise
  BY <1>4 DEF ResetRise, ResetHolds, QuietFills, FlagFresh, clkVars, fastVars
<1>5. CASE UNCHANGED vars
  BY <1>5 DEF vars, ResetHolds, QuietFills, FlagFresh, clkVars, fastVars
<1>. QED BY <1>1, <1>2, <1>3, <1>4, <1>5 DEF Next

\* The inductive invariant holds in every reachable state.
THEOREM QuietInvariant == Safety => []QuietInv
<1>1. Init => QuietInv
  BY DEF Init, QuietInv, ResetHolds, QuietFills, FlagFresh, QuietEnough, ST!TiltInit,
         ST!DebounceReset
<1>. QED BY <1>1, QuietStep, TypeCorrect, PTL DEF Safety

\* A knock stage is never left while the sensor has been quiet, however few edges of
\* the fast clock the board has for one of clk.
THEOREM QuietStays == Safety => NoAdvanceWhenQuiet
<1>1. TypeOK /\ QuietInv /\ [Next]_vars =>
        [quiet = QuietEnough /\ next_state \in {game_3, harder}
           => next_state' \in {next_state, start_up}]_vars
  <2>. SUFFICES ASSUME TypeOK, QuietInv, Next, quiet = QuietEnough,
                       next_state \in {game_3, harder}
                PROVE  next_state' \in {next_state, start_up}
    OBVIOUS
  <2>1. CASE Clk
    <3>1. PICK num, adcValue, adc_x : ClkWith(num, adcValue, adc_x)
      BY <2>1 DEF Clk
    <3>2. ~StageDone(num)
      BY <3>1, VaultAssumption
      DEF ClkWith, QuietInv, FlagFresh, StageDone, start_up, game_1, game_2, game_3, harder
    <3>. QED BY <3>1, <3>2 DEF ClkWith, StateHandler
  <2>2. CASE Clk50 \/ ResetRise
    BY <2>2 DEF Clk50, ResetRise, clkVars
  <2>3. CASE ResetFall
    BY <2>3 DEF ResetFall
  <2>. QED BY <2>1, <2>2, <2>3 DEF Next
<1>. QED BY <1>1, TypeCorrect, QuietInvariant, PTL DEF Safety, NoAdvanceWhenQuiet
-----------------------------------------------------------------------------
(* The counting game.                                                      *)

\* The digit shown follows the counter with a lag of at most one.
THEOREM DisplayFollows == Safety => []DisplayLag
<1>1. Init => DisplayLag
  BY DEF Init, DisplayLag, start_up, game_1
<1>2. TypeOK /\ ResetHolds /\ DisplayLag /\ [Next]_vars => DisplayLag'
  <2>. SUFFICES ASSUME TypeOK, ResetHolds, DisplayLag, [Next]_vars PROVE DisplayLag'
    OBVIOUS
  <2>1. CASE Clk
    <3>1. PICK num, adcValue, adc_x : ClkWith(num, adcValue, adc_x)
      BY <2>1 DEF Clk
    <3>2. CASE next_state = game_1
      <4>1. reset_n = 1
        BY <3>2 DEF TypeOK, ResetHolds, Bit, start_up, game_1
      <4>2. game_one_bits' = game_one_counter
        BY <3>1, <3>2, <4>1
        DEF ClkWith, G1!Clk, G1!Play, G1!StateBits, In, Level
      <4>3. game_one_counter' \in {game_one_counter, (game_one_counter + 1) % 8}
        BY <3>1, <3>2 DEF ClkWith, Counter
      <4>. QED BY <4>2, <4>3 DEF DisplayLag
    <3>3. CASE next_state # game_1
      <4>1. game_one_bits' = G1!Off
        BY <3>1, <3>3 DEF ClkWith, G1!Clk, G1!Cleared, In, Level
      <4>. QED BY <4>1 DEF DisplayLag
    <3>. QED BY <3>2, <3>3
  <2>2. CASE ResetFall
    BY <2>2 DEF ResetFall, DisplayLag, start_up, game_1
  <2>3. CASE Clk50 \/ ResetRise \/ UNCHANGED vars
    BY <2>3 DEF Clk50, ResetRise, vars, clkVars, DisplayLag
  <2>. QED BY <2>1, <2>2, <2>3 DEF Next
<1>. QED BY <1>1, <1>2, TypeCorrect, QuietInvariant, PTL DEF Safety, QuietInv
-----------------------------------------------------------------------------
(* The climb through the stages.                                           *)

\* What an edge of clk does to the stage and to the two wins, stage by stage.
LEMMA ClkClimbs ==
  ASSUME TypeOK, ResetHolds, Clk
  PROVE  \/ /\ next_state' = next_state
            /\ next_state \notin {game_1, game_2} \/ ~Solved
         \/ /\ next_state' = next_state + 1
            /\ next_state \in start_up .. harder
            /\ next_state \in {game_1, game_2} => Solved
            /\ ~Solved'
<1>1. PICK num, adcValue, adc_x : ClkWith(num, adcValue, adc_x)
  BY DEF Clk
<1>. DEFINE stay == /\ next_state' = next_state
                    /\ next_state \notin {game_1, game_2} \/ ~Solved
<1>. USE DEF start_up, game_1, game_2, game_3, harder, victory
<1>2. CASE reset_n = 0
  BY <1>1, <1>2 DEF ClkWith, ResetHolds, StateHandler
<1>3. CASE reset_n = 1 /\ StageDone(num)
  <2>1. next_state' = next_state + 1 /\ next_state \in start_up .. harder
    BY <1>1, <1>3 DEF ClkWith, StateHandler, StageDone, TypeOK
  <2>2. next_state \in {game_1, game_2} => Solved
    BY <1>3 DEF StageDone, Solved
  <2>3. next_state' = game_1 => mo_flag' = 0
    BY <1>1, <2>1 DEF ClkWith, G1!Clk, G1!Cleared, In, Level
  <2>4. next_state' = game_2 => joy_state' # G2!s_pass
    BY <1>1, <2>1 DEF ClkWith, G2!Clk, G2!s_one, G2!s_pass, In, Level
  <2>5. james_flag' = 1 => joy_state' = G2!s_pass
    BY DEF james_flag, G2!PassFlag, G2!Level
  <2>. QED BY <2>1, <2>2, <2>3, <2>4, <2>5 DEF Solved
<1>4. CASE reset_n = 1 /\ ~StageDone(num)
  BY <1>1, <1>4 DEF ClkWith, StateHandler, StageDone, Solved
<1>. QED BY <1>2, <1>3, <1>4 DEF TypeOK, Bit

\* The circuit implements the climb of VaultStages, step by step: whatever the
\* interleaving of clocks, keys, knocks and asynchronous resets.
THEOREM StagesImplemented == Safety => StagesSafe
<1>. USE DEF start_up, game_1, game_2, game_3, harder, victory
<1>1. Init => Stages!Init
  BY DEF Init, Stages!Init, Solved
<1>2. TypeOK /\ ResetHolds /\ [Next]_vars => [Stages!Next]_(Stages!vars)
  <2>. SUFFICES ASSUME TypeOK, ResetHolds, [Next]_vars
                PROVE  Stages!Next \/ UNCHANGED Stages!vars
    OBVIOUS
  <2>. USE DEF Stages!Next, Stages!vars
  <2>1. CASE Clk
    <3>1. CASE /\ next_state' = next_state
               /\ next_state \notin {game_1, game_2} \/ ~Solved
      BY <3>1 DEF Stages!Solve, Solved
    <3>2. CASE /\ next_state' = next_state + 1
               /\ next_state \in start_up .. harder
               /\ next_state \in {game_1, game_2} => Solved
               /\ ~Solved'
      BY <3>2 DEF Stages!Advance, Solved
    <3>. QED BY <2>1, <3>1, <3>2, ClkClimbs
  <2>2. CASE ResetFall
    BY <2>2 DEF ResetFall, Stages!Reset, Solved
  <2>3. CASE Clk50 \/ ResetRise \/ UNCHANGED vars
    BY <2>3 DEF Clk50, ResetRise, vars, clkVars, Solved, james_flag, G2!PassFlag
  <2>. QED BY <2>1, <2>2, <2>3 DEF Next
<1>. QED BY <1>1, <1>2, TypeCorrect, QuietInvariant, PTL DEF Safety, StagesSafe, Stages!Safety, QuietInv

\* Each visit to a puzzle starts from nothing, also the first one after a reset that
\* came too early for the synchronously cleared registers.
THEOREM StageStartsFresh == Safety => FreshStage
<1>1. TypeOK /\ [Next]_vars =>
        [next_state' # next_state =>
           /\ next_state' = game_1 => game_one_counter' = 0 /\ mo_flag' = 0
           /\ next_state' = game_2 => joy_state' = G2!s_one]_vars
  <2>. SUFFICES ASSUME TypeOK, Next, next_state' # next_state,
                       next_state' \in {game_1, game_2}
                PROVE  /\ next_state' = game_1 => game_one_counter' = 0 /\ mo_flag' = 0
                       /\ next_state' = game_2 => joy_state' = G2!s_one
    OBVIOUS
  <2>1. CASE Clk
    <3>1. PICK num, adcValue, adc_x : ClkWith(num, adcValue, adc_x)
      BY <2>1 DEF Clk
    <3>2. next_state' = next_state + 1
      BY <3>1 DEF ClkWith, StateHandler, start_up, game_1, game_2
    <3>3. ASSUME next_state' = game_1 PROVE game_one_counter' = 0 /\ mo_flag' = 0
      BY <3>1, <3>2, <3>3
      DEF ClkWith, Counter, G1!Clk, G1!Cleared, In, Level, TypeOK, start_up, victory, game_1
    <3>4. ASSUME next_state' = game_2 PROVE joy_state' = G2!s_one
      BY <3>1, <3>2, <3>4 DEF ClkWith, G2!Clk, In, Level, TypeOK, start_up, victory, game_2
    <3>. QED BY <3>3, <3>4
  <2>2. CASE ResetFall
    BY <2>2 DEF ResetFall, start_up, game_1, game_2
  <2>3. CASE Clk50 \/ ResetRise
    BY <2>3 DEF Clk50, ResetRise, clkVars
  <2>. QED BY <2>1, <2>2, <2>3 DEF Next
<1>. QED BY <1>1, TypeCorrect, PTL DEF Safety, FreshStage
-----------------------------------------------------------------------------
(* The processor's reset.                                                  *)

\* Reset holds the sequencer on column 3, or on no column before the first edge.
ParkedColumn == reset_n = 0 => kpc \in {3, KP!NoColumn}

LEMMA ColumnParked == Safety => []ParkedColumn
<1>1. Init => ParkedColumn
  BY DEF Init, KP!Init, ParkedColumn
<1>2. TypeOK /\ ParkedColumn /\ [Next]_vars => ParkedColumn'
  <2>. SUFFICES ASSUME TypeOK, ParkedColumn, [Next]_vars PROVE ParkedColumn'
    OBVIOUS
  <2>1. CASE Clk
    <3>1. PICK num, adcValue, adc_x : ClkWith(num, adcValue, adc_x)
      BY <2>1 DEF Clk
    <3>. QED BY <3>1 DEF ClkWith, KP!Clk, ParkedColumn
  <2>2. CASE ResetFall
    BY <2>2 DEF ResetFall, KP!AsyncReset, ParkedColumn
  <2>3. CASE ResetRise
    BY <2>3 DEF ResetRise, ParkedColumn
  <2>4. CASE Clk50 \/ UNCHANGED vars
    BY <2>4 DEF Clk50, vars, clkVars, ParkedColumn
  <2>. QED BY <2>1, <2>2, <2>3, <2>4 DEF Next
<1>. QED BY <1>1, <1>2, TypeCorrect, PTL DEF Safety

\* "Power button on kpad for reset" (bankVault.sv 138): the processor's reset stays
\* high whatever is pressed when, so that the button the comment speaks of is dead.
\* rgb_res wants reset_n low and key d reported at once, and reset_n low parks the
\* sequencer on column 3 (colseq.sv 23-25), on which key d is not.
PowerButtonDead == rgb_res = 1

\* The disagreement of bankVault.sv 138 with its comment, for all keys and at all times.
THEOREM ResetKeyIsDead == Safety => []PowerButtonDead
<1>1. TypeOK /\ ParkedColumn => PowerButtonDead
  <2>. SUFFICES ASSUME reset_n = 0, kpc \in {3, KP!NoColumn}, KP!Hit(keys),
                       13 \in KP!Num(keys)
                PROVE  FALSE
    BY DEF ParkedColumn, PowerButtonDead, rgb_res, Level, TypeOK, Bit
  <2>1. kpc = 3
    BY DEF KP!Hit, KP!LowRows, KP!Lines, KP!NoColumn
  <2>2. PICK r \in KP!Lines : KP!NumAt[3][r] = 13
    BY <2>1 DEF KP!Num, KP!LowRows
  <2>3. KP!NumAt[3][r] = <<14, 7, 4, 1>>[r + 1]
    BY DEF KP!NumAt, KP!Lines
  <2>4. r = 0 \/ r = 1 \/ r = 2 \/ r = 3
    BY DEF KP!Lines
  <2>. QED BY <2>2, <2>3, <2>4
<1>. QED BY <1>1, ColumnParked, TypeCorrect, PTL
-----------------------------------------------------------------------------
(* The code game, with its history (CodeHistory).                         *)

\* The history only watches: what it watches is the vault.
LEMMA HistoryWatches == HistSpec => Safety
<1>1. HistInit => Init
  BY DEF HistInit
<1>2. [HistNext]_histVars => [Next]_vars
  BY DEF HistNext, HistClk, histVars, Next, Clk
<1>. QED BY <1>1, <1>2, PTL DEF HistSpec, Safety

\* The state joy_code is in is the number of digits entered, edge by edge.
InStep == next_state = game_2 => r_num \in Codes /\ joy_state = entered[r_num]

LEMMA InStepKept == TypeOK /\ ResetHolds /\ InStep /\ [HistNext]_histVars => InStep'
<1>. SUFFICES ASSUME TypeOK, ResetHolds, InStep, [HistNext]_histVars PROVE InStep'
  OBVIOUS
<1>1. CASE HistClk
  <2>1. PICK num \in KP!Num(keys), adcValue \in AdcValues, adc_x \in AdcValues :
          /\ ClkWith(num, adcValue, adc_x)
          /\ entered' = IF next_state # game_2 THEN NoneEntered
                        ELSE [c \in Codes |-> IF Continues(c, num, adc_x)
                                                THEN entered[c] + 1 ELSE entered[c]]
    BY <1>1 DEF HistClk
  <2>2. CASE next_state = game_2 /\ next_state' = game_2
    <3>1. reset_n = 1 /\ joy_state \in 0 .. 3
      BY <2>1, <2>2
      DEF TypeOK, ResetHolds, Bit, start_up, game_1, game_2, ClkWith, StateHandler, StageDone,
          james_flag, G2!PassFlag, G2!Level, G2!TypeOK, G2!s_one, G2!s_pass
    <3>2. r_num' = r_num
      BY <2>1, <2>2, <3>1 DEF ClkWith, RandomNumbers
    <3>3. joy_state' = IF num % 8 = r_num[joy_state] /\ G2!PosMatch(adc_x)
                         THEN joy_state + 1 ELSE joy_state
      BY <2>1, <2>2, <3>1
      DEF ClkWith, G2!Clk, G2!KeyMatches, G2!s_pass, In, Level
    <3>4. entered'[r_num] = IF Continues(r_num, num, adc_x) THEN entered[r_num] + 1
                                                            ELSE entered[r_num]
      BY <2>1, <2>2 DEF InStep
    <3>. QED BY <2>2, <3>1, <3>2, <3>3, <3>4 DEF InStep, Continues
  <2>3. CASE next_state # game_2 /\ next_state' = game_2
    <3>1. reset_n = 1
      BY <2>1, <2>3 DEF ClkWith, StateHandler, TypeOK, Bit, start_up, game_2
    <3>2. r_num' = CodeOf(adcValue) /\ joy_state' = 0
      BY <2>1, <2>3, <3>1
      DEF ClkWith, RandomNumbers, G2!Clk, G2!s_one, In, Level
    <3>3. entered' = NoneEntered
      BY <2>1, <2>3
    <3>. QED BY <3>2, <3>3 DEF InStep, Codes, NoneEntered
  <2>. QED BY <2>2, <2>3 DEF InStep
<1>2. CASE ResetFall
  BY <1>2 DEF ResetFall, InStep, start_up, game_2
<1>3. CASE (Clk50 \/ ResetRise) /\ UNCHANGED entered
  BY <1>3 DEF Clk50, ResetRise, clkVars, InStep
<1>4. CASE UNCHANGED histVars
  BY <1>4 DEF histVars, vars, clkVars, InStep
<1>. QED BY <1>1, <1>2, <1>3, <1>4 DEF HistNext

\* The game is won at the edge at which the displayed code is complete, and at no
\* other: whatever keys, floating keypad outputs, stick movements and resets.
THEOREM WinNeedsCode == HistSpec => []WonByCode
<1>1. HistInit => InStep
  BY DEF HistInit, Init, InStep, start_up, game_2
<1>2. InStep => WonByCode
  BY DEF InStep, WonByCode, james_flag, G2!PassFlag, G2!s_pass, G2!Level, Level
<1>3. HistSpec => [](TypeOK /\ ResetHolds)
  BY HistoryWatches, TypeCorrect, QuietInvariant, PTL DEF QuietInv
<1>. QED BY <1>1, <1>2, <1>3, InStepKept, PTL DEF HistSpec
=============================================================================
