-------------------------------- MODULE Display --------------------------------
(***************************************************************************)
(* graphic_top.c: the program of the Nios II.  It polls the word bankVault *)
(* puts on the PIO, and keeps the OLED screen in step with the stage.  The *)
(* lock is represented by what it promises, VaultStages; the processor is  *)
(* not reset with it (BankVaultProofs, PowerButtonDead).                   *)
(*                                                                         *)
(* The screen is the set of pictures drawn since it was last cleared.      *)
(***************************************************************************)
EXTENDS Naturals

CONSTANT Sticks     \* the positions the stick takes: right of, above the middle?

ASSUME SticksAssumption == Sticks \subseteq BOOLEAN \X BOOLEAN

VARIABLES stage, solved,    \* the lock (VaultStages)
          stick,            \* <<x_pos, y_pos>>: is the stick right of, above the middle?
          pc,               \* where main stands: "poll" or "draw"
          state_var, seen,  \* what main took from the last word; seen is <<x_val, y_val>>
          flags,            \* flags[i] = 1: clear the screen before drawing
          screen,           \* the pictures on the OLED
          waited, whole     \* history: every stage change was as Waits says, every load whole

lockVars == <<stage, solved>>
mainVars == <<pc, state_var, seen, flags, screen>>
history  == <<waited, whole>>
vars == <<lockVars, stick, mainVars, history>>

start_up == 0
game_1   == 1
game_2   == 2
game_3   == 3
harder   == 4
victory  == 5

Lock == INSTANCE VaultStages WITH Last <- victory, Puzzles <- {game_1, game_2}

Pictures == {"start_0", "clock_0", "joy_res", "spank_0", "spank_1", "victory_0",
             "leftover"} \cup
            {"green_TL", "green_TR", "green_BL", "green_BR"}

TypeOK == /\ Lock!TypeOK
          /\ stick \in Sticks
          /\ pc \in {"poll", "draw"}
          /\ state_var \in 0 .. 7
          /\ seen \in BOOLEAN \X BOOLEAN
          /\ flags \in [0 .. 5 -> {0, 1}]
          /\ screen \subseteq Pictures
          /\ waited \in BOOLEAN /\ whole \in BOOLEAN

\* main has sent the initialisation, cleared the screen and set the flags.
Init == /\ Lock!Init
        /\ stick \in Sticks
        /\ pc = "poll"
        /\ state_var = start_up /\ seen = <<FALSE, FALSE>>
        /\ flags = [i \in 0 .. 5 |-> 1]
        /\ screen = {}
        /\ waited = TRUE /\ whole = TRUE
-----------------------------------------------------------------------------
(* The word on the PIO.                                                    *)

\* bankVault sends the stick only along with game_1; its bits are high in the
\* constant that goes with victory, and low otherwise.
WithStick(s, position) == s = victory \/ (s = game_1 /\ position)

\* The three-bit values each of whose bits is that of a or that of b.
BitOf(v, weight) == (v \div weight) % 2
Between(a, b) == {v \in 0 .. 7 : \A weight \in {1, 2, 4} :
                    BitOf(v, weight) \in {BitOf(a, weight), BitOf(b, weight)}}

\* What a load returns while the stage goes from s to t, all of it from one word.
Loaded(s, t) ==
  /\ state_var' \in Between(s, t)
  /\ seen' \in {WithStick(s, stick[1]), WithStick(t, stick[1])} \X
              {WithStick(s, stick[2]), WithStick(t, stick[2])}
-----------------------------------------------------------------------------
(* One pass of main's loop.                                                *)

Home(s) == CASE s = start_up -> {"start_0"}
             [] s = game_1   -> {"clock_0"}
             [] s = game_2   -> {"joy_res", "green_TL", "green_TR", "green_BL", "green_BR"}
             [] s = game_3   -> {"spank_0"}
             [] s = harder   -> {"spank_1"}
             [] s = victory  -> {"victory_0"}
             [] OTHER        -> {"leftover"}

\* The flag that main consults for a stage: those of the two games are swapped.
FlagOf(s) == CASE s = game_1 -> 2 [] s = game_2 -> 1 [] OTHER -> s

\* The green square; "above" is y_val > 8, "left" is x_val < 8.
Green == CASE seen = <<FALSE, TRUE>>  -> "green_TL" [] seen = <<TRUE, TRUE>>  -> "green_TR"
           [] seen = <<FALSE, FALSE>> -> "green_BL" [] seen = <<TRUE, FALSE>> -> "green_BR"

Squares == {"joy_res", Green}

\* What a pass adds to the screen; red squares are painted over the old green one.
Drawn == IF state_var = game_2
           THEN (screen \ Home(game_2)) \cup Squares
           ELSE screen \cup Home(state_var)

\* Faults: the victory flag is never re-armed; victory re-arms without clearing;
\* a flag past the end is set.
RearmedOnce(s) == CASE s = victory -> [i \in 0 .. 5 |-> IF i = 5 THEN 0 ELSE 1]
                    [] OTHER       -> [flags EXCEPT ![FlagOf(s)] = 0]

ClearUnseen == /\ pc = "draw"
               /\ state_var \in start_up .. victory
               /\ flags[FlagOf(state_var)] = 1
               /\ screen' = IF state_var = victory THEN screen ELSE {}
               /\ flags' = IF state_var = victory THEN [i \in 0 .. 5 |-> IF i = 5 THEN 0 ELSE 1]
                           ELSE [flags EXCEPT ![FlagOf(state_var)] = 0]
               /\ pc' = "poll"
               /\ UNCHANGED <<lockVars, stick, state_var, seen, history>>

RearmedPast(s) == CASE s = start_up -> [flags EXCEPT ![0] = 0, ![5] = 1]
                    [] s = victory  -> [i \in 0 .. 6 |-> IF i = 5 THEN 0 ELSE 1]
                    [] OTHER        -> [flags EXCEPT ![FlagOf(s)] = 0]

\* Fault: the flag that was found set is left set.
RearmedNever(s) == CASE s = start_up -> [flags EXCEPT ![5] = 1]
                     [] s = victory  -> [i \in 0 .. 5 |-> 1]
                     [] OTHER        -> flags

\* Consuming the flag of a stage re-arms others.
Rearmed(s) == CASE s = start_up -> [flags EXCEPT ![0] = 0, ![5] = 1]
                [] s = victory  -> [i \in 0 .. 5 |-> IF i = 5 THEN 0 ELSE 1]
                [] OTHER        -> [flags EXCEPT ![FlagOf(s)] = 0]

\* The load of PIO_INPUT.
Poll == /\ pc = "poll"
        /\ pc' = "draw"
        /\ Loaded(stage, stage)
        /\ UNCHANGED <<lockVars, stick, flags, screen, history>>

Clear == /\ pc = "draw"
         /\ state_var \in start_up .. victory
         /\ flags[FlagOf(state_var)] = 1
         /\ screen' = {}
         /\ flags' = Rearmed(state_var)
         /\ pc' = "poll"
         /\ UNCHANGED <<lockVars, stick, state_var, seen, history>>

Draw == /\ pc = "draw"
        /\ state_var \in start_up .. victory => flags[FlagOf(state_var)] = 0
        /\ screen' = Drawn
        /\ pc' = "poll"
        /\ UNCHANGED <<lockVars, stick, state_var, seen, flags, history>>
-----------------------------------------------------------------------------
(* The lock and the player.                                                *)

\* The player has seen the screen of the stage, and starts again only after winning.
Waits == stage' # stage => /\ screen \cap Home(stage) # {}
                           /\ stage' = start_up => stage = victory

LockMoves == /\ Lock!Next
             /\ waited' = (waited /\ Waits)
             /\ UNCHANGED <<stick, mainVars, whole>>

\* The stage changes under the load: reset reaches the stage register at any time,
\* the path from its clock to the PIO is unconstrained (processor.sdc) and the PIO
\* has no synchroniser.
PollTorn == /\ pc = "poll"
            /\ pc' = "draw"
            /\ Lock!Next
            /\ Loaded(stage, stage')
            /\ waited' = (waited /\ Waits)
            /\ whole' = FALSE
            /\ UNCHANGED <<stick, flags, screen>>

StickMoves == /\ stick' \in Sticks
              /\ UNCHANGED <<lockVars, mainVars, history>>

Next == Poll \/ Clear \/ Draw \/ LockMoves \/ PollTorn \/ StickMoves

\* The processor keeps executing.
Spec == Init /\ [][Next]_vars /\ WF_vars(Poll) /\ WF_vars(Clear) /\ WF_vars(Draw)
-----------------------------------------------------------------------------
\* All pictures on the screen belong to one stage.
OnePicture == \E s \in 0 .. 7 : screen \subseteq Home(s)

\* "Array of flags to clear the contents of the screen when entering a new state"
\* (graphic_top.c 44): pictures of two stages are never on the screen together, as
\* long as no load was torn.
WholePicture == whole => OnePicture

\* The same for a player who waits for every screen and starts again only after
\* winning: then the flags, re-armed at start and victory only, do clear the screen
\* at every new stage.
OrderlyPicture == waited /\ whole => OnePicture

\* A picture on the screen is never wiped by its own stage, however late or torn
\* the loads: its flag stays consumed until another stage has cleared the screen.
NoFlicker == \A s \in start_up .. victory :
               screen \cap Home(s) # {} => flags[FlagOf(s)] = 0

\* A stage that lasts gets its picture: the pass that clears is followed by one that
\* draws, and no flag can hold a stage in clearing for ever.
Shown == \A s \in start_up .. victory :
           stage = s ~> (screen \cap Home(s) # {} \/ stage # s)

\* "based on y and x values from the FPGA turn one of the cubes green"
\* (graphic_top.c 99): in the code game main knows where the stick is.
GreenFollowsStick ==
  [][pc = "poll" /\ pc' = "draw" /\ stage = game_2 /\ stage' = game_2
       => seen' = stick]_vars
=============================================================================
