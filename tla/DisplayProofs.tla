----------------------------- MODULE DisplayProofs -----------------------------
(***************************************************************************)
(* What the program keeps on the screen, whenever its loads of the stage   *)
(* are made and wherever the player holds the stick.                       *)
(***************************************************************************)
EXTENDS Display, TLAPS

Stages == start_up .. victory

Flag(s) == flags[FlagOf(s)]

\* The stage from which a player who waits for every screen comes to stage s.
Before(s) == IF s = start_up THEN victory ELSE s - 1

(* The invariant: what such a player and such a program find.               *)

\* The screens of the stages to come will be cleared; that of victory is re-armed
\* when the screen of start_up is cleared.
ToCome == \A s \in Stages : s > stage =>
            Flag(s) = 1 \/ (s = victory /\ stage = start_up /\ Flag(start_up) = 1)

\* Victory has re-armed all the others when its own screen is cleared.
AllRearmed == stage = victory /\ Flag(victory) = 0 =>
                \A s \in start_up .. harder : Flag(s) = 1

\* The stage main draws may have just been left, its screen being shown.
Behind == pc = "draw" => \/ state_var = stage
                         \/ state_var = Before(stage) /\ Flag(state_var) = 0 /\ Flag(stage) = 1

\* Until the screen of the stage is cleared it shows that of the stage before.
Clean == screen \subseteq Home(IF Flag(stage) = 1 THEN Before(stage) ELSE stage)

Orderly == waited /\ whole => ToCome /\ AllRearmed /\ Behind /\ Clean

Inv == TypeOK /\ NoFlicker /\ Orderly
-----------------------------------------------------------------------------
(* Stages, flags and pictures.                                             *)

LEMMA StageNames ==
  /\ start_up = 0 /\ game_1 = 1 /\ game_2 = 2 /\ game_3 = 3 /\ harder = 4 /\ victory = 5
  /\ Stages = {0, 1, 2, 3, 4, 5} /\ start_up .. victory = {0, 1, 2, 3, 4, 5}
  /\ start_up .. harder = {0, 1, 2, 3, 4}
BY DEF start_up, game_1, game_2, game_3, harder, victory, Stages

\* Every stage has a flag of its own.
LEMMA FlagsApart ==
  /\ \A s \in Stages : FlagOf(s) \in 0 .. 5
  /\ \A s, t \in Stages : FlagOf(s) = FlagOf(t) => s = t
  /\ FlagOf(start_up) = 0 /\ FlagOf(victory) = 5
<1>1. \A s \in Stages : FlagOf(s) = IF s = 1 THEN 2 ELSE IF s = 2 THEN 1 ELSE s
  BY StageNames DEF FlagOf
<1>. QED BY <1>1, StageNames

\* No picture belongs to two stages.
LEMMA HomesApart ==
  \A s \in Stages : \A t \in 0 .. 7 : s # t => Home(s) \cap Home(t) = {}
<1>1. /\ Home(0) = {"start_0"} /\ Home(1) = {"clock_0"}
      /\ Home(2) = {"joy_res", "green_TL", "green_TR", "green_BL", "green_BR"}
      /\ Home(3) = {"spank_0"} /\ Home(4) = {"spank_1"} /\ Home(5) = {"victory_0"}
      /\ Home(6) = {"leftover"} /\ Home(7) = {"leftover"}
  BY StageNames DEF Home
<1>2. \A t \in 0 .. 7 : t \in {0, 1, 2, 3, 4, 5, 6, 7}
  OBVIOUS
<1>. QED BY <1>1, <1>2, StageNames

LEMMA HomesArePictures == \A s \in 0 .. 7 : Home(s) \subseteq Pictures
BY StageNames DEF Home, Pictures

\* A pass that draws puts pictures of its own stage on the screen, and no others.
LEMMA DrawnAtHome ==
  ASSUME seen \in BOOLEAN \X BOOLEAN, state_var \in 0 .. 7
  PROVE  Drawn \subseteq screen \cup Home(state_var)
<1>1. Green \in {"green_TL", "green_TR", "green_BL", "green_BR"}
  <2>1. \/ seen = <<FALSE, TRUE>> \/ seen = <<TRUE, TRUE>>
        \/ seen = <<FALSE, FALSE>> \/ seen = <<TRUE, FALSE>>
    <3>1. PICK a \in BOOLEAN, b \in BOOLEAN : seen = <<a, b>>
      OBVIOUS
    <3>2. (a = TRUE \/ a = FALSE) /\ (b = TRUE \/ b = FALSE)
      OBVIOUS
    <3>. QED BY <3>1, <3>2
  <2>. QED BY <2>1 DEF Green
<1>2. Home(game_2) = {"joy_res", "green_TL", "green_TR", "green_BL", "green_BR"}
  BY StageNames DEF Home
<1>. QED BY <1>1, <1>2 DEF Drawn, Squares

\* What a load returns while the stage stands still is the stage.
LEMMA LoadedStage ==
  ASSUME stage \in Stages, Loaded(stage, stage)
  PROVE  state_var' = stage
<1>1. \A v \in 0 .. 7 : /\ v \div 1 = v
                        /\ (v % 2) + 2 * ((v \div 2) % 2) + 4 * ((v \div 4) % 2) = v
  OBVIOUS
<1>2. /\ state_var' \in 0 .. 7 /\ BitOf(state_var', 1) = BitOf(stage, 1)
      /\ BitOf(state_var', 2) = BitOf(stage, 2) /\ BitOf(state_var', 4) = BitOf(stage, 4)
  BY DEF Loaded, Between
<1>3. stage \in 0 .. 7
  BY StageNames
<1>. QED BY <1>1, <1>2, <1>3 DEF BitOf

LEMMA LoadedTypes ==
  ASSUME NEW s \in 0 .. 5, NEW t \in 0 .. 5, stick \in Sticks, Loaded(s, t)
  PROVE  state_var' \in 0 .. 7 /\ seen' \in BOOLEAN \X BOOLEAN
<1>1. stick[1] \in BOOLEAN /\ stick[2] \in BOOLEAN
  BY SticksAssumption
<1>2. /\ WithStick(s, stick[1]) \in BOOLEAN /\ WithStick(t, stick[1]) \in BOOLEAN
      /\ WithStick(s, stick[2]) \in BOOLEAN /\ WithStick(t, stick[2]) \in BOOLEAN
  BY <1>1 DEF WithStick
<1>. QED BY <1>2 DEF Loaded, Between

\* Clearing the screen of a stage consumes its flag; it re-arms that of victory at
\* start_up and all others at victory.
LEMMA Rearming ==
  ASSUME flags \in [0 .. 5 -> {0, 1}], NEW s \in Stages
  PROVE  /\ Rearmed(s) \in [0 .. 5 -> {0, 1}]
         /\ Rearmed(s)[FlagOf(s)] = 0
         /\ s = start_up => Rearmed(s)[FlagOf(victory)] = 1
         /\ s = victory => \A u \in Stages : u # victory => Rearmed(s)[FlagOf(u)] = 1
         /\ s # victory => \A u \in Stages :
                             u # s /\ ~(s = start_up /\ u = victory)
                               => Rearmed(s)[FlagOf(u)] = Flag(u)
<1>1. FlagOf(s) \in 0 .. 5
  BY FlagsApart
<1>2. CASE s = start_up
  <2>1. Rearmed(s) = [flags EXCEPT ![0] = 0, ![5] = 1]
    BY <1>2, StageNames DEF Rearmed
  <2>2. Rearmed(s) \in [0 .. 5 -> {0, 1}] /\ Rearmed(s)[0] = 0 /\ Rearmed(s)[5] = 1
    BY <2>1
  <2>3. ASSUME NEW u \in Stages, u # start_up, u # victory
        PROVE  Rearmed(s)[FlagOf(u)] = Flag(u)
    <3>1. FlagOf(u) \in 0 .. 5 /\ FlagOf(u) # 0 /\ FlagOf(u) # 5
      BY <2>3, FlagsApart, StageNames
    <3>. QED BY <2>1, <3>1 DEF Flag
  <2>. QED BY <1>2, <2>2, <2>3, FlagsApart, StageNames
<1>3. CASE s = victory
  <2>1. Rearmed(s) = [i \in 0 .. 5 |-> IF i = 5 THEN 0 ELSE 1]
    BY <1>3, StageNames DEF Rearmed
  <2>. QED BY <1>3, <2>1, FlagsApart, StageNames
<1>4. CASE s # start_up /\ s # victory
  <2>1. Rearmed(s) = [flags EXCEPT ![FlagOf(s)] = 0]
    BY <1>4 DEF Rearmed
  <2>. QED BY <1>1, <1>4, <2>1, FlagsApart DEF Flag
<1>. QED BY <1>2, <1>3, <1>4
-----------------------------------------------------------------------------
(* Types, and the flags of the screens that are up.                        *)

\* The lock, as the program needs it.
LEMMA LockStep ==
  ASSUME Lock!TypeOK, Lock!Next
  PROVE  /\ Lock!TypeOK'
         /\ stage \in Stages /\ stage' \in Stages
         /\ stage' = stage \/ stage' = start_up \/ (stage # victory /\ stage' = stage + 1)
<1>1. stage \in 0 .. victory /\ victory = 5 /\ start_up = 0 /\ Stages = 0 .. 5
  BY StageNames DEF Lock!TypeOK, Stages
<1>2. solved' \in BOOLEAN
  BY DEF Lock!TypeOK, Lock!Next, Lock!Solve, Lock!Advance, Lock!Reset
<1>3. stage' = stage \/ stage' = start_up \/ (stage # victory /\ stage' = stage + 1)
  BY <1>1 DEF Lock!Next, Lock!Solve, Lock!Advance, Lock!Reset
<1>4. stage' \in 0 .. victory
  BY <1>1, <1>3
<1>. QED BY <1>1, <1>2, <1>3, <1>4 DEF Lock!TypeOK

LEMMA TypeInit == Init => TypeOK
<1>. SUFFICES ASSUME Init PROVE TypeOK
  OBVIOUS
<1>1. Lock!TypeOK
  BY StageNames DEF Init, Lock!Init, Lock!TypeOK
<1>2. state_var \in 0 .. 7 /\ flags \in [0 .. 5 -> {0, 1}]
  BY StageNames DEF Init
<1>3. seen \in BOOLEAN \X BOOLEAN
  BY DEF Init
<1>. QED BY <1>1, <1>2, <1>3 DEF Init, TypeOK

LEMMA TypeStep == TypeOK /\ [Next]_vars => TypeOK'
<1>. SUFFICES ASSUME TypeOK, [Next]_vars PROVE TypeOK'
  OBVIOUS
<1>1. Lock!TypeOK /\ stage \in 0 .. 5 /\ stick \in Sticks
  BY StageNames DEF TypeOK, Lock!TypeOK
<1>2. CASE Poll
  <2>1. state_var' \in 0 .. 7 /\ seen' \in BOOLEAN \X BOOLEAN
    BY <1>1, <1>2, LoadedTypes DEF Poll
  <2>2. Lock!TypeOK'
    BY <1>1, <1>2 DEF Poll, lockVars, Lock!TypeOK
  <2>. QED BY <1>2, <2>1, <2>2 DEF Poll, TypeOK, history
<1>3. CASE Clear
  <2>1. flags' \in [0 .. 5 -> {0, 1}]
    BY <1>3, Rearming DEF Clear, TypeOK, Stages
  <2>2. Lock!TypeOK'
    BY <1>1, <1>3 DEF Clear, lockVars, Lock!TypeOK
  <2>. QED BY <1>3, <2>1, <2>2 DEF Clear, TypeOK, history
<1>4. CASE Draw
  <2>1. screen' \subseteq Pictures
    BY <1>4, DrawnAtHome, HomesArePictures DEF Draw, TypeOK
  <2>2. Lock!TypeOK'
    BY <1>1, <1>4 DEF Draw, lockVars, Lock!TypeOK
  <2>. QED BY <1>4, <2>1, <2>2 DEF Draw, TypeOK, history
<1>5. CASE LockMoves
  <2>1. Lock!TypeOK'
    BY <1>1, <1>5, LockStep DEF LockMoves
  <2>2. waited' \in BOOLEAN
    BY <1>5 DEF LockMoves, TypeOK
  <2>. QED BY <1>5, <2>1, <2>2 DEF LockMoves, TypeOK, mainVars
<1>6. CASE PollTorn
  <2>1. Lock!TypeOK' /\ stage' \in 0 .. 5
    BY <1>1, <1>6, LockStep, StageNames DEF PollTorn
  <2>2. state_var' \in 0 .. 7 /\ seen' \in BOOLEAN \X BOOLEAN
    BY <1>1, <1>6, <2>1, LoadedTypes DEF PollTorn
  <2>3. waited' \in BOOLEAN
    BY <1>6 DEF PollTorn, TypeOK
  <2>. QED BY <1>6, <2>1, <2>2, <2>3 DEF PollTorn, TypeOK
<1>7. CASE StickMoves
  <2>1. Lock!TypeOK'
    BY <1>1, <1>7 DEF StickMoves, lockVars, Lock!TypeOK
  <2>. QED BY <1>7, <2>1 DEF StickMoves, TypeOK, mainVars, history
<1>8. CASE UNCHANGED vars
  <2>1. Lock!TypeOK'
    BY <1>1, <1>8 DEF vars, lockVars, Lock!TypeOK
  <2>. QED BY <1>8, <2>1 DEF vars, TypeOK, lockVars, mainVars, history
<1>. QED BY <1>2, <1>3, <1>4, <1>5, <1>6, <1>7, <1>8 DEF Next

LEMMA FlickerStep == TypeOK /\ NoFlicker /\ [Next]_vars => NoFlicker'
<1>. SUFFICES ASSUME TypeOK, NoFlicker, [Next]_vars PROVE NoFlicker'
  OBVIOUS
<1>1. CASE Clear
  BY <1>1 DEF Clear, NoFlicker
<1>2. CASE Draw
  <2>. SUFFICES ASSUME NEW s \in Stages, screen' \cap Home(s) # {}
                PROVE  flags'[FlagOf(s)] = 0
    BY DEF NoFlicker, Stages
  <2>1. screen' \subseteq screen \cup Home(state_var) /\ flags' = flags /\ state_var \in 0 .. 7
    BY <1>2, DrawnAtHome DEF Draw, TypeOK
  <2>2. CASE s = state_var
    BY <1>2, <2>1, <2>2 DEF Draw, Stages
  <2>3. CASE s # state_var
    <3>1. Home(s) \cap Home(state_var) = {}
      BY <2>1, <2>3, HomesApart
    <3>2. screen \cap Home(s) # {}
      BY <2>1, <3>1
    <3>. QED BY <2>1, <3>2 DEF NoFlicker, Stages
  <2>. QED BY <2>2, <2>3
<1>3. CASE UNCHANGED <<flags, screen>>
  BY <1>3 DEF NoFlicker
<1>. QED BY <1>1, <1>2, <1>3
     DEF Next, Poll, LockMoves, PollTorn, StickMoves, mainVars, vars

\* The program's memory keeps its types whatever a torn load returns: it indexes no
\* flag that does not exist.
THEOREM TypeCorrect == Spec => []TypeOK
<1>. QED BY TypeInit, TypeStep, PTL DEF Spec

\* No stage wipes its own picture off the screen, however torn the loads.
THEOREM NeverFlickers == Spec => []NoFlicker
<1>1. Init => NoFlicker
  BY DEF Init, NoFlicker
<1>. QED BY <1>1, TypeInit, TypeStep, FlickerStep, PTL DEF Spec
-----------------------------------------------------------------------------
(* One picture.                                                            *)

LEMMA StageBefore ==
  ASSUME NEW s \in Stages
  PROVE  Before(s) \in Stages /\ Before(s) # s /\ Before(s) \in 0 .. 7 /\ s \in 0 .. 7
BY StageNames DEF Before

LEMMA FlagValues == ASSUME TypeOK, NEW s \in Stages PROVE Flag(s) \in {0, 1}
BY FlagsApart DEF TypeOK, Flag

LEMMA OrderlyInit == Init => Orderly
<1>. SUFFICES ASSUME Init PROVE Orderly
  OBVIOUS
<1>1. \A s \in Stages : Flag(s) = 1
  BY FlagsApart DEF Init, Flag
<1>2. stage \in Stages /\ pc = "poll" /\ screen = {}
  BY StageNames DEF Init, Lock!Init
<1>3. ToCome /\ Clean /\ Behind
  BY <1>1, <1>2 DEF ToCome, Clean, Behind
<1>4. AllRearmed
  BY <1>1, StageNames DEF AllRearmed
<1>. QED BY <1>3, <1>4 DEF Orderly

\* The lock moves on only when the picture of its stage is up; then the flag of the
\* next screen is set, and the program can be one stage behind, about to draw.
LEMMA OrderlyLock == ASSUME Inv, LockMoves PROVE Orderly'
<1>. SUFFICES ASSUME waited', whole' PROVE (ToCome /\ AllRearmed /\ Behind /\ Clean)'
  BY DEF Orderly
<1>1. /\ TypeOK /\ NoFlicker /\ ToCome /\ AllRearmed /\ Behind /\ Clean
      /\ waited /\ Waits /\ UNCHANGED mainVars
  BY DEF LockMoves, Inv, Orderly
<1>2. /\ stage \in Stages /\ stage' \in Stages
      /\ stage' = stage \/ stage' = start_up \/ (stage # victory /\ stage' = stage + 1)
  BY <1>1, LockStep DEF LockMoves, TypeOK
<1>3. \A s \in Stages : Flag(s)' = Flag(s)
  BY <1>1 DEF Flag, mainVars
<1>4. CASE stage' = stage
  <2>1. ToCome' /\ AllRearmed'
    BY <1>1, <1>3, <1>4, StageNames DEF ToCome, AllRearmed
  <2>2. Behind' /\ Clean'
    BY <1>1, <1>4 DEF Behind, Clean, Flag, Before, mainVars
  <2>. QED BY <2>1, <2>2
<1>5. CASE stage' # stage
  <2>1. screen \cap Home(stage) # {} /\ Flag(stage) = 0
    BY <1>1, <1>2, <1>5 DEF Waits, NoFlicker, Stages, Flag
  <2>2. \/ stage = victory /\ stage' = start_up
        \/ stage # victory /\ stage' = stage + 1
    BY <1>1, <1>2, <1>5 DEF Waits
  <2>3. Before(stage') = stage
    <3>1. stage \in 0 .. 5 /\ start_up = 0
      BY <1>2, StageNames
    <3>. QED BY <2>2, <3>1 DEF Before
  <2>4. \A s \in Stages : stage = victory /\ s # victory => Flag(s) = 1
    BY <1>1, <2>1, StageNames DEF AllRearmed
  <2>5. Flag(stage') = 1
    BY <1>1, <1>2, <2>1, <2>2, <2>4, StageNames DEF ToCome
  <2>6. ToCome'
    <3>1. CASE stage = victory
      BY <1>3, <2>2, <2>4, <3>1, StageNames DEF ToCome
    <3>2. CASE stage # victory
      BY <1>1, <1>2, <1>3, <2>1, <2>2, <3>2, StageNames DEF ToCome
    <3>. QED BY <3>1, <3>2
  <2>7. AllRearmed'
    BY <1>2, <1>3, <2>5, StageNames DEF AllRearmed
  <2>8. Behind'
    <3>1. pc = "draw" => state_var = stage
      BY <1>1, <2>1 DEF Behind
    <3>. QED BY <1>1, <1>2, <1>3, <2>1, <2>3, <2>5, <3>1 DEF Behind, Flag, mainVars
  <2>9. Clean'
    BY <1>1, <1>2, <1>3, <2>1, <2>3, <2>5 DEF Clean, mainVars
  <2>. QED BY <2>6, <2>7, <2>8, <2>9
<1>. QED BY <1>4, <1>5

\* A screen is cleared for the stage the lock is in.
LEMMA OrderlyClear == ASSUME Inv, Clear PROVE Orderly'
<1>. SUFFICES ASSUME waited', whole' PROVE (ToCome /\ AllRearmed /\ Behind /\ Clean)'
  BY DEF Orderly
<1>1. /\ TypeOK /\ ToCome /\ AllRearmed /\ Behind /\ Clean
      /\ screen' = {} /\ pc' = "poll" /\ UNCHANGED <<stage, state_var>>
      /\ flags' = Rearmed(state_var)
  BY DEF Clear, Inv, Orderly, history, lockVars
<1>2. stage \in Stages /\ state_var = stage
  <2>1. Flag(state_var) = 1
    BY DEF Clear, Flag
  <2>. QED BY <1>1, <2>1, StageNames DEF Clear, Behind, TypeOK, Lock!TypeOK
<1>3. /\ Flag(stage)' = 0
      /\ stage = start_up => Flag(victory)' = 1
      /\ stage = victory => \A u \in Stages : u # victory => Flag(u)' = 1
      /\ stage # victory => \A u \in Stages :
           u # stage /\ ~(stage = start_up /\ u = victory) => Flag(u)' = Flag(u)
  BY <1>1, <1>2, Rearming DEF Flag, TypeOK
<1>4. ToCome'
  <2>. SUFFICES ASSUME NEW s \in Stages, s > stage PROVE Flag(s)' = 1
    BY <1>1 DEF ToCome
  <2>1. s # stage /\ stage # victory
    BY <1>2, StageNames
  <2>2. CASE stage = start_up /\ s = victory
    BY <1>3, <2>2
  <2>3. CASE ~(stage = start_up /\ s = victory)
    BY <1>1, <1>3, <2>1, <2>3 DEF ToCome
  <2>. QED BY <2>2, <2>3
<1>5. AllRearmed'
  <2>1. \A s \in start_up .. harder : s \in Stages /\ s # victory
    BY StageNames
  <2>. QED BY <1>1, <1>3, <2>1 DEF AllRearmed
<1>6. Behind' /\ Clean'
  BY <1>1 DEF Behind, Clean
<1>. QED BY <1>4, <1>5, <1>6

\* A stage, or the one before it, is drawn on a screen that shows nothing else.
LEMMA OrderlyDraw == ASSUME Inv, Draw PROVE Orderly'
<1>. SUFFICES ASSUME waited', whole' PROVE (ToCome /\ AllRearmed /\ Behind /\ Clean)'
  BY DEF Orderly
<1>1. /\ TypeOK /\ ToCome /\ AllRearmed /\ Behind /\ Clean
      /\ pc' = "poll" /\ UNCHANGED <<stage, state_var, flags>>
      /\ screen' \subseteq screen \cup Home(state_var)
  BY DrawnAtHome DEF Draw, Inv, Orderly, history, lockVars, TypeOK
<1>2. ToCome' /\ AllRearmed' /\ Behind'
  BY <1>1 DEF ToCome, AllRearmed, Behind, Flag
<1>3. screen \subseteq Home(state_var)
  <2>1. stage \in Stages
    BY <1>1, StageNames DEF TypeOK, Lock!TypeOK
  <2>2. CASE state_var = stage
    <3>1. Flag(stage) = 0
      BY <2>1, <2>2 DEF Draw, Flag, Stages
    <3>. QED BY <1>1, <2>2, <3>1 DEF Clean
  <2>3. CASE state_var = Before(stage) /\ Flag(stage) = 1
    BY <1>1, <2>3 DEF Clean
  <2>. QED BY <1>1, <2>2, <2>3 DEF Behind, Draw
<1>4. screen' \subseteq Home(state_var)
  BY <1>1, <1>3
<1>5. Clean'
  <2>1. stage \in Stages
    BY <1>1, StageNames DEF TypeOK, Lock!TypeOK
  <2>2. CASE state_var = stage
    <3>1. Flag(stage) = 0
      BY <2>1, <2>2 DEF Draw, Flag, Stages
    <3>. QED BY <1>1, <1>4, <2>2, <3>1 DEF Clean, Flag
  <2>3. CASE state_var = Before(stage) /\ Flag(stage) = 1
    BY <1>1, <1>4, <2>3 DEF Clean, Flag, Before
  <2>. QED BY <1>1, <2>2, <2>3 DEF Behind, Draw
<1>. QED BY <1>2, <1>5

LEMMA OrderlyStep == Inv /\ [Next]_vars => Orderly'
<1>. SUFFICES ASSUME Inv, [Next]_vars PROVE Orderly'
  OBVIOUS
<1>1. CASE Poll
  <2>1. /\ UNCHANGED <<stage, flags, screen, waited, whole>>
        /\ state_var' = stage
    <3>1. stage \in Stages
      BY StageNames DEF Inv, TypeOK, Lock!TypeOK
    <3>. QED BY <1>1, <3>1, LoadedStage DEF Poll, lockVars, history
  <2>. QED BY <2>1 DEF Inv, Orderly, ToCome, AllRearmed, Behind, Clean, Flag
<1>2. CASE Clear
  BY <1>2, OrderlyClear
<1>3. CASE Draw
  BY <1>3, OrderlyDraw
<1>4. CASE LockMoves
  BY <1>4, OrderlyLock
<1>5. CASE PollTorn
  BY <1>5 DEF PollTorn, Orderly
<1>6. CASE StickMoves \/ UNCHANGED vars
  <2>1. UNCHANGED <<lockVars, mainVars, history>>
    BY <1>6 DEF StickMoves, vars
  <2>. QED BY <2>1 DEF Inv, Orderly, ToCome, AllRearmed, Behind, Clean, Flag, Before,
                       lockVars, mainVars, history
<1>. QED BY <1>1, <1>2, <1>3, <1>4, <1>5, <1>6 DEF Next

\* Pictures of two stages are never on the screen together for a player who waits for
\* every screen, as long as no load is torn: the flags, re-armed at victory and at the
\* start only, are all set again when a stage is entered.
THEOREM OnePictureAtATime == Spec => []OrderlyPicture
<1>1. Init => Inv
  <2>1. Init => NoFlicker
    BY DEF Init, NoFlicker
  <2>. QED BY <2>1, TypeInit, OrderlyInit DEF Inv
<1>2. Inv /\ [Next]_vars => Inv'
  BY TypeStep, FlickerStep, OrderlyStep DEF Inv
<1>3. Inv => OrderlyPicture
  <2>. SUFFICES ASSUME Inv, waited /\ whole PROVE OnePicture
    BY DEF OrderlyPicture
  <2>1. stage \in Stages /\ Clean
    BY StageNames DEF Inv, TypeOK, Lock!TypeOK, Orderly
  <2>. QED BY <2>1, StageBefore DEF OnePicture, Clean
<1>. QED BY <1>1, <1>2, <1>3, PTL DEF Spec
=============================================================================
