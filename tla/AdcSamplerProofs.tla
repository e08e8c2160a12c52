--------------------------- MODULE AdcSamplerProofs ---------------------------
(***************************************************************************)
(* What the interface to the converter reads is whole, and each axis gets  *)
(* its own channel, for words of any length and reset at any time.         *)
(***************************************************************************)
EXTENDS AdcSampler, TLAPS

(* The invariant, in parts.  A frame is Publish, three times Arm and        *)
(* WordBits + 1 times SckCycle; the state after each falling edge of clk    *)
(* and the one after the rising edge that follows are told apart.           *)

\* What the registers of the interface say of each other.
Phases ==
  /\ current_State = RESET /\ ~clk =>
       ~arm_Flag /\ sck_Count = 0 /\ next_State \in {ARM, RESET}
       /\ (next_State = RESET => frames = 0)
  /\ current_State = ARM /\ clk => sck_Count = 0 /\ next_State = ARM
  /\ current_State = ARM /\ ~clk =>
       arm_Flag /\ sck_Count = 0 /\ next_State \in {ARM, SCK_CYCLE}
       /\ (ADC_CONVST => next_State = ARM)
  /\ current_State = SCK_CYCLE => arm_Flag /\ ~ADC_CONVST
  /\ current_State = SCK_CYCLE /\ clk => next_State = SCK_CYCLE
  /\ current_State = SCK_CYCLE /\ ~clk =>
       \/ next_State = SCK_CYCLE /\ sck_Count > 0
       \/ next_State = RESET /\ sck_Count = WordBits - 1

\* After a whole frame nothing of an earlier reset is left in the registers.
Settled ==
  frames >= 1 => /\ current_State = RESET => ~ADC_CONVST /\ (clk <=> arm_Flag)
                 /\ ~arm_Flag => ~ADC_CONVST

\* The bits of result_Reg from position p on are those of the conversion.
Stored(p) == converted \in Channels /\ \A b \in Bits : b >= p => result_Reg[b] = converted

\* The bits the converter has left are those that the interface has yet to store.
InStep ==
  /\ ADC_CONVST \/ (current_State = ARM /\ arm_Flag) => left = WordBits /\ converted \in Channels
  /\ current_State = SCK_CYCLE /\ clk => left = Position /\ Stored(Position)
  /\ current_State = SCK_CYCLE /\ ~clk /\ next_State = SCK_CYCLE =>
       left = Position + 1 /\ Stored(Position + 1)
  /\ current_State = SCK_CYCLE /\ ~clk /\ next_State = RESET => left = 0 /\ Stored(0)
  /\ current_State = RESET /\ clk /\ frames >= 1 => left = 0 /\ Stored(1)

\* What is published after a frame is a word of one channel.
Published ==
  frames >= 1 /\ (current_State # RESET \/ ~clk) => result \in Channels

WordInv == TypeOK /\ Phases /\ Settled /\ InStep /\ Published

Other(c) == IF c = X_CHANNEL THEN Y_CHANNEL ELSE X_CHANNEL
Axis(c)  == IF c = X_CHANNEL THEN adc_x_value ELSE adc_y_value

\* Has the channel been toggled in this frame?
Toggled == arm_Flag /\ (clk \/ ~ADC_CONVST)

\* How many frames have stored a word for an axis.
Words == IF current_State # RESET /\ Toggled THEN frames + 1 ELSE frames

\* Which channel the converter was told to convert, and which one it converted.
Commands ==
  /\ left = 0 /\ (current_State = SCK_CYCLE \/ frames >= 1) => commanded = adc_chan
  /\ frames >= 1 /\ ~arm_Flag => left = 0
  /\ frames >= 1 /\ current_State # RESET /\ arm_Flag =>
       converted = IF Toggled THEN Other(adc_chan) ELSE adc_chan
  /\ frames >= 2 /\ current_State = RESET /\ clk => converted = Other(adc_chan)

\* So the word published for an axis is one of the other channel ...
Words2 == frames >= 2 /\ ~Toggled => result = Other(adc_chan)

\* ... and the axes fill up one after the other.
Axes == /\ Words >= 3 => Axis(Other(adc_chan)) = adc_chan
        /\ Words >= 4 => Axis(adc_chan) = Other(adc_chan)

AxesInv == Commands /\ Words2 /\ Axes

Inv == WordInv /\ AxesInv
-----------------------------------------------------------------------------
(* Types.                                                                  *)

LEMMA Places == /\ RESET # ARM /\ RESET # SCK_CYCLE /\ ARM # SCK_CYCLE
                /\ X_CHANNEL # Y_CHANNEL /\ None \notin Channels
                /\ Channels \subseteq Origins /\ None \in Origins
BY DEF RESET, ARM, SCK_CYCLE, X_CHANNEL, Y_CHANNEL, None, Channels, Origins

\* The bit that the counter points at is one of the word.
LEMMA PositionInWord ==
  ASSUME TypeOK
  PROVE  /\ Position \in Bits /\ Position = WordBits - 1 - sck_Count
         /\ sck_Count \in Nat /\ left \in Nat /\ WordBits \in Nat /\ WordBits >= 2
BY WordAssumption DEF TypeOK, Position, Bits

\* An edge of ADC_SCK, or none.
LEMMA SckTypes ==
  ASSUME TypeOK, Sck
  PROVE  /\ result_Reg' \in [Bits -> Origins] /\ left' \in 0 .. WordBits
         /\ commanded' \in Channels /\ converted' \in Origins
<1>. USE DEF TypeOK
<1>1. CASE Pulse
  <2>1. ADC_SDO \in Origins /\ adc_chan \in Channels
    BY Places DEF ADC_SDO
  <2>2. result_Reg' \in [Bits -> Origins]
    BY <1>1, <2>1 DEF Pulse
  <2>3. left' \in 0 .. WordBits
    BY <1>1, PositionInWord DEF Pulse
  <2>. QED BY <1>1, <2>1, <2>2, <2>3 DEF Pulse
<1>2. CASE UNCHANGED <<result_Reg, adc>>
  BY <1>2 DEF adc
<1>. QED BY <1>1, <1>2 DEF Sck

LEMMA ToggleTypes ==
  ASSUME TypeOK, Toggle
  PROVE  adc_chan' \in Channels /\ adc_x_value' \in Origins /\ adc_y_value' \in Origins
BY DEF TypeOK, Toggle, axes, Channels

LEMMA OriginTyped == ASSUME NEW word PROVE Origin(word) \in Origins
BY Places DEF Origin

LEMMA TypeInit == Init => TypeOK
<1>1. 0 \in Bits /\ 0 \in 0 .. WordBits /\ 0 \in 0 .. FramesEnough /\ FALSE \in BOOLEAN
  BY WordAssumption DEF Bits, FramesEnough
<1>2. Y_CHANNEL \in Channels
  BY DEF Channels
<1>. QED BY <1>1, <1>2, Places DEF Init, TypeOK

LEMMA TypeStep == TypeOK /\ [Next]_vars => TypeOK'
<1>. SUFFICES ASSUME TypeOK, [Next]_vars PROVE TypeOK'
  OBVIOUS
<1>1. CASE Rise
  <2>1. frames' \in 0 .. FramesEnough
    BY <1>1 DEF Rise, TypeOK, FramesEnough
  <2>2. /\ clk' = TRUE /\ current_State' \in {RESET, next_State}
        /\ UNCHANGED <<reset_n, next_State, arm_Flag, ADC_CONVST, sck_Count, result>>
    BY <1>1 DEF Rise
  <2>3. Sck /\ Toggle
    BY <1>1 DEF Rise
  <2>. QED BY <2>1, <2>2, <2>3, SckTypes, ToggleTypes DEF TypeOK
<1>2. CASE Fall
  <2>1. clk' = FALSE /\ UNCHANGED <<reset_n, current_State, result_Reg, axes, frames>>
    BY <1>2 DEF Fall
  <2>2. CASE Publish
    <3>1. 0 \in Bits
      BY WordAssumption DEF Bits
    <3>. QED BY <2>1, <2>2, <3>1, OriginTyped DEF Publish, TypeOK, axes, adc
  <2>3. CASE Arm
    <3>1. converted' \in Origins /\ commanded' \in Channels /\ left' \in 0 .. WordBits
      <4>1. CASE Convert
        BY <4>1, WordAssumption, Places DEF Convert, TypeOK
      <4>2. CASE UNCHANGED adc
        BY <4>2 DEF adc, TypeOK
      <4>. QED BY <2>3, <4>1, <4>2 DEF Arm
    <3>2. ADC_CONVST' \in BOOLEAN
      BY <2>3 DEF Arm
    <3>. QED BY <2>1, <2>3, <3>1, <3>2 DEF Arm, TypeOK, axes
  <2>4. CASE SckCycle
    <3>1. sck_Count' \in Bits
      BY <2>4, WordAssumption DEF SckCycle, TypeOK, Bits
    <3>. QED BY <2>1, <2>4, <3>1 DEF SckCycle, TypeOK, axes, adc
  <2>. QED BY <1>2, <2>2, <2>3, <2>4 DEF Fall
<1>3. CASE Reset
  BY <1>3 DEF Reset, fsm, axes, adc, TypeOK
<1>4. CASE UNCHANGED vars
  BY <1>4 DEF vars, fsm, axes, adc, TypeOK
<1>. QED BY <1>1, <1>2, <1>3, <1>4 DEF Next
-----------------------------------------------------------------------------
(* Words.                                                                  *)

LEMMA WordInit == Init => WordInv
<1>. SUFFICES ASSUME Init PROVE WordInv
  OBVIOUS
<1>1. Phases /\ Settled
  BY Places DEF Init, Phases, Settled
<1>2. InStep /\ Published
  BY Places DEF Init, InStep, Published
<1>. QED BY <1>1, <1>2, TypeInit DEF WordInv

\* The rising edge: the state is taken over, the channel toggled, a bit stored.
LEMMA RisePhases == ASSUME WordInv, Rise PROVE Phases' /\ Settled'
<1>1. TypeOK /\ Phases /\ Settled
  BY DEF WordInv
<1>2. /\ ~clk /\ clk' /\ frames \in Nat /\ sck_Count \in Nat
      /\ current_State' = IF reset_n THEN next_State ELSE RESET
      /\ frames' = IF ~reset_n THEN 0
                   ELSE IF current_State = SCK_CYCLE /\ next_State = RESET
                             /\ frames < FramesEnough THEN frames + 1 ELSE frames
      /\ UNCHANGED <<next_State, arm_Flag, ADC_CONVST, sck_Count>>
  BY <1>1 DEF Rise, TypeOK, Bits
<1>3. frames' \in Nat
  BY <1>1, <1>2 DEF TypeOK
<1>4. Phases'
  BY <1>1, <1>2, Places DEF Phases, TypeOK
<1>5. Settled'
  <2>1. CASE ~reset_n
    BY <1>2, <2>1 DEF Settled
  <2>2. CASE reset_n
    BY <1>1, <1>2, <2>2, Places DEF Phases, Settled, TypeOK
  <2>. QED BY <2>1, <2>2
<1>. QED BY <1>4, <1>5

\* A pulse stores the next bit.
LEMMA PulseStores ==
  ASSUME TypeOK, Pulse, left = Position + 1, converted \in Channels,
         \A b \in Bits : b >= Position + 1 => result_Reg[b] = converted
  PROVE  /\ left' = Position /\ converted' = converted
         /\ \A b \in Bits : b >= Position => result_Reg'[b] = converted
<1>1. left' = Position
  <2>1. Position \in Nat /\ left > 0 /\ left - 1 = Position
    BY PositionInWord DEF Bits
  <2>. QED BY <2>1 DEF Pulse
<1>2. result_Reg' = [result_Reg EXCEPT ![Position] = converted] /\ converted' = converted
  BY DEF Pulse, ADC_SDO
<1>3. ASSUME NEW b \in Bits, b >= Position PROVE result_Reg'[b] = converted
  <2>1. CASE b = Position
    BY <1>2, <2>1, PositionInWord DEF TypeOK
  <2>2. CASE b # Position
    <3>1. b >= Position + 1
      BY <1>3, <2>2, PositionInWord DEF Bits
    <3>. QED BY <1>2, <2>2, <3>1 DEF TypeOK
  <2>. QED BY <2>1, <2>2
<1>. QED BY <1>1, <1>2, <1>3

LEMMA RiseInStep == ASSUME WordInv, Rise PROVE InStep' /\ Published'
<1>1. TypeOK /\ Phases /\ Settled /\ InStep /\ Published
  BY DEF WordInv
<1>2. /\ ~clk /\ clk' /\ frames \in Nat
      /\ current_State' = IF reset_n THEN next_State ELSE RESET
      /\ frames' = IF ~reset_n THEN 0
                   ELSE IF current_State = SCK_CYCLE /\ next_State = RESET
                             /\ frames < FramesEnough THEN frames + 1 ELSE frames
      /\ UNCHANGED <<next_State, arm_Flag, ADC_CONVST, sck_Count, result>> /\ Sck
  BY <1>1 DEF Rise, TypeOK
<1>3. Position' = Position
  BY <1>2 DEF Position
<1>4. CASE current_State = RESET
  BY <1>1, <1>2, <1>4, Places DEF InStep, Published, Phases, Settled, Sck, adc
<1>5. CASE current_State = ARM /\ current_State' = ARM
  BY <1>1, <1>2, <1>5, Places DEF InStep, Published, Phases, Settled, Sck, adc
<1>6. CASE current_State = ARM /\ current_State' = SCK_CYCLE
  <2>1. arm_Flag /\ sck_Count = 0 /\ ~ADC_CONVST /\ left = WordBits /\ converted \in Channels
    BY <1>1, <1>2, <1>6, Places DEF Phases, InStep
  <2>2. left = Position + 1 /\ \A b \in Bits : ~(b >= Position + 1)
    BY <2>1, PositionInWord, <1>1 DEF Bits
  <2>3. Pulse
    BY <1>2, <1>6, Places DEF Sck
  <2>4. left' = Position /\ Stored(Position)'
    BY <1>1, <1>3, <2>1, <2>2, <2>3, PulseStores DEF Stored
  <2>5. InStep'
    BY <1>2, <1>3, <1>6, <2>1, <2>4, Places DEF InStep
  <2>6. Published'
    BY <1>1, <1>2, <1>6, Places DEF Published
  <2>. QED BY <2>5, <2>6
<1>7. CASE current_State = ARM /\ current_State' = RESET
  <2>1. ~reset_n /\ frames' = 0
    BY <1>1, <1>2, <1>7, Places DEF Phases
  <2>2. UNCHANGED adc
    BY <1>2, <1>7, Places DEF Sck
  <2>. QED BY <1>1, <1>2, <1>7, <2>1, <2>2, Places DEF InStep, Published, adc
<1>8. CASE current_State = SCK_CYCLE /\ current_State' = SCK_CYCLE
  <2>1. ~ADC_CONVST /\ next_State = SCK_CYCLE
    BY <1>1, <1>2, <1>8, Places DEF Phases
  <2>2. left = Position + 1 /\ Stored(Position + 1)
    BY <1>1, <1>2, <1>8, <2>1 DEF InStep
  <2>3. Pulse
    BY <1>2, <1>8 DEF Sck
  <2>4. left' = Position /\ Stored(Position)'
    BY <1>1, <1>3, <2>2, <2>3, PulseStores DEF Stored
  <2>5. InStep'
    BY <1>2, <1>3, <1>8, <2>1, <2>4, Places DEF InStep
  <2>6. Published'
    <3>1. frames' = frames \/ frames' = 0
      BY <1>2, <2>1, Places
    <3>. QED BY <1>1, <1>2, <1>8, <3>1, Places DEF Published
  <2>. QED BY <2>5, <2>6
<1>9. CASE current_State = SCK_CYCLE /\ current_State' = RESET
  <2>1. ~ADC_CONVST' /\ Published'
    BY <1>1, <1>2, <1>9, Places DEF Phases, Published
  <2>2. CASE ~reset_n
    BY <1>2, <1>9, <2>1, <2>2, Places DEF InStep
  <2>3. CASE reset_n
    <3>1. next_State = RESET /\ sck_Count = WordBits - 1 /\ left = 0 /\ Stored(0)
      BY <1>1, <1>2, <1>9, <2>3, Places DEF Phases, InStep
    <3>2. Position = 0
      BY <3>1, PositionInWord, <1>1
    <3>3. left' = 0 /\ Stored(1)'
      <4>1. CASE Pulse
        <5>1. left' = 0 /\ converted' = converted
          BY <3>1, <4>1 DEF Pulse
        <5>2. \A b \in Bits : b >= 1 => result_Reg'[b] = result_Reg[b]
          BY <1>1, <3>2, <4>1 DEF Pulse, TypeOK, Bits
        <5>3. \A b \in Bits : b >= 1 => b >= 0
          BY WordAssumption DEF Bits
        <5>. QED BY <3>1, <5>1, <5>2, <5>3 DEF Stored
      <4>2. CASE UNCHANGED <<result_Reg, adc>>
        <5>1. \A b \in Bits : b >= 0
          BY WordAssumption DEF Bits
        <5>. QED BY <3>1, <4>2, <5>1 DEF Stored, adc
      <4>. QED BY <1>2, <4>1, <4>2 DEF Sck
    <3>. QED BY <1>2, <1>9, <2>1, <3>3, Places DEF InStep
  <2>. QED BY <2>1, <2>2, <2>3
<1>10. current_State' \in {RESET, ARM, SCK_CYCLE} /\ current_State \in {RESET, ARM, SCK_CYCLE}
  BY <1>1, <1>2 DEF TypeOK
<1>11. current_State = SCK_CYCLE => current_State' # ARM
  BY <1>1, <1>2, Places DEF Phases
<1>. QED BY <1>4, <1>5, <1>6, <1>7, <1>8, <1>9, <1>10, <1>11

\* A word whose bits, the last one apart, are those of one conversion comes from it.
LEMMA WholeOrigin ==
  ASSUME TypeOK, Stored(1)
  PROVE  Origin(result_Reg) = converted /\ converted \in Channels
<1>1. converted \in Channels /\ \A b \in Bits \ {0} : result_Reg[b] = converted
  BY WordAssumption DEF Stored, Bits
<1>2. 1 \in Bits \ {0}
  BY WordAssumption DEF Bits
<1>3. ASSUME NEW c \in Channels, \A b \in Bits \ {0} : result_Reg[b] = c
      PROVE  c = converted
  BY <1>1, <1>2, <1>3
<1>. QED BY <1>1, <1>3 DEF Origin

\* The falling edge: one step of the state that the rising edge took over.
LEMMA FallWord == ASSUME WordInv, Fall PROVE WordInv'
<1>1. TypeOK /\ Phases /\ Settled /\ InStep /\ Published
  BY DEF WordInv
<1>2. clk /\ clk' = FALSE /\ UNCHANGED <<reset_n, current_State, result_Reg, axes, frames>>
  BY DEF Fall
<1>3. TypeOK'
  BY <1>1, TypeStep DEF Next
<1>4. CASE Publish
  <2>1. Phases' /\ Settled'
    BY <1>1, <1>2, <1>4, Places DEF Phases, Settled, Publish
  <2>2. InStep'
    BY <1>1, <1>2, <1>4, Places DEF InStep, Publish, adc
  <2>3. Published'
    <3>1. frames >= 1 => Stored(1)
      BY <1>1, <1>2, <1>4 DEF InStep, Publish
    <3>. QED BY <1>1, <1>2, <1>4, <3>1, WholeOrigin DEF Published, Publish
  <2>. QED BY <1>3, <2>1, <2>2, <2>3 DEF WordInv
<1>5. CASE Arm
  <2>1. Phases' /\ Settled'
    BY <1>1, <1>2, <1>5, Places DEF Phases, Settled, Arm
  <2>2. InStep'
    <3>1. left' = WordBits /\ converted' \in Channels
      <4>1. CASE ADC_CONVST' /\ ~ADC_CONVST
        <5>1. Convert
          BY <1>5, <4>1 DEF Arm
        <5>. QED BY <1>1, <5>1 DEF Convert, TypeOK
      <4>2. CASE ~(ADC_CONVST' /\ ~ADC_CONVST)
        <5>1. UNCHANGED adc
          BY <1>5, <4>2 DEF Arm
        <5>2. ADC_CONVST \/ arm_Flag
          BY <1>5, <4>2 DEF Arm
        <5>. QED BY <1>1, <1>5, <5>1, <5>2 DEF InStep, Arm, adc
      <4>. QED BY <4>1, <4>2
    <3>. QED BY <1>2, <1>5, <3>1, Places DEF InStep, Arm
  <2>3. Published'
    BY <1>1, <1>2, <1>5, Places DEF Published, Arm
  <2>. QED BY <1>3, <2>1, <2>2, <2>3 DEF WordInv
<1>6. CASE SckCycle
  <2>1. /\ current_State = SCK_CYCLE /\ next_State = SCK_CYCLE /\ arm_Flag /\ ~ADC_CONVST
        /\ left = Position /\ Stored(Position)
        /\ UNCHANGED <<arm_Flag, ADC_CONVST, result, adc>>
    BY <1>1, <1>2, <1>6, Places DEF Phases, InStep, SckCycle
  <2>2. CASE sck_Count < WordBits - 1
    <3>1. sck_Count' = sck_Count + 1 /\ next_State' = SCK_CYCLE
      BY <1>6, <2>1, <2>2 DEF SckCycle
    <3>2. Position' + 1 = Position /\ sck_Count' > 0
      BY <1>1, <3>1, PositionInWord DEF Position
    <3>3. Phases' /\ Settled'
      BY <1>1, <1>2, <2>1, <3>1, <3>2, Places DEF Phases, Settled
    <3>4. left' = Position' + 1 /\ Stored(Position + 1)'
      BY <1>2, <2>1, <3>2 DEF Stored, adc
    <3>5. InStep'
      BY <1>2, <2>1, <3>1, <3>4, Places DEF InStep
    <3>6. Published'
      BY <1>1, <1>2, <2>1, Places DEF Published
    <3>. QED BY <1>3, <3>3, <3>5, <3>6 DEF WordInv
  <2>3. CASE ~(sck_Count < WordBits - 1)
    <3>1. sck_Count' = sck_Count /\ next_State' = RESET
      BY <1>6, <2>3 DEF SckCycle
    <3>2. sck_Count = WordBits - 1 /\ Position = 0
      BY <1>1, <2>3, PositionInWord DEF TypeOK, Bits
    <3>3. Phases' /\ Settled'
      BY <1>1, <1>2, <2>1, <3>1, <3>2, Places DEF Phases, Settled
    <3>4. left' = 0 /\ Stored(0)'
      BY <1>2, <2>1, <3>2 DEF Stored, adc
    <3>5. InStep'
      BY <1>2, <2>1, <3>1, <3>4, Places DEF InStep
    <3>6. Published'
      BY <1>1, <1>2, <2>1, Places DEF Published
    <3>. QED BY <1>3, <3>3, <3>5, <3>6 DEF WordInv
  <2>. QED BY <2>2, <2>3
<1>. QED BY <1>4, <1>5, <1>6 DEF Fall

LEMMA WordStep == WordInv /\ [Next]_vars => WordInv'
<1>. SUFFICES ASSUME WordInv, [Next]_vars PROVE WordInv'
  OBVIOUS
<1>1. TypeOK'
  BY TypeStep DEF WordInv
<1>2. CASE Rise
  BY <1>1, <1>2, RisePhases, RiseInStep DEF WordInv
<1>3. CASE Fall
  BY <1>3, FallWord
<1>4. CASE Reset \/ UNCHANGED vars
  <2>1. UNCHANGED <<clk, fsm, result_Reg, result, axes, adc, frames>>
    BY <1>4 DEF Reset, vars
  <2>2. Phases' /\ Settled' /\ Published'
    BY <2>1 DEF WordInv, Phases, Settled, Published, fsm
  <2>3. InStep'
    BY <2>1 DEF WordInv, InStep, Stored, Position, fsm, adc
  <2>. QED BY <1>1, <2>2, <2>3 DEF WordInv
<1>. QED BY <1>2, <1>3, <1>4 DEF Next

LEMMA WordInvariant == Spec => []WordInv
<1>. QED BY WordInit, WordStep, PTL DEF Spec

\* The registers keep their types: the bit counter stays inside the word although
\* reset stops a frame at any bit.
THEOREM TypeCorrect == Spec => []TypeOK
<1>1. WordInv => TypeOK
  BY DEF WordInv
<1>. QED BY <1>1, WordInvariant, PTL

\* After the first whole frame every published word is one conversion, whole,
\* whenever reset stopped the frames before it.
THEOREM WordsWhole == Spec => []WholeWord
<1>1. WordInv => WholeWord
  BY Places DEF WordInv, Published, WholeWord
<1>. QED BY <1>1, WordInvariant, PTL
-----------------------------------------------------------------------------
(* Axes.                                                                   *)

LEMMA Others ==
  ASSUME NEW c \in Channels
  PROVE  Other(c) \in Channels /\ Other(c) # c /\ Other(Other(c)) = c
BY Places DEF Other, Channels

\* The toggle stores the published word for the channel and moves on to the other.
LEMMA ToggleStores ==
  ASSUME TypeOK, Toggle, ADC_CONVST
  PROVE  /\ adc_chan' = Other(adc_chan)
         /\ Axis(Other(adc_chan))' = result
         /\ Axis(adc_chan)' = Axis(Other(adc_chan))
BY Places DEF TypeOK, Toggle, Other, Axis, Channels

LEMMA AxesInit == Init => AxesInv
BY Places DEF Init, AxesInv, Commands, Words2, Axes, Words, Toggled

\* The frame goes on at the rising edge without a toggle.
LEMMA RiseSckAxes ==
  ASSUME WordInv, WordInv', AxesInv, Rise, current_State' = SCK_CYCLE
  PROVE  AxesInv'
<1>1. /\ TypeOK /\ ~clk /\ clk' /\ frames \in Nat
      /\ reset_n /\ next_State = SCK_CYCLE /\ current_State \in {ARM, SCK_CYCLE}
      /\ arm_Flag /\ ~ADC_CONVST
      /\ left = WordBits \/ left = Position + 1
      /\ UNCHANGED <<next_State, arm_Flag, ADC_CONVST, sck_Count, result>>
  BY Places DEF Rise, WordInv, Phases, InStep, TypeOK
<1>2. frames' = frames
  BY <1>1, Places DEF Rise
<1>3. UNCHANGED axes
  BY <1>1 DEF Rise, Toggle
<1>4. Pulse
  BY Places DEF Rise, Sck
<1>5. left' = 0 => commanded' = adc_chan'
  <2>1. Position \in Nat /\ WordBits \in Nat /\ WordBits > 0
    BY <1>1, PositionInWord DEF Bits
  <2>2. left \in Nat /\ left > 0
    BY <1>1, <2>1
  <2>. QED BY <1>3, <1>4, <2>2 DEF Pulse, axes
<1>6. Toggled /\ Toggled' /\ Words' = Words /\ converted' = converted
  BY <1>1, <1>2, <1>4, Places DEF Toggled, Words, Pulse
<1>7. Commands'
  BY <1>1, <1>2, <1>3, <1>5, <1>6, Places DEF AxesInv, Commands, axes
<1>8. Words2' /\ Axes'
  BY <1>3, <1>6 DEF AxesInv, Words2, Axes, Axis, axes
<1>. QED BY <1>7, <1>8 DEF AxesInv

\* While the interface arms the converter the channel may be toggled.
LEMMA RiseArmAxes ==
  ASSUME WordInv, AxesInv, Rise, current_State' = ARM
  PROVE  AxesInv'
<1>1. /\ TypeOK /\ ~clk /\ clk' /\ frames \in Nat
      /\ reset_n /\ next_State = ARM /\ current_State \in {ARM, RESET}
      /\ current_State = RESET => ~arm_Flag
      /\ current_State = ARM => arm_Flag
      /\ ADC_CONVST => left = WordBits
      /\ ADC_CONVST /\ frames >= 1 => current_State = ARM
      /\ UNCHANGED <<next_State, arm_Flag, ADC_CONVST, sck_Count, result>>
  BY Places DEF Rise, WordInv, Phases, Settled, InStep, TypeOK
<1>2. frames' = frames
  BY <1>1, Places DEF Rise
<1>3. UNCHANGED adc
  BY <1>1, Places DEF Rise, Sck
<1>4. Toggle
  BY DEF Rise
<1>5. adc_chan \in Channels /\ Other(adc_chan) # adc_chan /\ Other(Other(adc_chan)) = adc_chan
  BY <1>1, Others DEF TypeOK
<1>6. CASE ~ADC_CONVST
  <2>1. UNCHANGED axes
    BY <1>4, <1>6 DEF Toggle
  <2>2. (Toggled' <=> Toggled) /\ Words' = Words
    BY <1>1, <1>2, <1>6, Places DEF Toggled, Words
  <2>3. Commands'
    BY <1>1, <1>2, <1>3, <2>1, <2>2, Places DEF AxesInv, Commands, axes, adc
  <2>4. Words2' /\ Axes'
    BY <1>1, <1>2, <2>1, <2>2 DEF AxesInv, Words2, Axes, Axis, axes
  <2>. QED BY <2>3, <2>4 DEF AxesInv
<1>7. CASE ADC_CONVST /\ frames = 0
  <2>1. Words' \in {0, 1}
    BY <1>2, <1>7 DEF Words
  <2>2. Commands'
    BY <1>2, <1>7, Places DEF Commands
  <2>3. Words2' /\ Axes'
    BY <1>2, <1>7, <2>1 DEF Words2, Axes
  <2>. QED BY <2>2, <2>3 DEF AxesInv
<1>8. CASE ADC_CONVST /\ frames >= 1
  <2>1. current_State = ARM /\ arm_Flag /\ left = WordBits /\ left # 0
    BY <1>1, <1>8, PositionInWord
  <2>2. ~Toggled /\ Toggled' /\ Words = frames /\ Words' = frames + 1
    BY <1>1, <1>2, <1>8, <2>1, Places DEF Toggled, Words
  <2>3. /\ adc_chan' = Other(adc_chan)
        /\ Axis(Other(adc_chan))' = result /\ Axis(adc_chan)' = Axis(Other(adc_chan))
    BY <1>1, <1>4, <1>8, ToggleStores
  <2>4. converted = adc_chan
    BY <1>8, <2>1, <2>2, Places DEF AxesInv, Commands
  <2>5. Commands'
    BY <1>1, <1>2, <1>3, <1>5, <2>1, <2>2, <2>3, <2>4, Places DEF Commands, adc
  <2>6. Words2'
    BY <2>2 DEF Words2
  <2>7. Words' >= 3 => Axis(Other(adc_chan))' = adc_chan'
    BY <1>1, <2>2, <2>3 DEF AxesInv, Words2
  <2>8. Words' >= 4 => Axis(adc_chan)' = Other(adc_chan)'
    BY <1>1, <1>5, <2>2, <2>3 DEF AxesInv, Axes
  <2>. QED BY <2>5, <2>6, <2>7, <2>8 DEF AxesInv, Axes
<1>. QED BY <1>1, <1>6, <1>7, <1>8

\* A frame ends, or reset starts over.
LEMMA RiseResetAxes ==
  ASSUME WordInv, AxesInv, Rise, current_State' = RESET
  PROVE  AxesInv'
<1>1. /\ TypeOK /\ ~clk /\ clk' /\ frames \in Nat
      /\ UNCHANGED <<next_State, arm_Flag, ADC_CONVST, sck_Count, result>>
  BY DEF Rise, WordInv, TypeOK
<1>2. CASE frames' = 0
  <2>1. Words' = 0
    BY <1>2 DEF Words
  <2>2. Commands'
    BY <1>2, Places DEF Commands
  <2>3. Words2' /\ Axes'
    BY <1>2, <2>1 DEF Words2, Axes
  <2>. QED BY <2>2, <2>3 DEF AxesInv
<1>3. CASE frames' # 0
  <2>1. reset_n /\ next_State = RESET /\ current_State = SCK_CYCLE
    BY <1>1, <1>3, Places DEF Rise, WordInv, Phases, TypeOK
  <2>2. arm_Flag /\ ~ADC_CONVST /\ left = 0
    BY <1>1, <2>1, Places DEF WordInv, Phases, InStep
  <2>3. frames' \in Nat /\ frames' <= frames + 1
    BY <1>1, <2>1 DEF Rise
  <2>4. UNCHANGED axes
    BY <2>2 DEF Rise, Toggle
  <2>5. left' = 0 /\ commanded' = commanded /\ converted' = converted
    <3>1. CASE Pulse
      BY <2>2, <3>1 DEF Pulse
    <3>2. CASE UNCHANGED adc
      BY <2>2, <3>2 DEF adc
    <3>. QED BY <3>1, <3>2 DEF Rise, Sck
  <2>6. Toggled /\ Toggled' /\ Words = frames + 1 /\ Words' = frames'
    BY <1>1, <2>1, <2>2, Places DEF Toggled, Words
  <2>7. Commands'
    <3>1. commanded = adc_chan
      BY <2>1, <2>2 DEF AxesInv, Commands
    <3>2. frames' >= 2 => converted = Other(adc_chan)
      BY <1>1, <2>1, <2>2, <2>3, <2>6, Places DEF AxesInv, Commands
    <3>. QED BY <1>1, <2>2, <2>4, <2>5, <3>1, <3>2, Places DEF Commands, axes
  <2>8. Words2'
    BY <2>6 DEF Words2
  <2>9. Axes'
    BY <1>1, <2>3, <2>4, <2>6 DEF AxesInv, Axes, Axis, axes
  <2>. QED BY <2>7, <2>8, <2>9 DEF AxesInv
<1>. QED BY <1>2, <1>3

\* The falling edge publishes a word, has the converter convert or counts a bit.
LEMMA FallAxes ==
  ASSUME WordInv, WordInv', AxesInv, Fall
  PROVE  AxesInv'
<1>1. /\ TypeOK /\ clk /\ ~clk' /\ frames \in Nat
      /\ UNCHANGED <<reset_n, current_State, result_Reg, axes, frames>>
  BY DEF Fall, WordInv, TypeOK
<1>2. CASE Publish
  <2>1. /\ current_State = RESET /\ ~arm_Flag' /\ UNCHANGED <<ADC_CONVST, adc>>
        /\ result' = Origin(result_Reg)
        /\ frames >= 1 => left = 0 /\ Stored(1)
    BY <1>1, <1>2 DEF Publish, WordInv, InStep
  <2>2. Words' = Words
    BY <1>1, <2>1 DEF Words
  <2>3. Commands'
    BY <1>1, <2>1 DEF AxesInv, Commands, axes, adc
  <2>4. Words2'
    <3>1. frames >= 2 => Stored(1) /\ converted = Other(adc_chan)
      BY <1>1, <2>1 DEF AxesInv, Commands
    <3>. QED BY <1>1, <2>1, <3>1, WholeOrigin DEF Words2, axes
  <2>5. Axes'
    BY <1>1, <2>2 DEF AxesInv, Axes, Axis, axes
  <2>. QED BY <2>3, <2>4, <2>5 DEF AxesInv
<1>3. CASE Arm
  <2>1. /\ current_State = ARM /\ arm_Flag' /\ (ADC_CONVST' <=> ~arm_Flag)
        /\ result' = result
    BY <1>3 DEF Arm
  <2>2. (Toggled' <=> Toggled) /\ Words' = Words
    BY <1>1, <2>1, Places DEF Toggled, Words
  <2>3. left' # 0
    BY <1>1, <2>1, WordAssumption DEF WordInv, InStep
  <2>4. frames >= 1 => converted' = IF Toggled' THEN Other(adc_chan) ELSE adc_chan
    <3>1. CASE arm_Flag
      <4>1. UNCHANGED adc
        BY <1>3, <2>1, <3>1 DEF Arm
      <4>. QED BY <1>1, <2>1, <2>2, <3>1, <4>1, Places DEF AxesInv, Commands, adc
    <3>2. CASE ~arm_Flag
      <4>1. SUFFICES ASSUME frames >= 1 PROVE converted' = adc_chan
        BY <1>1, <2>1, <3>2 DEF Toggled
      <4>2. ~ADC_CONVST /\ left = 0 /\ commanded = adc_chan
        BY <3>2, <4>1 DEF WordInv, Settled, AxesInv, Commands
      <4>. QED BY <1>3, <2>1, <3>2, <4>2 DEF Arm, Convert
    <3>. QED BY <3>1, <3>2
  <2>5. Commands'
    BY <1>1, <2>1, <2>3, <2>4, Places DEF Commands, axes
  <2>6. Words2' /\ Axes'
    BY <1>1, <2>1, <2>2 DEF AxesInv, Words2, Axes, Axis, axes
  <2>. QED BY <2>5, <2>6 DEF AxesInv
<1>4. CASE SckCycle
  <2>1. current_State = SCK_CYCLE /\ UNCHANGED <<arm_Flag, ADC_CONVST, result, adc>>
    BY <1>4 DEF SckCycle
  <2>2. arm_Flag /\ ~ADC_CONVST
    BY <2>1 DEF WordInv, Phases
  <2>3. Toggled /\ Toggled' /\ Words' = Words
    BY <1>1, <2>1, <2>2 DEF Toggled, Words
  <2>4. Commands'
    BY <1>1, <2>1, <2>2, <2>3, Places DEF AxesInv, Commands, axes, adc
  <2>5. Words2' /\ Axes'
    BY <1>1, <2>3 DEF AxesInv, Words2, Axes, Axis, axes
  <2>. QED BY <2>4, <2>5 DEF AxesInv
<1>. QED BY <1>2, <1>3, <1>4 DEF Fall

LEMMA InvStep == Inv /\ [Next]_vars => Inv'
<1>. SUFFICES ASSUME Inv, [Next]_vars PROVE Inv'
  OBVIOUS
<1>1. WordInv /\ AxesInv /\ WordInv'
  BY WordStep DEF Inv
<1>2. CASE Rise
  <2>1. current_State' \in {RESET, ARM, SCK_CYCLE}
    BY <1>1 DEF WordInv, TypeOK
  <2>2. AxesInv'
    BY <1>1, <1>2, <2>1, RiseSckAxes, RiseArmAxes, RiseResetAxes
  <2>. QED BY <1>1, <2>2 DEF Inv
<1>3. CASE Fall
  BY <1>1, <1>3, FallAxes DEF Inv
<1>4. CASE Reset \/ UNCHANGED vars
  <2>1. UNCHANGED <<clk, fsm, result_Reg, result, axes, adc, frames>>
    BY <1>4 DEF Reset, vars
  <2>2. AxesInv'
    BY <1>1, <2>1 DEF AxesInv, Commands, Words2, Axes, Words, Toggled, Axis, fsm, axes, adc
  <2>. QED BY <1>1, <2>2 DEF Inv
<1>. QED BY <1>2, <1>3, <1>4 DEF Next

\* What the two axes hold once four frames have passed: the word stored with the
\* channel at X was converted with the channel at Y.  bankVault.sv 17-18 and 105-117
\* name them the other way round, and graphic_top.h 16 has "1 for X, 0 for Y".
AxesSwapped == frames = FramesEnough =>
                 adc_x_value = Y_CHANNEL /\ adc_y_value = X_CHANNEL

LEMMA InvHolds == Spec => []Inv
<1>1. Init => Inv
  BY WordInit, AxesInit DEF Inv
<1>. QED BY <1>1, InvStep, PTL DEF Spec

\* The disagreement of the axes with their names: four frames after any reset, which
\* may have left the toggle on either channel, adc_x_value is a word of Y_CHANNEL and
\* adc_y_value one of X_CHANNEL, because a frame stores the word of the frame before
\* it, converted after the toggle.
THEOREM NamesSwapped == Spec => []AxesSwapped
<1>1. Inv => AxesSwapped
  <2>. SUFFICES ASSUME Inv, frames = FramesEnough PROVE AxesSwapped
    BY DEF AxesSwapped
  <2>1. Words >= 3 /\ Words >= 4 /\ adc_chan \in Channels
    BY DEF Words, FramesEnough, Inv, WordInv, TypeOK
  <2>2. Axis(Other(adc_chan)) = adc_chan /\ Axis(adc_chan) = Other(adc_chan)
    BY <2>1 DEF Inv, AxesInv, Axes
  <2>. QED BY <2>1, <2>2, Places DEF AxesSwapped, Axis, Other, Channels
<1>. QED BY <1>1, InvHolds, PTL

\* Four frames after any reset the axes hold words of two different channels.
THEOREM AxesSettle == Spec => []AxesKept
<1>1. AxesSwapped => AxesKept
  BY DEF AxesSwapped, AxesKept, Channels
<1>. QED BY <1>1, NamesSwapped, PTL
=============================================================================
