------------------------------ MODULE AdcSampler ------------------------------
(***************************************************************************)
(* adcinterface.sv and the channel toggle of bankVault.sv.  The interface  *)
(* steps on the falling edge of clk, takes its state over on the rising    *)
(* one and gates clk onto ADC_SCK; the toggle works on the rising edge.    *)
(*                                                                         *)
(* Of a bit only its origin is kept: the channel that was converted, or    *)
(* None if it is not the bit of that weight of any conversion.             *)
(***************************************************************************)
EXTENDS Naturals

CONSTANT WordBits   \* bits of a result: 12 in the code

ASSUME WordAssumption == WordBits \in Nat /\ WordBits >= 2

VARIABLES reset_n, clk,
          current_State, next_State, arm_Flag, ADC_CONVST, sck_Count,
          result_Reg,                       \* origin of each bit
          result,                           \* origin of the word: adcValue
          adc_chan, adc_x_value, adc_y_value,
          converted, commanded, left,       \* the LTC2308
          frames                            \* history

fsm  == <<current_State, next_State, arm_Flag, ADC_CONVST, sck_Count>>
axes == <<adc_chan, adc_x_value, adc_y_value>>
adc  == <<converted, commanded, left>>
vars == <<reset_n, clk, fsm, result_Reg, result, axes, adc, frames>>

RESET     == 0
ARM       == 2
SCK_CYCLE == 3

Y_CHANNEL == 0
X_CHANNEL == 1
Channels  == {X_CHANNEL, Y_CHANNEL}
None      == 2
Origins   == Channels \cup {None}

Bits == 0 .. WordBits - 1

\* Bound of the history frames.
FramesEnough == 4

TypeOK == /\ reset_n \in BOOLEAN /\ clk \in BOOLEAN
          /\ current_State \in {RESET, ARM, SCK_CYCLE}
          /\ next_State \in {RESET, ARM, SCK_CYCLE}
          /\ arm_Flag \in BOOLEAN /\ ADC_CONVST \in BOOLEAN
          /\ sck_Count \in Bits
          /\ result_Reg \in [Bits -> Origins] /\ result \in Origins
          /\ adc_chan \in Channels
          /\ adc_x_value \in Origins /\ adc_y_value \in Origins
          /\ converted \in Origins /\ commanded \in Channels /\ left \in 0 .. WordBits
          /\ frames \in 0 .. FramesEnough

Init == /\ reset_n \in BOOLEAN /\ clk = FALSE
        /\ current_State = RESET /\ next_State = RESET
        /\ arm_Flag = FALSE /\ ADC_CONVST = FALSE /\ sck_Count = 0
        /\ result_Reg = [b \in Bits |-> None] /\ result = None
        /\ adc_chan = Y_CHANNEL /\ adc_x_value = None /\ adc_y_value = None
        /\ converted = None /\ commanded \in Channels /\ left = 0
        /\ frames = 0
-----------------------------------------------------------------------------
\* The converter is external: the rising edge of CONVST converts the channel that
\* the last whole frame commanded; the bits come out first to last.
Convert == /\ converted' \in IF left = 0 THEN {commanded} ELSE Channels
           /\ left' = WordBits
           /\ UNCHANGED commanded

\* The bit of result_Reg the next edge of ADC_SCK stores, and what is on ADC_SDO.
Position == WordBits - 1 - sck_Count
ADC_SDO  == IF left = Position + 1 THEN converted ELSE None

\* A rising edge of ADC_SCK; the last bit completes the command, which is the
\* channel (SDI follows command_Word bit by bit).
Pulse == /\ result_Reg' = [result_Reg EXCEPT ![Position] = ADC_SDO]
         /\ left' = IF left > 0 THEN left - 1 ELSE 0
         /\ commanded' = IF left = 1 THEN adc_chan ELSE commanded
         /\ UNCHANGED converted

\* The edge at which SCK_CYCLE begins is a pulse; the one at which it ends raises
\* ADC_SCK for the time current_State takes to change, which may count as one.
Sck == \/ SCK_CYCLE \in {current_State, current_State'} /\ Pulse
       \/ current_State' # SCK_CYCLE /\ UNCHANGED <<result_Reg, adc>>

\* Fault: the channel is toggled at every edge, not once per conversion.
ToggleAlways ==
  IF adc_chan = X_CHANNEL
    THEN adc_x_value' = result /\ adc_chan' = Y_CHANNEL /\ UNCHANGED adc_y_value
    ELSE adc_y_value' = result /\ adc_chan' = X_CHANNEL /\ UNCHANGED adc_x_value

\* The word stored for the axis is the one that was published before this
\* conversion.
Toggle ==
  IF ~ADC_CONVST THEN UNCHANGED axes
  ELSE IF adc_chan = X_CHANNEL
    THEN adc_x_value' = result /\ adc_chan' = Y_CHANNEL /\ UNCHANGED adc_y_value
    ELSE adc_y_value' = result /\ adc_chan' = X_CHANNEL /\ UNCHANGED adc_x_value

Rise == /\ ~clk
        /\ clk' = TRUE
        /\ current_State' = IF reset_n THEN next_State ELSE RESET
        /\ Sck
        /\ Toggle
        /\ frames' = IF ~reset_n THEN 0
                     ELSE IF current_State = SCK_CYCLE /\ next_State = RESET
                             /\ frames < FramesEnough THEN frames + 1
                     ELSE frames
        /\ UNCHANGED <<reset_n, next_State, arm_Flag, ADC_CONVST, sck_Count, result>>
-----------------------------------------------------------------------------
\* Where a word comes from, its last bit apart, which the short pulse may spoil.
Origin(word) == IF \E c \in Channels : \A b \in Bits \ {0} : word[b] = c
                  THEN CHOOSE c \in Channels : \A b \in Bits \ {0} : word[b] = c
                  ELSE None

\* Faults: RESET forgets the bit counter; RESET forgets arm_Flag; one bit too many.
PublishCounting == /\ current_State = RESET
                   /\ arm_Flag' = FALSE
                   /\ next_State' = ARM
                   /\ result' = Origin(result_Reg)
                      /\ UNCHANGED <<sck_Count, ADC_CONVST, adc>>

PublishArmed == /\ current_State = RESET
                /\ sck_Count' = 0
                /\ next_State' = ARM
                /\ result' = Origin(result_Reg)
                /\ UNCHANGED <<arm_Flag, ADC_CONVST, adc>>

SckCycleLong == /\ current_State = SCK_CYCLE
                /\ IF sck_Count < WordBits
                     THEN sck_Count' = sck_Count + 1 /\ UNCHANGED next_State
                     ELSE next_State' = RESET /\ UNCHANGED sck_Count
                /\ UNCHANGED <<arm_Flag, ADC_CONVST, result, adc>>

Publish == /\ current_State = RESET
           /\ arm_Flag' = FALSE
           /\ sck_Count' = 0
           /\ next_State' = ARM
           /\ result' = Origin(result_Reg)
           /\ UNCHANGED <<ADC_CONVST, adc>>

\* ADC_CONVST is raised for one clock; reset may have left it high.
Arm == /\ current_State = ARM
       /\ arm_Flag' = TRUE
       /\ ADC_CONVST' = ~arm_Flag
       /\ next_State' = IF arm_Flag /\ ~ADC_CONVST THEN SCK_CYCLE ELSE next_State
       /\ IF ADC_CONVST' /\ ~ADC_CONVST THEN Convert ELSE UNCHANGED adc
       /\ UNCHANGED <<sck_Count, result>>

SckCycle == /\ current_State = SCK_CYCLE
            /\ IF sck_Count < WordBits - 1
                 THEN sck_Count' = sck_Count + 1 /\ UNCHANGED next_State
                 ELSE next_State' = RESET /\ UNCHANGED sck_Count
            /\ UNCHANGED <<arm_Flag, ADC_CONVST, result, adc>>

Fall == /\ clk
        /\ clk' = FALSE
        /\ Publish \/ Arm \/ SckCycle
        /\ UNCHANGED <<reset_n, current_State, result_Reg, axes, frames>>

\* The reset button, at any time.
Reset == /\ reset_n' = ~reset_n
         /\ UNCHANGED <<clk, fsm, result_Reg, result, axes, adc, frames>>

Next == Rise \/ Fall \/ Reset

\* The clock runs.
Spec == Init /\ [][Next]_vars /\ WF_vars(Rise) /\ WF_vars(Fall)
-----------------------------------------------------------------------------
\* After the first whole frame a published word is one conversion, whole: a word torn
\* by reset in the middle of a frame, or read after reset left ADC_CONVST high, so
\* that it could not rise again, is replaced by the next frame (adcinterface.sv 43-67).
WholeWord == frames >= 1 /\ current_State # RESET => result # None

\* The two axes never share a channel: four frames after any reset, which may have
\* toggled the channel at every clock and stored one word under both names, each
\* axis holds a word of one channel and the other one a word of the other.  Since a
\* frame stores one axis, none changes its channel from then on; which of the two
\* channels it is, the names do not tell (AdcSamplerProofs, AxesSwapped).
AxesKept == frames = FramesEnough => {adc_x_value, adc_y_value} = Channels

\* Both axes keep being sampled unless the reset button is used again and again.
KeepsSampling ==
  []<>(~reset_n) \/ \A c \in Channels : []<>(adc_chan = c /\ ADC_CONVST)
=============================================================================
