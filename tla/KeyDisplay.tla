----------------------------- MODULE KeyDisplay -----------------------------
(***************************************************************************)
(* From a finger to the digits of the counting game: the scanner finds the *)
(* key, the hit is debounced, and the debounced hit lights the display     *)
(* (bankVault.sv, the first game), one digit of which shows the key that   *)
(* is decoded at that moment.                                              *)
(***************************************************************************)
EXTENDS KeypadScan, Debounce, SampleHistory

VARIABLES d,        \* the registers of debounce_0
          ctTemp,   \* are digits lit?
          last, stable   \* history of kphit, as DebounceFilter keeps it

display == <<d, ctTemp, last, stable>>
all == <<vars, display>>

kphit == Level(Hit(keys))

DisplayTypeOK == ScanTypeOK /\ d \in DebounceReg /\ ctTemp \in Bit

DisplayInit == ScanInit /\ d = DebounceReset /\ ctTemp = 0 /\ last = 0 /\ stable = 2

\* (Variant: a digit once lit stays lit.)
GateLatched == ctTemp' = Level(ctTemp = 1 \/ d.debouncedInput = 1)

\* ctTemp takes the debounced hit of before the edge.
Gate == ctTemp' = d.debouncedInput

DisplayClk ==
  /\ ScanClk /\ Gate
  /\ IF reset_n = 0 THEN UNCHANGED <<d, last, stable>>
     ELSE /\ d' = DebounceClk(d, kphit)
          /\ last' = kphit
          /\ stable' = Streak(stable, last, kphit)

\* The scanner and debounce_0 are reset at once; ctTemp has no reset.
DisplayReset == /\ ResetFall /\ d' = DebounceReset /\ last' = 0 /\ stable' = 2
                /\ UNCHANGED ctTemp

DisplayNext == \/ DisplayClk \/ DisplayReset
               \/ (Press \/ Release \/ ResetRise) /\ UNCHANGED display

DisplaySpec == DisplayInit /\ [][DisplayNext]_all /\ WF_all(DisplayClk)
-----------------------------------------------------------------------------
\* A key held down alone is found, wherever the scan is when it goes down and
\* from whatever pattern the sequencer starts (colseq.sv), and stays found for
\* long enough to be debounced: the display lights up with its number.
KeyLights ==
  \A k \in Keys : keys = {k} ~> \/ Reported(k) /\ ctTemp = 1
                                \/ keys # {k} \/ reset_n = 0

\* Once nobody touches the keypad for good the digits, one of which then shows what
\* the decoder makes of no key, go dark and stay dark, also after a reset that
\* clears the debouncer but not the gate; a hit that stays lights them for good
\* (debounce.sv 55-86, bankVault.sv 213-216).  How soon is not part of it.
DigitsFollow ==
  /\ <>[](kphit = 0) => <>[](ctTemp = 0)
  /\ <>[](kphit = 1 /\ reset_n = 1) => <>[](ctTemp = 1)

\* The debouncer in its place is the debouncer that DebounceFilter describes,
\* reset together with the scanner that feeds it.
Filter == INSTANCE DebounceFilter WITH rawInput <- kphit
FilterSpec == Filter!Spec

\* Its promises, on the hits that the scanner produces (debounce.sv 55-86).
SettlesInFour == Filter!SettlesInFour
GlitchFiltered == Filter!GlitchFiltered
=============================================================================
