--------------------------- MODULE KeyDisplayProofs ---------------------------
(***************************************************************************)
(* The debouncer of the keypad filters what the scanner finds, for every   *)
(* set of keys and number of fingers, and the display follows it.          *)
(***************************************************************************)
EXTENDS KeyDisplay, TLAPS

\* What the debouncer is fed is a bit.
LEMMA HitIsBit == kphit \in Bit
BY DEF kphit, Level, Bit

\* The composition implements DebounceFilter: whatever the fingers and the reset
\* do, debounce_0 takes the steps of a debouncer on its own.
THEOREM FilterInPlace == DisplaySpec => FilterSpec
<1>1. DisplayInit => Filter!Init
  BY HitIsBit DEF DisplayInit, ScanInit, Filter!Init, DebounceReset, Filter!DebounceReset, Bit, Filter!Bit
<1>2. [DisplayNext]_all => [Filter!Next]_Filter!vars
  <2>. SUFFICES ASSUME [DisplayNext]_all PROVE [Filter!Next]_Filter!vars
    OBVIOUS
  <2>0. kphit' \in Filter!Bit
    BY DEF kphit, Level, Filter!Bit
  <2>1. CASE DisplayClk
    <3>1. Filter!Clk
      BY <2>0, <2>1 DEF DisplayClk, ScanClk, Filter!Clk, DebounceClk, Filter!DebounceClk,
            Counting, Settled, Differ, Filter!Counting, Filter!Settled, Filter!Differ,
            Threshold, Filter!Threshold, Streak, Filter!Streak
    <3>. QED BY <3>1 DEF Filter!Next
  <2>2. CASE DisplayReset
    <3>1. Filter!ResetFall
      BY <2>0, <2>2 DEF DisplayReset, ResetFall, Filter!ResetFall, DebounceReset, Filter!DebounceReset
    <3>. QED BY <3>1 DEF Filter!Next
  <2>3. CASE (Press \/ Release) /\ UNCHANGED display
    <3>1. Filter!Input
      BY <2>0, <2>3 DEF Press, Release, display, Filter!Input
    <3>. QED BY <3>1 DEF Filter!Next
  <2>4. CASE ResetRise /\ UNCHANGED display
    <3>1. UNCHANGED kphit
      BY <2>4 DEF ResetRise, kphit, Hit, LowRows
    <3>2. Filter!ResetRise
      BY <3>1, <2>4 DEF ResetRise, Filter!ResetRise, display
    <3>. QED BY <3>2 DEF Filter!Next
  <2>5. CASE UNCHANGED all
    BY <2>5 DEF all, display, vars, Filter!vars, kphit, Hit, LowRows
  <2>. QED BY <2>1, <2>2, <2>3, <2>4, <2>5 DEF DisplayNext
<1>. QED BY <1>1, <1>2, PTL DEF DisplaySpec, FilterSpec, Filter!Spec

\* The two flip-flops hold the last two samples; counter and output say how long
\* these have agreed.
Remembers(r, sample, run) ==
  /\ r.Q1 = sample
  /\ run = 1 => r.Q2 # sample
  /\ run >= 2 => r.Q2 = sample
  /\ run = 2 => r.count = 0
  /\ run = 3 => r.count = 1
  /\ run >= 4 => r.debouncedInput = sample

\* An edge of the clock keeps types and memory, whatever the raw input: this is
\* about each of the three debouncers of the vault.
LEMMA EdgeRemembers ==
  ASSUME NEW r \in DebounceReg, NEW sample \in Bit, NEW run \in 1 .. Window, NEW raw \in Bit,
         Remembers(r, sample, run)
  PROVE  /\ DebounceClk(r, raw) \in DebounceReg
         /\ Streak(run, sample, raw) \in 1 .. Window
         /\ Remembers(DebounceClk(r, raw), raw, Streak(run, sample, raw))
<1>1. DebounceClk(r, raw) \in DebounceReg
  BY DEF DebounceClk, DebounceReg, Counting, Settled, Differ, Threshold, Bit
<1>2. Streak(run, sample, raw) \in 1 .. Window
  BY WindowAssumption DEF Streak
<1>3. CASE raw # sample
  BY <1>1, <1>2, <1>3, WindowAssumption DEF Remembers, DebounceClk, Streak
<1>4. CASE raw = sample
  BY <1>1, <1>2, <1>4, WindowAssumption
  DEF Remembers, DebounceClk, DebounceReg, Counting, Settled, Differ, Threshold, Bit, Streak
<1>. QED BY <1>1, <1>2, <1>3, <1>4

\* The output never moves on less than three equal samples.
LEMMA EdgeFilters ==
  ASSUME NEW r \in DebounceReg, NEW sample \in Bit, NEW run \in 1 .. Window, NEW raw \in Bit,
         Remembers(r, sample, run), DebounceClk(r, raw).debouncedInput # r.debouncedInput
  PROVE  run >= 3 /\ DebounceClk(r, raw).debouncedInput = sample
<1>1. Settled(r) /\ DebounceClk(r, raw).debouncedInput = r.Q2
  BY DEF DebounceClk
<1>. QED BY <1>1 DEF Settled, Differ, Threshold, Remembers

DebounceInv == /\ d \in DebounceReg /\ last \in Bit /\ stable \in 1 .. Window
               /\ Remembers(d, last, stable)

LEMMA Debounced == DisplaySpec => []DebounceInv
<1>1. DisplayInit => DebounceInv
  BY WindowAssumption
  DEF DisplayInit, DebounceInv, Remembers, DebounceReset, DebounceReg, Threshold, Bit
<1>2. DebounceInv /\ [DisplayNext]_all => DebounceInv'
  <2>. SUFFICES ASSUME DebounceInv, [DisplayNext]_all PROVE DebounceInv'
    OBVIOUS
  <2>1. CASE DisplayClk
    <3>1. CASE reset_n = 0
      BY <2>1, <3>1 DEF DisplayClk, DebounceInv
    <3>2. CASE reset_n # 0
      BY <2>1, <3>2, HitIsBit, EdgeRemembers DEF DisplayClk, DebounceInv
    <3>. QED BY <3>1, <3>2
  <2>2. CASE DisplayReset
    BY <2>2, WindowAssumption
    DEF DisplayReset, DebounceInv, Remembers, DebounceReset, DebounceReg, Threshold, Bit
  <2>3. CASE UNCHANGED display
    BY <2>3 DEF display, DebounceInv
  <2>. QED BY <2>1, <2>2, <2>3 DEF DisplayNext, all
<1>. QED BY <1>1, <1>2, PTL DEF DisplaySpec

\* "The input must be stable for at least 10ms" (debounce.sv 1-2): four equal samples
\* of the hit, 2 ms at the 2 kHz of clk, settle it with the threshold of line 77.
THEOREM HitSettles == DisplaySpec => []SettlesInFour
<1>1. DebounceInv => SettlesInFour
  BY DEF DebounceInv, Remembers, SettlesInFour, Filter!SettlesInFour
<1>. QED BY <1>1, Debounced, PTL

\* A glitch of a hit never lights a digit.
THEOREM HitFiltered == DisplaySpec => GlitchFiltered
<1>1. DebounceInv /\ [DisplayNext]_all =>
        [d'.debouncedInput # d.debouncedInput /\ reset_n' = 1
           => stable >= 3 /\ d'.debouncedInput = last]_Filter!vars
  <2>. SUFFICES ASSUME DebounceInv, DisplayNext, reset_n' = 1,
                       d'.debouncedInput # d.debouncedInput
                PROVE  stable >= 3 /\ d'.debouncedInput = last
    BY DEF all, display
  <2>1. d' = DebounceClk(d, kphit)
    BY DEF DisplayNext, DisplayClk, DisplayReset, ResetFall, display
  <2>. QED BY <2>1, HitIsBit, EdgeFilters DEF DebounceInv
<1>. QED BY <1>1, Debounced, PTL DEF DisplaySpec, GlitchFiltered, Filter!GlitchFiltered

\* Scanner, debouncer and display stay in their ranges.
THEOREM DisplayTypes == DisplaySpec => []DisplayTypeOK
<1>1. DisplayInit => DisplayTypeOK
  BY DEF DisplayInit, ScanInit, Init, DisplayTypeOK, ScanTypeOK, TypeOK, Lines, NoColumn,
         DebounceReset, DebounceReg, Threshold, Bit
<1>2. DisplayTypeOK /\ [DisplayNext]_all => DisplayTypeOK'
  <2>. SUFFICES ASSUME DisplayTypeOK, [DisplayNext]_all PROVE DisplayTypeOK'
    OBVIOUS
  <2>. USE DEF DisplayTypeOK, ScanTypeOK, TypeOK, Lines, NoColumn, Bit
  <2>1. CASE DisplayClk
    <3>1. ScanTypeOK'
      BY <2>1 DEF DisplayClk, ScanClk, Clk, NextColumn
    <3>2. d' \in DebounceReg /\ ctTemp' \in Bit
      BY <2>1, HitIsBit DEF DisplayClk, Gate, DebounceClk, DebounceReg, Counting, Settled,
                            Differ, Threshold
    <3>. QED BY <3>1, <3>2
  <2>2. CASE DisplayReset
    BY <2>2 DEF DisplayReset, ResetFall, AsyncReset, DebounceReset, DebounceReg, Threshold
  <2>3. CASE (Press \/ Release \/ ResetRise) /\ UNCHANGED display
    BY <2>3 DEF Press, Release, ResetRise, display, KeySets
  <2>4. CASE UNCHANGED all
    BY <2>4 DEF all, vars, display
  <2>. QED BY <2>1, <2>2, <2>3, <2>4 DEF DisplayNext
<1>. QED BY <1>1, <1>2, PTL DEF DisplaySpec

\* Each number has its place on the keypad: one column, one row.
LEMMA OneColumn ==
  ASSUME NEW c \in Lines, NEW r \in Lines PROVE ColumnOf(NumAt[c][r]) = c
<1>1. \A c1, c2, r1, r2 \in Lines : NumAt[c1][r1] = NumAt[c2][r2] => c1 = c2
  BY DEF NumAt, Lines
<1>. QED BY <1>1 DEF ColumnOf

\* The first key of two stays the reported one.
THEOREM FirstStays == DisplaySpec => FirstKeyStays
<1>1. ASSUME DisplayTypeOK, [DisplayNext]_all, NEW k \in Keys,
             Reported(k), k \in keys', reset_n' = 1
      PROVE  \/ Reported(k)'
             \/ \E other \in keys' \ keys : ColumnOf(other) = ColumnOf(k)
  <2>. USE DEF Reported
  <2>1. PICK r \in Lines : LowRows(keys) = {r}
    BY <1>1 DEF Hit
  <2>2. kpc \in Lines /\ NumAt[kpc][r] = k
    BY <1>1, <2>1 DEF Hit, Num, LowRows
  <2>3. CASE DisplayClk
    BY <1>1, <2>3 DEF DisplayClk, ScanClk, Clk, Hit, Num, LowRows
  <2>4. CASE DisplayReset
    BY <1>1, <2>4 DEF DisplayReset, ResetFall
  <2>5. CASE Press /\ UNCHANGED display
    <3>1. PICK o \in Keys \ keys : keys' = keys \cup {o} /\ UNCHANGED kpc
      BY <2>5 DEF Press
    <3>2. CASE \E q \in Lines : NumAt[kpc][q] = o
      <4>1. ColumnOf(o) = kpc /\ ColumnOf(k) = kpc
        BY <2>2, <3>2, OneColumn
      <4>. QED BY <3>1, <4>1
    <3>3. CASE \A q \in Lines : NumAt[kpc][q] # o
      <4>1. LowRows(keys)' = {r}
        BY <2>1, <3>1, <3>3 DEF LowRows
      <4>. QED BY <1>1, <2>1, <2>2, <3>1, <4>1 DEF Hit, Num
    <3>. QED BY <3>2, <3>3
  <2>6. CASE Release /\ UNCHANGED display
    <3>1. PICK o \in keys : keys' = keys \ {o} /\ UNCHANGED kpc
      BY <2>6 DEF Release
    <3>2. LowRows(keys)' = {r}
      BY <1>1, <2>1, <2>2, <3>1 DEF LowRows
    <3>. QED BY <2>1, <2>2, <3>1, <3>2 DEF Hit, Num
  <2>7. CASE ResetRise \/ UNCHANGED all
    BY <1>1, <2>7 DEF ResetRise, all, vars, Hit, Num, LowRows
  <2>. QED BY <1>1, <2>3, <2>4, <2>5, <2>6, <2>7 DEF DisplayNext
<1>2. DisplayTypeOK /\ [DisplayNext]_all =>
        [\A k \in Keys :
           (Reported(k) /\ k \in keys' /\ reset_n' = 1)
             => \/ Reported(k)'
                \/ \E other \in keys' \ keys : ColumnOf(other) = ColumnOf(k)]_vars
  BY <1>1
<1>. QED BY <1>2, DisplayTypes, PTL DEF DisplaySpec, FirstKeyStays

\* Five edges after the keys were let go, or of a key, the gate of the digits is what
\* the hit is.
GateFollows == stable >= 5 => ctTemp = last

\* The digits of the first game follow the keypad within five edges, 2.5 ms, where
\* debounce.sv 1-2 asks for an input stable for at least 10 ms.
THEOREM DisplayFollows == DisplaySpec => []GateFollows
<1>1. DebounceInv /\ SettlesInFour /\ GateFollows /\ [DisplayNext]_all => GateFollows'
  <2>. SUFFICES ASSUME DebounceInv, SettlesInFour, GateFollows, [DisplayNext]_all
                PROVE  GateFollows'
    OBVIOUS
  <2>. USE WindowAssumption DEF GateFollows, SettlesInFour, Filter!SettlesInFour, DebounceInv, Bit
  <2>1. CASE DisplayClk
    <3>1. CASE reset_n = 0
      BY <2>1, <3>1 DEF DisplayClk, Gate
    <3>2. CASE reset_n # 0
      BY <2>1, <3>2 DEF DisplayClk, Gate, Streak
    <3>. QED BY <3>1, <3>2
  <2>2. CASE DisplayReset
    BY <2>2 DEF DisplayReset
  <2>3. CASE (Press \/ Release \/ ResetRise) /\ UNCHANGED display
    BY <2>3 DEF display
  <2>4. CASE UNCHANGED all
    BY <2>4 DEF all, display
  <2>. QED BY <2>1, <2>2, <2>3, <2>4 DEF DisplayNext
<1>2. DisplayInit => GateFollows
  BY DEF DisplayInit, GateFollows
<1>. QED BY <1>1, <1>2, Debounced, HitSettles, PTL DEF DisplaySpec
=============================================================================
