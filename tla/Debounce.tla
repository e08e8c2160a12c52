------------------------------- MODULE Debounce -------------------------------
(***************************************************************************)
(* debounce.sv: two flip-flops in series sample the raw input; the output  *)
(* takes the second one's value when a counter has found the two equal     *)
(* long enough.  The circuit is instantiated three times, so its registers *)
(* are a record and one clock edge is a function of it.                    *)
(***************************************************************************)
EXTENDS Signals

Threshold == 1          \* the literal that both count comparisons use

DebounceReg == [Q1 : Bit, Q2 : Bit, count : 0 .. Threshold, debouncedInput : Bit]

\* Asynchronous reset clears all four registers.
DebounceReset == [Q1 |-> 0, Q2 |-> 0, count |-> 0, debouncedInput |-> 0]

\* xor_out
Differ(d) == d.Q1 # d.Q2

\* Fault: the second sample is passed on unfiltered.
SettledEager(d) == ~Differ(d)

Counting(d) == ~Differ(d) /\ d.count < Threshold
Settled(d)  == ~Differ(d) /\ d.count >= Threshold

\* One rising edge of clk with reset_n high.
DebounceClk(d, rawInput) ==
  [Q1 |-> rawInput,
   Q2 |-> d.Q1,
   count |-> IF Counting(d) THEN d.count + 1 ELSE 0,
   debouncedInput |-> IF Settled(d) THEN d.Q2 ELSE d.debouncedInput]
=============================================================================
