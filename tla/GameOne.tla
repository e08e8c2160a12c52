------------------------------- MODULE GameOne -------------------------------
(***************************************************************************)
(* gameOne.sv: the counting game.  The 20-bit output "bits" is four 5-bit  *)
(* display digits of which only the first, bits[19:15], ever differs from  *)
(* the constant "- - off"; it alone stands for the vector here.            *)
(***************************************************************************)
EXTENDS Signals

VARIABLES bits,         \* bits[19:15], the digit the player has to press
          victoryflag

vars == <<bits, victoryflag>>

Off == 31               \* the blank digit, 5'b11111
CounterRange == 0 .. 7  \* gameCounter is three bits wide
WinCount == 7

TypeOK == /\ bits \in CounterRange \cup {Off}
          /\ victoryflag \in Bit

\* Registers without an initial value power up low.
Init == /\ bits = 0
        /\ victoryflag = 0

\* Faults: two rows of the digit table swapped, a strict comparison.
StateBitsSwapped(gameCounter) ==
  CASE gameCounter = 3 -> 4 [] gameCounter = 4 -> 3 [] OTHER -> gameCounter

PlayStrict(gameCounter) == /\ bits' = gameCounter
                           /\ victoryflag' = Level(gameCounter > WinCount)

\* stateBits: the counter is shown as it stands.
StateBits(gameCounter) == gameCounter

Cleared == /\ bits' = Off
           /\ victoryflag' = 0

Play(gameCounter) == /\ bits' = StateBits(gameCounter)
                     /\ victoryflag' = Level(gameCounter >= WinCount)

\* One rising edge of clk.
Clk(enable, reset_n, gameCounter) ==
  \/ (reset_n = 0 \/ enable = 0) /\ Cleared
  \/ (reset_n = 1 /\ enable = 1) /\ Play(gameCounter)
=============================================================================
