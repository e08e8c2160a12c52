----------------------------- MODULE MCSpiCommand -----------------------------
(* SpiCommand for TLC.                                                       *)
EXTENDS SpiCommand

Command(tx, read_length, merge, toggle) ==
  [tx |-> tx, read_length |-> read_length, merge |-> merge, toggle |-> toggle]

\* Writes, reads, both, as graphic_top.c calls them and with the other flags.
Calls == {Command(<<1, 2>>, 0, FALSE, FALSE), Command(<<1>>, 2, FALSE, FALSE),
          Command(<<>>, 1, FALSE, FALSE), Command(<<3>>, 0, TRUE, FALSE),
          Command(<<4, 5>>, 1, FALSE, TRUE), Command(<<6>>, 1, TRUE, TRUE)}

WithEmptyCall == Calls \cup {Command(<<>>, 0, FALSE, FALSE)}
=============================================================================
