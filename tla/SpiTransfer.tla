------------------------------ MODULE SpiTransfer ------------------------------
(***************************************************************************)
(* What alt_avalon_spi_command promises its caller: the bytes of the       *)
(* command, then as many zeros as bytes are to be read, reach the slave in *)
(* order and exactly once; the replies to the zeros come back; the slave   *)
(* stays selected from the first byte to the last, and beyond the call if  *)
(* it was told to merge.                                                   *)
(***************************************************************************)
EXTENDS Naturals, Sequences

CONSTANTS Commands, \* records with fields tx, read_length, merge, toggle
          Replies,  \* what the slave may answer
          None

VARIABLES cmd,      \* the command being executed, or None
          replies,  \* the slave's answers to it so far
          held,     \* is the slave kept selected?
          frame,    \* the bytes the slave got since it was selected
          closed,   \* the frame before that
          result    \* what the last command returned

vars == <<cmd, replies, held, frame, closed, result>>

Total(c) == Len(c.tx) + c.read_length

\* The i-th byte of a command on the wire.
WireByte(c, i) == IF i <= Len(c.tx) THEN c.tx[i] ELSE 0

Init == /\ cmd = None
        /\ replies = <<>>
        /\ held = FALSE
        /\ frame = <<>>
        /\ closed = <<>>
        /\ result = <<>>

Begin == /\ cmd = None
         /\ \E c \in Commands : cmd' = c
         /\ replies' = <<>>
         /\ UNCHANGED <<held, frame, closed, result>>

\* The slave is selected for good, unless the command asks for it to be
\* selected byte by byte.
Select == /\ cmd # None
          /\ ~held
          /\ ~cmd.toggle
          /\ held' = TRUE
          /\ UNCHANGED <<cmd, replies, frame, closed, result>>

Exchange == /\ cmd # None
            /\ cmd.toggle \/ held
            /\ Len(replies) < Total(cmd)
            /\ \E r \in Replies : replies' = Append(replies, r)
            /\ LET byte == WireByte(cmd, Len(replies) + 1)
               IN  IF held THEN frame' = Append(frame, byte) /\ UNCHANGED closed
                           ELSE closed' = <<byte>> /\ UNCHANGED frame
            /\ UNCHANGED <<cmd, held, result>>

\* An empty command never returns.
Return == /\ cmd # None
          /\ Total(cmd) > 0
          /\ Len(replies) = Total(cmd)
          /\ result' = SubSeq(replies, Len(cmd.tx) + 1, Total(cmd))
          /\ IF held /\ ~cmd.merge
               THEN closed' = frame /\ frame' = <<>> /\ held' = FALSE
               ELSE UNCHANGED <<held, frame, closed>>
          /\ cmd' = None
          /\ UNCHANGED replies

Next == Begin \/ Select \/ Exchange \/ Return

Spec == Init /\ [][Next]_vars
             /\ WF_vars(Select) /\ WF_vars(Exchange) /\ WF_vars(Return)
=============================================================================
