------------------------------- MODULE SpiCommand -------------------------------
(***************************************************************************)
(* altera_avalon_spi.c: alt_avalon_spi_command, which graphic_top.c calls  *)
(* for every picture, driving the master of SpiMaster; one slave.  Each    *)
(* access to a register is a step.                                         *)
(***************************************************************************)
EXTENDS Integers, Sequences

CONSTANTS Commands, Replies, None,
          MaxCredits    \* the initial value of credits: 1 in the code

ASSUME CommandAssumption ==
  \A c \in Commands : /\ c.tx \in Seq(Nat) /\ c.read_length \in Nat
                      /\ c.merge \in BOOLEAN /\ c.toggle \in BOOLEAN
                      /\ c # None

VARIABLES tx_holding, tx_holding_primed, shift_reg, transmitting, stateZero,
          rx_holding, RRDY, ROE, TOE, SSO,      \* SpiMaster
          pc, cmd,
          written,      \* write_data has advanced by this much
          write_zeros, read_ignore, credits,
          trdy, rrdy,   \* status, as last read
          read_data,    \* what *read_data++ has stored
          result,       \* read_data at the last return
          replies, frame, closed   \* history: the slave's side

master == <<tx_holding, tx_holding_primed, shift_reg, transmitting, stateZero,
            rx_holding, RRDY, ROE, TOE, SSO>>
local == <<cmd, written, write_zeros, read_ignore, credits, trdy, rrdy, read_data, result>>
slave == <<replies, frame, closed>>
vars == <<master, pc, local, slave>>

SPI == INSTANCE SpiMaster

Init == /\ SPI!Init
        /\ pc = "idle"
        /\ cmd = None
        /\ written = 0 /\ write_zeros = 0 /\ read_ignore = 0 /\ credits = MaxCredits
        /\ trdy = FALSE /\ rrdy = FALSE
        /\ read_data = <<>> /\ result = <<>>
        /\ replies = <<>> /\ frame = <<>> /\ closed = <<>>
-----------------------------------------------------------------------------
(* The driver.                                                             *)

\* The call.  Bound: a merged frame is not merged again.
Call == /\ pc = "idle"
        /\ pc' = "control"
        /\ \E c \in Commands : /\ c.merge => frame = <<>>
                               /\ cmd' = c
                               /\ write_zeros' = c.read_length
                               /\ read_ignore' = Len(c.tx)
        /\ written' = 0
        /\ credits' = MaxCredits
        /\ read_data' = <<>>
        /\ replies' = <<>>
        /\ UNCHANGED <<master, trdy, rrdy, result, frame, closed>>

\* SLAVE_SEL is always the one slave; SSO unless the command toggles.
Control == /\ pc = "control"
           /\ pc' = "discard"
           /\ IF cmd.toggle THEN UNCHANGED master ELSE SPI!WriteControl(TRUE)
           /\ UNCHANGED <<local, slave>>

\* Stale data in rxdata is dropped.
Discard == /\ pc = "discard"
           /\ pc' = "poll"
           /\ SPI!ReadRx
           /\ UNCHANGED <<local, slave>>

\* The read of status that ends the inner loop.
Poll == /\ pc = "poll"
        /\ ~SPI!LoadPending
        /\ (SPI!TRDY /\ credits # 0) \/ RRDY
        /\ trdy' = SPI!TRDY
        /\ rrdy' = RRDY
        /\ pc' = "send"
        /\ UNCHANGED <<master, cmd, written, write_zeros, read_ignore, credits,
                       read_data, result, slave>>

\* Faults: a byte that costs no credit; one zero too many; the replies that are
\* ignored are not read; the slave is released although the command merges.
SendByteFree == /\ written < Len(cmd.tx)
                /\ SPI!WriteTx(cmd.tx[written + 1])
                /\ written' = written + 1
                /\ UNCHANGED <<write_zeros, credits>>

SendZeroMore == /\ written = Len(cmd.tx)
                /\ write_zeros >= 0
                /\ SPI!WriteTx(0)
                /\ write_zeros' = write_zeros - 1
                /\ credits' = credits - 1
                /\ UNCHANGED written

ReceiveUnread ==
  /\ pc = "receive"
  /\ IF rrdy
       THEN /\ IF read_ignore > 0
                 THEN read_ignore' = read_ignore - 1 /\ UNCHANGED <<master, read_data>>
                 ELSE read_data' = Append(read_data, rx_holding) /\ UNCHANGED read_ignore
                      /\ SPI!ReadRx
            /\ credits' = credits + 1
            /\ pc' = IF read_ignore' = 0 /\ Len(read_data') = cmd.read_length
                       THEN "drain" ELSE "poll"
       ELSE /\ pc' = "poll"
            /\ UNCHANGED <<master, read_ignore, read_data, credits>>
  /\ UNCHANGED <<cmd, written, write_zeros, trdy, rrdy, result, slave>>

ReleaseAnyway == /\ pc = "drain"
                 /\ SPI!TMT
                 /\ pc' = "idle"
                 /\ cmd' = None
                 /\ result' = read_data
                 /\ SPI!WriteControl(FALSE)
                 /\ IF SSO THEN closed' = frame /\ frame' = <<>>
                           ELSE UNCHANGED <<frame, closed>>
                 /\ UNCHANGED <<written, write_zeros, read_ignore, credits, trdy, rrdy,
                                read_data, replies>>
-----------------------------------------------------------------------------
\* if TRDY and credits > 0: the next byte, or a zero, or nothing more.
SendByte == /\ written < Len(cmd.tx)
            /\ SPI!WriteTx(cmd.tx[written + 1])
            /\ written' = written + 1
            /\ credits' = credits - 1
            /\ UNCHANGED write_zeros

SendZero == /\ written = Len(cmd.tx)
            /\ write_zeros > 0
            /\ SPI!WriteTx(0)
            /\ write_zeros' = write_zeros - 1
            /\ credits' = credits - 1
            /\ UNCHANGED written

SendNothing == /\ written = Len(cmd.tx)
               /\ write_zeros = 0
               /\ credits' = -1024
               /\ UNCHANGED <<master, written, write_zeros>>

Send == /\ pc = "send"
        /\ pc' = "receive"
        /\ IF trdy /\ credits > 0
             THEN SendByte \/ SendZero \/ SendNothing
             ELSE UNCHANGED <<master, written, write_zeros, credits>>
        /\ UNCHANGED <<cmd, read_ignore, trdy, rrdy, read_data, result, slave>>

\* read_ignore == 0 and read_data == read_end
Complete == read_ignore' = 0 /\ Len(read_data') = cmd.read_length

\* if RRDY: take the reply, to be ignored or stored.
Receive ==
  /\ pc = "receive"
  /\ IF rrdy
       THEN /\ SPI!ReadRx
            /\ IF read_ignore > 0
                 THEN read_ignore' = read_ignore - 1 /\ UNCHANGED read_data
                 ELSE read_data' = Append(read_data, rx_holding) /\ UNCHANGED read_ignore
            /\ credits' = credits + 1
            /\ pc' = IF Complete THEN "drain" ELSE "poll"
       ELSE /\ pc' = "poll"
            /\ UNCHANGED <<master, read_ignore, read_data, credits>>
  /\ UNCHANGED <<cmd, written, write_zeros, trdy, rrdy, result, slave>>

\* Wait for TMT, release the slave unless merging, return.
Release == /\ pc = "drain"
           /\ SPI!TMT
           /\ pc' = "idle"
           /\ cmd' = None
           /\ result' = read_data
           /\ IF cmd.merge THEN UNCHANGED <<master, frame, closed>>
              ELSE /\ SPI!WriteControl(FALSE)
                   /\ IF SSO THEN closed' = frame /\ frame' = <<>>
                             ELSE UNCHANGED <<frame, closed>>
           /\ UNCHANGED <<written, write_zeros, read_ignore, credits, trdy, rrdy, read_data,
                          replies>>

Driver == Control \/ Discard \/ Poll \/ Send \/ Receive \/ Release
-----------------------------------------------------------------------------
(* The master and the slave.                                               *)

Load  == SPI!Load /\ UNCHANGED <<pc, local, slave>>
Shift == SPI!Shift /\ UNCHANGED <<pc, local, slave>>

\* The slave is external: it keeps what it gets while selected and answers.
Finish == \E reply \in Replies :
            /\ SPI!Finish(reply)
            /\ replies' = Append(replies, reply)
            /\ IF SSO THEN frame' = Append(frame, shift_reg) /\ UNCHANGED closed
                      ELSE closed' = <<shift_reg>> /\ UNCHANGED frame
            /\ UNCHANGED <<pc, local>>

Next == Call \/ Driver \/ Load \/ Shift \/ Finish

\* The processor executes, the shifter is clocked; nobody has to call.
Spec == Init /\ [][Next]_vars
             /\ WF_vars(Driver) /\ WF_vars(Load) /\ WF_vars(Shift) /\ WF_vars(Finish)
-----------------------------------------------------------------------------
TypeOK == /\ pc \in {"idle", "control", "discard", "poll", "send", "receive", "drain"}
          /\ cmd \in Commands \cup {None}
          /\ cmd # None => /\ written \in 0 .. Len(cmd.tx)
                           /\ write_zeros \in 0 .. cmd.read_length
                           /\ read_ignore \in 0 .. Len(cmd.tx)
                           /\ Len(read_data) <= cmd.read_length
          /\ credits \in {-1024} \cup 0 .. MaxCredits

\* The credit keeps the master from ever losing a byte in either direction.
NoOverrun == ~ROE /\ ~TOE

\* Why: with one credit, either it is there to be spent or exactly one byte is on its
\* way out or back; between two calls nothing is on its way.
InFlight == (IF tx_holding_primed THEN 1 ELSE 0) + (IF transmitting THEN 1 ELSE 0)
            + (IF RRDY THEN 1 ELSE 0)

Credit ==
  /\ pc \in {"idle", "drain"} => InFlight = 0
  /\ pc \in {"control", "discard"} => InFlight = 0 /\ credits = MaxCredits
  /\ pc \in {"poll", "send", "receive"} =>
       \/ credits = MaxCredits - InFlight /\ InFlight <= MaxCredits
       \/ credits < 0 /\ InFlight = 0
  /\ pc \in {"send", "receive"} /\ rrdy => RRDY

\* Every reply is in the buffer of the call it answers before the call returns: the
\* books of the driver and of the wire agree at the end of every pass of the loop.
BooksAgree ==
  pc = "poll" =>
    /\ written + (cmd.read_length - write_zeros) =
         (Len(cmd.tx) - read_ignore) + Len(read_data) + InFlight
    /\ Len(replies) = (Len(cmd.tx) - read_ignore) + Len(read_data) + (IF RRDY THEN 1 ELSE 0)

\* The driver and the master together do what SpiTransfer says, and every call that
\* has a byte to send or to read returns.
Transfer == INSTANCE SpiTransfer WITH held <- SSO
Transfers == Transfer!Spec
=============================================================================
