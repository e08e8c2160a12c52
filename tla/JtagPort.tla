------------------------------ MODULE JtagPort ------------------------------
(***************************************************************************)
(* processor_jtag_uart.v: two FIFOs between the processor and the host at  *)
(* the other end of the JTAG cable, with an interrupt for each direction.  *)
(* The host (alt_jtag_atlantic) is external: while it is there it takes    *)
(* and sends bytes and pauses; one day it may be unplugged for good.       *)
(***************************************************************************)
EXTENDS Naturals, Sequences

CONSTANTS TxDepth, RxDepth,   \* of wfifo and rfifo: 64
          Level               \* almost empty, almost full: 8

VARIABLES wfifo, rfifo,
          ien_AE, ien_AF,   \* enables of the write and the read interrupt
          pause_irq,        \* the host paused and left something to read
          ac,               \* the host did something
          woverflow,        \* a byte was written to a full FIFO
          there             \* the host

port == <<wfifo, rfifo, ien_AE, ien_AF, pause_irq, ac, woverflow, there>>

fifo_AE == Len(wfifo) <= Level
fifo_AF == RxDepth - Len(rfifo) <= Level
ipen_AE == ien_AE /\ fifo_AE
ipen_AF == ien_AF /\ (pause_irq \/ fifo_AF)
av_irq  == ipen_AE \/ ipen_AF

\* Free places of wfifo, as the control register shows them.
wspace == TxDepth - Len(wfifo)

\* The processor writes a byte, reads one, sets the enables.
WriteData(b) == /\ wfifo' = IF wspace > 0 THEN Append(wfifo, b) ELSE wfifo
                /\ woverflow' = (wspace = 0)
                /\ UNCHANGED <<rfifo, ien_AE, ien_AF, pause_irq, ac, there>>

ReadData == /\ rfifo' = IF rfifo = <<>> THEN rfifo ELSE Tail(rfifo)
            /\ pause_irq' = FALSE
            /\ UNCHANGED <<wfifo, ien_AE, ien_AF, ac, woverflow, there>>

\* RVALID is sampled one clock before the number of bytes left (509-520): a
\* byte sent in between shows up as left over from a read that found nothing,
\* just when the processor goes on to disable the read interrupt.
ReadTooEarly(b) ==
  /\ there /\ rfifo = <<>> /\ rfifo' = <<b>> /\ ac' = TRUE
  /\ pause_irq' = FALSE /\ ien_AF' = FALSE
  /\ UNCHANGED <<wfifo, ien_AE, woverflow, there>>

WriteControl(enables, clear) ==
  /\ ien_AF' = ("RE" \in enables) /\ ien_AE' = ("WE" \in enables)
  /\ ac' = (ac /\ ~clear)
  /\ UNCHANGED <<wfifo, rfifo, pause_irq, woverflow, there>>

\* The host.
Take == /\ there /\ wfifo # <<>> /\ wfifo' = Tail(wfifo)
        /\ UNCHANGED <<rfifo, ien_AE, ien_AF, pause_irq, ac, woverflow, there>>

Send(b) == /\ there /\ Len(rfifo) < RxDepth
           /\ rfifo' = Append(rfifo, b) /\ ac' = TRUE
           /\ UNCHANGED <<wfifo, ien_AE, ien_AF, pause_irq, woverflow, there>>

Pause == /\ there /\ ac' = TRUE /\ pause_irq' = (pause_irq \/ rfifo # <<>>)
         /\ UNCHANGED <<wfifo, rfifo, ien_AE, ien_AF, woverflow, there>>

Unplug == /\ there /\ there' = FALSE
          /\ UNCHANGED <<wfifo, rfifo, ien_AE, ien_AF, pause_irq, ac, woverflow>>
=============================================================================
