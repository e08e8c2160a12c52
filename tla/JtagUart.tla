------------------------------ MODULE JtagUart ------------------------------
(***************************************************************************)
(* The interrupt-driven driver of the JTAG UART, stdin, stdout and stderr  *)
(* of the program: two ring buffers between the callers of read, write and *)
(* close and the interrupt, and an alarm that notices when the host is     *)
(* gone.  Each loop pass and each access to what both sides share is a     *)
(* step; the interrupt comes in between any two, except while the caller   *)
(* has interrupts disabled.                                                *)
(*                                                                         *)
(* Bytes are numbered modulo Tags in the order in which they are handed    *)
(* in, on either side, and those on the way are counted, so that the       *)
(* buffers show what was lost, doubled or moved.                           *)
(***************************************************************************)
EXTENDS JtagPort, Integers

CONSTANTS BUF_LEN,         \* ALTERA_AVALON_JTAG_UART_BUF_LEN, 2048
          INT_MAX,
          Default,         \* ..._DEFAULT_TIMEOUT, 10 seconds
          Timeouts,        \* arguments of TIOCSTIMEOUT
          WriteSizes, ReadSizes, Modes,
          Tags

ASSUME JtagAssumption ==
  /\ Level \in Nat /\ TxDepth \in Nat /\ RxDepth \in Nat
  /\ Level < TxDepth /\ Level < RxDepth
  /\ BUF_LEN \in Nat \ {0, 1} /\ WriteSizes \cup ReadSizes \subseteq Nat \ {0}
  /\ Tags \in Nat \ {0, 1} /\ Modes \subseteq BOOLEAN
  /\ INT_MAX \in Nat /\ Default \in 2 .. INT_MAX - 2 /\ Timeouts \subseteq Nat

Slot == 0 .. BUF_LEN - 1
Tag  == 0 .. Tags - 1

VARIABLES
  irq_enable, rx_in, rx_out, tx_in, tx_out, rx_buf, tx_buf,
  host_inactive, timeout,
  isr, control, avail,      \* the interrupt: where it is, and its locals
  pc, count, any, nonblock, \* the caller: bytes to go, ptr # start, O_NONBLOCK
  mark, n,                  \*   the index it watches, bytes to copy
  enables,                  \*   irq_enable as it read it
  pie,
  taken, owed,    \* history: number of the next byte the host takes, and
                  \*   how many were written and not taken
  got, unread,    \*   the same for read and the host's bytes
  missed          \*   the receive interrupt was switched off too early

rings == <<rx_in, rx_out, tx_in, tx_out, rx_buf, tx_buf>>
alive == <<host_inactive, timeout>>
isrVars == <<isr, control, avail>>
call  == <<count, any, nonblock, mark, n, enables>>
main  == <<pc, call, pie>>
tags  == <<taken, owed, got, unread, missed>>
vars  == <<port, irq_enable, rings, alive, isrVars, main, tags>>

TypeOK ==
  /\ wfifo \in Seq(Tag) /\ rfifo \in Seq(Tag)
  /\ Len(wfifo) <= TxDepth /\ Len(rfifo) <= RxDepth
  /\ irq_enable \subseteq {"RE", "WE"} /\ enables \subseteq {"RE", "WE"}
  /\ rx_in \in Slot /\ rx_out \in Slot /\ tx_in \in Slot /\ tx_out \in Slot
  /\ rx_buf \in [Slot -> Tag] /\ tx_buf \in [Slot -> Tag]
  /\ host_inactive \in 0 .. INT_MAX - 2 /\ timeout \in 2 .. INT_MAX - 1
  /\ isr \in {"off", "control", "read", "write"} /\ avail \in BOOLEAN
  /\ control \in [wi : BOOLEAN, space : 0 .. TxDepth]
  /\ pc \in {"idle", "space", "fill", "wait", "stalled", "fetch", "copy",
             "await", "woken", "load WE", "store WE", "load RE", "store RE", "drain"}
  /\ count \in Nat /\ any \in BOOLEAN /\ nonblock \in BOOLEAN
  /\ mark \in Slot /\ n \in Slot /\ pie \in BOOLEAN
  /\ taken \in Tag /\ got \in Tag /\ owed \in Nat /\ unread \in Nat
  /\ missed \in BOOLEAN

NoControl == [wi |-> FALSE, space |-> 0]

Up(i, k)  == (i + k) % BUF_LEN
After(t, k) == (t + k) % Tags

\* The bytes in a ring, oldest first.
Ring(buf, in, out) == [k \in 1 .. (in - out) % BUF_LEN |-> buf[Up(out, k - 1)]]

\* After altera_avalon_jtag_uart_init, the alarm running.
Init ==
  /\ wfifo = <<>> /\ rfifo = <<>>
  /\ pause_irq = FALSE /\ ac = FALSE /\ woverflow = FALSE /\ there = TRUE
  /\ irq_enable = {"RE"} /\ ien_AF = TRUE /\ ien_AE = FALSE
  /\ rx_in = 0 /\ rx_out = 0 /\ tx_in = 0 /\ tx_out = 0
  /\ rx_buf = [i \in Slot |-> 0] /\ tx_buf = [i \in Slot |-> 0]
  /\ host_inactive = 0 /\ timeout = Default
  /\ isr = "off" /\ control = NoControl /\ avail = FALSE
  /\ pc = "idle" /\ count = 0 /\ any = FALSE /\ nonblock = FALSE
  /\ mark = 0 /\ n = 0 /\ enables = {} /\ pie = TRUE
  /\ taken = 0 /\ owed = 0 /\ got = 0 /\ unread = 0 /\ missed = FALSE
-----------------------------------------------------------------------------
(* altera_avalon_jtag_uart_irq.                                            *)

Isr(from) == isr = from /\ UNCHANGED <<alive, main>>

Interruptible == isr = "off" /\ pie
Enter == /\ Interruptible /\ av_irq /\ Isr("off") /\ isr' = "control"
         /\ UNCHANGED <<port, irq_enable, rings, control, avail, tags>>

\* The control register is read once per pass.
IsrControl ==
  /\ Isr("control")
  /\ isr' = IF ipen_AF THEN "read" ELSE IF ipen_AE THEN "write" ELSE "off"
  /\ control' = IF ipen_AE THEN [wi |-> TRUE, space |-> wspace] ELSE NoControl
  /\ avail' = ipen_AF
  /\ UNCHANGED <<port, irq_enable, rings, tags>>

\* (Variant: the ring is never found full.)
RxFullNever == FALSE

RxFull == Up(rx_in, 1) = rx_out

\* A byte is fetched if the ring has room for it; RAVAIL tells of more.
IsrRead ==
  /\ Isr("read") /\ ~RxFull /\ rfifo # <<>>
  /\ ReadData
  /\ rx_buf' = [rx_buf EXCEPT ![rx_in] = Head(rfifo)]
  /\ rx_in' = Up(rx_in, 1)
  /\ avail' = (Tail(rfifo) # <<>>)
  /\ UNCHANGED <<irq_enable, rx_out, tx_in, tx_out, tx_buf, isr, control, tags>>

AfterRead == isr' = IF control.wi THEN "write" ELSE "control"

\* Nothing was there (RVALID is low) ...
IsrReadEmpty ==
  /\ Isr("read") /\ ~RxFull /\ rfifo = <<>>
  /\ ReadData /\ avail' = FALSE /\ AfterRead
  /\ UNCHANGED <<irq_enable, rings, control, tags>>

\* ... or almost: the driver takes the byte that came just then for a sign that
\* the ring is full ...
IsrReadEarly ==
  /\ Isr("read") /\ ~RxFull
  /\ ReadTooEarly(After(got, unread)) /\ unread' = unread + 1 /\ missed' = TRUE
  /\ avail' = FALSE /\ AfterRead /\ irq_enable' = irq_enable \ {"RE"}
  /\ UNCHANGED <<rings, control, taken, owed, got>>

\* ... or it is full: the interrupt is off until someone reads.
IsrReadFull ==
  /\ Isr("read") /\ RxFull /\ AfterRead /\ avail' = FALSE
  /\ irq_enable' = IF avail THEN irq_enable \ {"RE"} ELSE irq_enable
  /\ IF avail THEN WriteControl(irq_enable', FALSE) ELSE UNCHANGED port
  /\ UNCHANGED <<rings, control, tags>>

IsrWrite ==
  /\ Isr("write") /\ control.space > 0 /\ tx_out # tx_in
  /\ WriteData(tx_buf[tx_out])
  /\ tx_out' = Up(tx_out, 1) /\ control' = [control EXCEPT !.space = @ - 1]
  /\ UNCHANGED <<irq_enable, rx_in, rx_out, tx_in, rx_buf, tx_buf, isr, avail, tags>>

\* (Variant: the interrupt is switched off when the FIFO is full, too.)
IsrWriteEndAlways ==
  /\ Isr("write") /\ (control.space = 0 \/ tx_out = tx_in) /\ isr' = "control"
  /\ irq_enable' = irq_enable \ {"WE"} /\ WriteControl(irq_enable', FALSE)
  /\ control' = NoControl
  /\ UNCHANGED <<rings, avail, tags>>

\* With room left there is nothing left to send.
IsrWriteEnd ==
  /\ Isr("write") /\ (control.space = 0 \/ tx_out = tx_in) /\ isr' = "control"
  /\ irq_enable' = IF control.space > 0 THEN irq_enable \ {"WE"} ELSE irq_enable
  /\ IF control.space > 0 THEN WriteControl(irq_enable', FALSE) ELSE UNCHANGED port
  /\ control' = NoControl
  /\ UNCHANGED <<rings, avail, tags>>

\* (Variant: the seconds are counted without end.)
TimeoutEndless ==
  /\ Interruptible
  /\ IF ac THEN WriteControl(irq_enable, TRUE) /\ host_inactive' = 0
           ELSE host_inactive' = host_inactive + 1 /\ UNCHANGED port
  /\ UNCHANGED <<irq_enable, rings, timeout, isrVars, main, tags>>

\* altera_avalon_jtag_uart_timeout, once a second from the tick's interrupt.
Timeout ==
  /\ Interruptible
  /\ IF ac THEN WriteControl(irq_enable, TRUE) /\ host_inactive' = 0
           ELSE /\ host_inactive' = IF host_inactive < INT_MAX - 2
                                    THEN host_inactive + 1 ELSE host_inactive
                /\ UNCHANGED port
  /\ UNCHANGED <<irq_enable, rings, timeout, isrVars, main, tags>>
-----------------------------------------------------------------------------
(* The caller.  Its locals are kept for as long as they are used.          *)

Main(from, to) == /\ isr = "off" /\ pc = from /\ pc' = to
                  /\ UNCHANGED <<alive, isrVars>>

Call(to, k) == /\ Main("idle", to) /\ count' = k /\ nonblock' \in Modes
               /\ UNCHANGED <<port, irq_enable, rings, any, mark, n, enables, pie, tags>>

\* The end of the call.
End(from) == /\ Main(from, "idle")
             /\ count' = 0 /\ any' = FALSE /\ nonblock' = FALSE
             /\ mark' = 0 /\ n' = 0 /\ enables' = {}

Return(from) == End(from) /\ UNCHANGED tags

Quiet == UNCHANGED <<port, irq_enable, rings, enables, pie, tags>>

\* (Variant: the last place is used as well.)
RoomAll(in, out) == IF in < out THEN out - in ELSE BUF_LEN - in

\* Free places up to the end of the buffer, the last of all kept free.
Room(in, out) == IF in < out THEN out - 1 - in
                 ELSE IF out > 0 THEN BUF_LEN - in ELSE BUF_LEN - 1 - in

Held(in, out) == IF in >= out THEN in - out ELSE BUF_LEN - out

Lesser(a, b) == IF a < b THEN a ELSE b

\* (Variant: one second too late, which INT_MAX - 2 never sees.)
HostGoneAfter == host_inactive > timeout

HostGone == host_inactive >= timeout

Write == \E k \in WriteSizes : Call("space", k)

\* A pass of the copy loop: first the indices ...
Space ==
  LET room == IF count = 0 THEN 0 ELSE Lesser(Room(tx_in, tx_out), count)
  IN  /\ Main("space", IF room = 0 THEN "load WE" ELSE "fill")
      /\ n' = room /\ mark' = IF room = 0 THEN tx_out ELSE 0
      /\ UNCHANGED <<count, any, nonblock>> /\ Quiet

\* ... then the bytes.
Fill ==
  /\ Main("fill", "space")
  /\ tx_buf' = [i \in Slot |-> IF i \in tx_in .. tx_in + n - 1
                               THEN After(taken, owed + i - tx_in) ELSE tx_buf[i]]
  /\ tx_in' = Up(tx_in, n) /\ owed' = owed + n
  /\ count' = count - n /\ any' = TRUE /\ n' = 0
  /\ UNCHANGED <<port, irq_enable, rx_in, rx_out, tx_out, rx_buf, nonblock,
                 mark, enables, pie, taken, got, unread, missed>>

\* (Variant: the bit is not added.)
LoadSame(bit, from, to) ==
  /\ Main(from, to) /\ pie' = FALSE /\ enables' = irq_enable
  /\ UNCHANGED <<port, irq_enable, rings, count, any, nonblock, mark, n, tags>>

\* irq_enable |= bit, read and written back with interrupts disabled.
Load(bit, from, to) ==
  /\ Main(from, to) /\ pie' = FALSE /\ enables' = irq_enable \cup {bit}
  /\ UNCHANGED <<port, irq_enable, rings, count, any, nonblock, mark, n, tags>>

LoadWE == Load("WE", "load WE", "store WE")
LoadRE == Load("RE", "load RE", "store RE")

Store == irq_enable' = enables /\ WriteControl(enables, FALSE) /\ pie' = TRUE

\* What is left over waits for the interrupt to make room.
StoreWE ==
  /\ Store /\ UNCHANGED rings
  /\ \/ (count = 0 \/ nonblock) /\ Return("store WE")
     \/ /\ count > 0 /\ ~nonblock /\ Main("store WE", "wait") /\ enables' = {}
        /\ UNCHANGED <<count, any, nonblock, mark, n, tags>>

Wait == /\ Main("wait", "stalled") /\ (mark # tx_out \/ HostGone) /\ mark' = 0
        /\ UNCHANGED <<count, any, nonblock, n>> /\ Quiet

Stalled ==
  /\ \/ host_inactive # 0 /\ Return("stalled")
     \/ host_inactive = 0 /\ Main("stalled", "space") /\ UNCHANGED call
  /\ Quiet

Read == \E k \in ReadSizes : Call("fetch", k)

Fetch ==
  LET held == Lesser(Held(rx_in, rx_out), count)
      Go(to) == /\ Main("fetch", to) /\ n' = held
                /\ mark' = IF held = 0 THEN rx_in ELSE 0
                /\ UNCHANGED <<count, any, nonblock>>
  IN  /\ \/ held > 0 /\ Go("copy")
         \/ held = 0 /\ any /\ Go("load RE")
         \/ held = 0 /\ ~any /\ nonblock /\ Return("fetch")
         \/ held = 0 /\ ~any /\ ~nonblock /\ Go("await")
      /\ Quiet

\* got is what the caller expects next; it stays behind if it is not what comes.
Copy ==
  /\ Main("copy", IF count = n THEN "load RE" ELSE "fetch")
  /\ rx_out' = Up(rx_out, n) /\ count' = count - n /\ any' = TRUE /\ n' = 0
  /\ got' = IF \A k \in 0 .. n - 1 : rx_buf[rx_out + k] = After(got, k)
            THEN After(got, n) ELSE got
  /\ unread' = unread - n
  /\ UNCHANGED <<port, irq_enable, rx_in, tx_in, tx_out, rx_buf, tx_buf, nonblock,
                 mark, enables, pie, taken, owed, missed>>

StoreRE == /\ Store /\ End("store RE") /\ missed' = FALSE
           /\ UNCHANGED <<rings, taken, owed, got, unread>>

Await == /\ Main("await", "woken") /\ (mark # rx_in \/ HostGone)
         /\ UNCHANGED <<count, any, nonblock, mark, n>> /\ Quiet

Woken ==
  /\ \/ mark = rx_in /\ Return("woken")
     \/ /\ mark # rx_in /\ Main("woken", "fetch") /\ mark' = 0
        /\ UNCHANGED <<count, any, nonblock, n>>
  /\ Quiet

\* altera_avalon_jtag_uart_close, at the end of alt_main: spins until it may
\* return, unless O_NONBLOCK is set.
Close == Call("drain", 0)

Drain == /\ tx_out = tx_in \/ HostGone \/ nonblock
         /\ Return("drain") /\ Quiet

\* TIOCSTIMEOUT; INT_MAX - 1 is never reached by host_inactive.
Ioctl ==
  /\ isr = "off" /\ pc = "idle"
  /\ \E t \in Timeouts : timeout' = IF t \in 2 .. INT_MAX - 1 THEN t ELSE INT_MAX - 1
  /\ UNCHANGED <<port, irq_enable, rings, host_inactive, isrVars, main, tags>>
-----------------------------------------------------------------------------
(* The host.                                                               *)

HostTake == /\ Take /\ taken' = After(taken, 1) /\ owed' = owed - 1
            /\ UNCHANGED <<irq_enable, rings, alive, isrVars, main, got, unread, missed>>

HostSend == /\ Send(After(got, unread)) /\ unread' = unread + 1
            /\ UNCHANGED <<irq_enable, rings, alive, isrVars, main, taken, owed, got, missed>>

HostPause == /\ Pause
             /\ UNCHANGED <<irq_enable, rings, alive, isrVars, main, tags>>

HostUnplug == /\ Unplug
              /\ UNCHANGED <<irq_enable, rings, alive, isrVars, main, tags>>

Host == HostTake \/ HostSend \/ HostPause \/ HostUnplug

Irq == \/ Enter \/ IsrControl \/ IsrRead \/ IsrReadEmpty \/ IsrReadEarly
       \/ IsrReadFull \/ IsrWrite \/ IsrWriteEnd

Driver == \/ Space \/ Fill \/ StoreWE \/ Wait \/ Stalled
          \/ Fetch \/ Copy \/ StoreRE \/ Await \/ Woken \/ Drain
          \/ LoadWE \/ LoadRE

Next == Irq \/ Timeout \/ Driver \/ Write \/ Read \/ Close \/ Ioctl \/ Host

\* The processor executes, takes interrupts as soon as they are enabled, and
\* the alarm of SysTick comes round.  A host that is there takes what is sent
\* to it and goes on sending.
Fairness == /\ SF_vars(Irq) /\ SF_vars(Timeout) /\ SF_vars(Driver)
            /\ WF_vars(HostTake) /\ SF_vars(HostSend)

Spec == Init /\ [][Next]_vars /\ Fairness
-----------------------------------------------------------------------------
\* Every byte written and not yet taken by the host is in the ring or in the
\* FIFO, once and in order, whatever the interrupt does between the steps of
\* write; the FIFO never overflows, although its free space is read before the
\* bytes are written (altera_avalon_jtag_uart_irq 172-184).
TxInOrder ==
  LET q == wfifo \o Ring(tx_buf, tx_in, tx_out)
  IN  /\ \A k \in 1 .. Len(q) : q[k] = After(taken, k - 1)
      /\ owed = Len(q)
      /\ ~woverflow

\* The same from the host to the reader.
RxInOrder ==
  LET q == Ring(rx_buf, rx_in, rx_out) \o rfifo
  IN  /\ \A k \in 1 .. Len(q) : q[k] = After(got, k - 1)
      /\ unread = Len(q)

\* No wake-up is lost: outside a call that will see to it, bytes in the
\* transmit ring have their interrupt on, and the receive interrupt is off only
\* while its ring is full, or once it was switched off too early; and the
\* enables of the port are those of the driver (the disabled interrupts in write
\* 136-139 and read 191-194).
NoWakeupLost ==
  Interruptible =>
    /\ tx_in # tx_out => ien_AE \/ pc \in {"space", "fill", "load WE"}
    /\ ien_AF \/ RxFull \/ missed \/ pc \in {"fetch", "copy", "load RE"}
    /\ irq_enable = {b \in {"RE", "WE"} : IF b = "RE" THEN ien_AF ELSE ien_AE}

\* What was written reaches the host: while bytes are left it goes on taking
\* them, unless it is gone.
Pending == wfifo # <<>> \/ tx_in # tx_out
Drains == []<>(~Pending \/ ~there) \/ []<><<HostTake>>_vars

\* Every call returns, whether the host serves it or is gone for as long as the
\* timeout, if one is set: no caller waits for ever on a host that is gone.  Only
\* a reader whose interrupt was switched off too early may.
Deaf == pc \in {"await", "woken"} /\ missed
CallsReturn == pc # "idle" ~> pc = "idle" \/ timeout = INT_MAX - 1 \/ Deaf

\* "If there is still data available here then the buffer is full so turn off
\* receive interrupts" (altera_avalon_jtag_uart_init.c 158-159).
OffMeansFull == [][ien_AF /\ ~ien_AF' => RxFull]_vars
=============================================================================
