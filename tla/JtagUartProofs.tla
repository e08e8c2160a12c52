--------------------------- MODULE JtagUartProofs ---------------------------
(***************************************************************************)
(* The JTAG UART driver loses, doubles and moves no byte, in either        *)
(* direction, and misses no wake-up, for every length of the rings and the *)
(* FIFOs.                                                                  *)
(***************************************************************************)
EXTENDS JtagUart, TLAPS

\* A product is not smaller than its factor.
LEMMA Multiple == ASSUME NEW T \in Nat \ {0}, NEW k \in Int, k >= 1 PROVE T * k >= T
<1>1. T * k = T + T * (k - 1)
  OBVIOUS
<1>2. T * (k - 1) >= 0
  OBVIOUS
<1>. QED BY <1>1, <1>2

\* Quotient and remainder are unique.
LEMMA Unique ==
  ASSUME NEW T \in Nat \ {0}, NEW q \in Int, NEW d \in Int,
         NEW r \in 0 .. T - 1, NEW m \in 0 .. T - 1,
         T * q + r = T * d + m
  PROVE  r = m
<1>1. CASE q > d
  <2>1. T * (q - d) >= T
    BY <1>1, Multiple
  <2>2. T * (q - d) = m - r
    BY <1>1
  <2>. QED BY <2>1, <2>2
<1>2. CASE q < d
  <2>1. T * (d - q) >= T
    BY <1>2, Multiple
  <2>2. T * (d - q) = r - m
    BY <1>2
  <2>. QED BY <2>1, <2>2
<1>3. CASE q = d
  BY <1>3
<1>. QED BY <1>1, <1>2, <1>3

LEMMA DivMod ==
  ASSUME NEW T \in Nat \ {0}, NEW x \in Int
  PROVE  x % T \in 0 .. T - 1 /\ \E q \in Int : x = T * q + (x % T)
<1>1. x % T \in 0 .. T - 1 /\ x \div T \in Int /\ x = T * (x \div T) + (x % T)
  OBVIOUS
<1>. QED BY <1>1

LEMMA Distributive ==
  ASSUME NEW T \in Int, NEW x \in Int, NEW y \in Int
  PROVE  T * (x + y) = T * x + T * y
OBVIOUS

\* Counting on from a remainder.
LEMMA Shift ==
  ASSUME NEW T \in Nat \ {0}, NEW a \in Nat, NEW b \in Nat
  PROVE  ((a % T) + b) % T = (a + b) % T
<1>. DEFINE r == a % T
            m == (r + b) % T
            o == (a + b) % T
<1>0. a \in Int
  OBVIOUS
<1>1. r \in 0 .. T - 1 /\ \E p \in Int : a = T * p + r
  BY <1>0, DivMod
<1>2. r + b \in Int
  BY <1>1
<1>3. m \in 0 .. T - 1 /\ \E p \in Int : r + b = T * p + m
  <2>. HIDE DEF r
  <2>. QED BY <1>2, DivMod
<1>4. a + b \in Int
  OBVIOUS
<1>5. o \in 0 .. T - 1 /\ \E p \in Int : a + b = T * p + o
  BY <1>4, DivMod
<1>. HIDE DEF m, o
<1>6. PICK p \in Int : a = T * p + r
  BY <1>1
<1>. HIDE DEF r
<1>7. PICK q \in Int : r + b = T * q + m
  BY <1>3
<1>8. PICK d \in Int : a + b = T * d + o
  BY <1>5
<1>9. T * (p + q) = T * p + T * q
  BY Distributive
<1>10. T * (p + q) + m = T * d + o
  BY <1>1, <1>3, <1>5, <1>6, <1>7, <1>8, <1>9
<1>11. m = o
  BY <1>3, <1>5, <1>10, Unique
<1>. QED BY <1>11 DEF r, m, o

LEMMA AfterAfter ==
  ASSUME NEW t \in Nat, NEW a \in Nat, NEW b \in Nat
  PROVE  After(After(t, a), b) = After(t, a + b)
<1>1. (((t + a) % Tags) + b) % Tags = (t + a + b) % Tags
  <2>1. t + a \in Nat /\ Tags \in Nat \ {0}
    BY JtagAssumption
  <2>. QED BY <2>1, Shift
<1>2. t + a + b = t + (a + b)
  OBVIOUS
<1>. QED BY <1>1, <1>2 DEF After

LEMMA AfterTag ==
  /\ \A t \in Nat, a \in Nat : After(t, a) \in Tag
  /\ \A t \in Tag : After(t, 0) = t
<1>1. ASSUME NEW t \in Nat, NEW a \in Nat PROVE (t + a) % Tags \in 0 .. Tags - 1
  <2>1. t + a \in Int
    OBVIOUS
  <2>. QED BY <2>1, JtagAssumption, DivMod
<1>2. ASSUME NEW t \in Tag PROVE (t + 0) % Tags = t
  BY JtagAssumption DEF Tag
<1>. QED BY <1>1, <1>2 DEF After, Tag

LEMMA UpWraps ==
  \A i \in Slot, k \in 0 .. BUF_LEN :
    Up(i, k) = (IF i + k < BUF_LEN THEN i + k ELSE i + k - BUF_LEN) /\ Up(i, k) \in Slot
<1>1. ASSUME NEW i \in Slot, NEW k \in 0 .. BUF_LEN
      PROVE  Up(i, k) = (IF i + k < BUF_LEN THEN i + k ELSE i + k - BUF_LEN)
  BY JtagAssumption DEF Up, Slot
<1>. QED BY <1>1, JtagAssumption DEF Slot

\* The number of bytes in a ring.
Size(in, out) == IF in >= out THEN in - out ELSE in - out + BUF_LEN

LEMMA SizeIs ==
  \A i \in Slot, o \in Slot :
     (i - o) % BUF_LEN = Size(i, o) /\ Size(i, o) \in 0 .. BUF_LEN - 1
BY JtagAssumption DEF Slot, Size

LEMMA UpUp ==
  \A i \in Slot, a \in 0 .. BUF_LEN, b \in 0 .. BUF_LEN :
    a + b <= BUF_LEN => Up(Up(i, a), b) = Up(i, a + b)
<1>1. ASSUME NEW i \in Slot, NEW a \in 0 .. BUF_LEN, NEW b \in 0 .. BUF_LEN, a + b <= BUF_LEN
      PROVE  Up(Up(i, a), b) = Up(i, a + b)
  <2>1. a + b \in 0 .. BUF_LEN
    BY <1>1, JtagAssumption
  <2>2. /\ Up(i, a) = IF i + a < BUF_LEN THEN i + a ELSE i + a - BUF_LEN
        /\ Up(i, a + b) = IF i + (a + b) < BUF_LEN THEN i + (a + b) ELSE i + (a + b) - BUF_LEN
        /\ Up(i, a) \in Slot
    BY <2>1, UpWraps
  <2>3. Up(Up(i, a), b) = IF Up(i, a) + b < BUF_LEN THEN Up(i, a) + b ELSE Up(i, a) + b - BUF_LEN
    BY <2>2, UpWraps
  <2>. QED BY <1>1, <2>2, <2>3, JtagAssumption DEF Slot
<1>. QED BY <1>1

\* Taking from a ring and adding to it.
LEMMA SizeMoves ==
  \A i \in Slot, o \in Slot, a \in 0 .. BUF_LEN - 1 :
    /\ Up(o, Size(i, o)) = i
    /\ a <= Size(i, o) => Size(i, Up(o, a)) = Size(i, o) - a
    /\ Size(i, o) + a < BUF_LEN => Size(Up(i, a), o) = Size(i, o) + a
<1>1. ASSUME NEW i \in Slot, NEW o \in Slot, NEW a \in 0 .. BUF_LEN - 1
      PROVE  /\ Up(o, Size(i, o)) = i
             /\ a <= Size(i, o) => Size(i, Up(o, a)) = Size(i, o) - a
             /\ Size(i, o) + a < BUF_LEN => Size(Up(i, a), o) = Size(i, o) + a
  <2>1. a \in 0 .. BUF_LEN /\ Size(i, o) \in 0 .. BUF_LEN
    BY JtagAssumption, SizeIs
  <2>2. /\ Up(o, a) = IF o + a < BUF_LEN THEN o + a ELSE o + a - BUF_LEN
        /\ Up(i, a) = IF i + a < BUF_LEN THEN i + a ELSE i + a - BUF_LEN
        /\ Up(o, Size(i, o)) = IF o + Size(i, o) < BUF_LEN THEN o + Size(i, o)
                               ELSE o + Size(i, o) - BUF_LEN
    BY <2>1, UpWraps
  <2>. QED BY <2>1, <2>2, JtagAssumption DEF Slot, Size
<1>. QED BY <1>1
-----------------------------------------------------------------------------
(* The invariant, in parts.                                                *)

TxTypes == /\ wfifo \in Seq(Tag) /\ Len(wfifo) <= TxDepth
           /\ tx_in \in Slot /\ tx_out \in Slot /\ tx_buf \in [Slot -> Tag]
           /\ taken \in Tag /\ owed \in Nat

RxTypes == /\ rfifo \in Seq(Tag) /\ Len(rfifo) <= RxDepth
           /\ rx_in \in Slot /\ rx_out \in Slot /\ rx_buf \in [Slot -> Tag]
           /\ got \in Tag /\ unread \in Nat

IsrTypes == /\ isr \in {"off", "control", "read", "write"} /\ avail \in BOOLEAN
            /\ control \in [wi : BOOLEAN, space : 0 .. TxDepth]

CallTypes == /\ pc \in {"idle", "space", "fill", "wait", "stalled", "fetch", "copy",
                        "await", "woken", "load WE", "store WE", "load RE", "store RE", "drain"}
             /\ count \in Nat /\ any \in BOOLEAN /\ nonblock \in BOOLEAN
             /\ mark \in Slot /\ n \in Slot /\ enables \subseteq {"RE", "WE"} /\ pie \in BOOLEAN

RestTypes == /\ irq_enable \subseteq {"RE", "WE"} /\ missed \in BOOLEAN
             /\ host_inactive \in 0 .. INT_MAX - 2 /\ timeout \in 2 .. INT_MAX - 1

LEMMA Typed == TypeOK <=> TxTypes /\ RxTypes /\ IsrTypes /\ CallTypes /\ RestTypes
BY DEF TypeOK, TxTypes, RxTypes, IsrTypes, CallTypes, RestTypes

\* What is on its way to the host, in the FIFO and then in the ring.
TxBytes ==
  /\ \A k \in 1 .. Len(wfifo) : wfifo[k] = After(taken, k - 1)
  /\ \A k \in 0 .. Size(tx_in, tx_out) - 1 :
        tx_buf[Up(tx_out, k)] = After(taken, Len(wfifo) + k)
  /\ owed = Len(wfifo) + Size(tx_in, tx_out)
  /\ ~woverflow

\* The room the interrupt knows of and the room write knows of are there.
TxRoom == control.space <= wspace
TxPlan == pc = "fill" => /\ n > 0 /\ n <= count /\ tx_in + n <= BUF_LEN
                         /\ Size(tx_in, tx_out) + n < BUF_LEN

\* What is on its way to the reader, in the ring and then in the FIFO.
RxBytes ==
  /\ \A k \in 0 .. Size(rx_in, rx_out) - 1 : rx_buf[Up(rx_out, k)] = After(got, k)
  /\ \A k \in 1 .. Len(rfifo) : rfifo[k] = After(got, Size(rx_in, rx_out) + k - 1)
  /\ unread = Len(rfifo) + Size(rx_in, rx_out)

\* The bytes that read is about to copy are there.
RxPlan == pc = "copy" => /\ n > 0 /\ n <= count /\ rx_out + n <= BUF_LEN
                         /\ n <= Size(rx_in, rx_out)

\* The port's enables are the driver's; who reads and writes them is alone.
Enables == /\ "RE" \in irq_enable <=> ien_AF
           /\ "WE" \in irq_enable <=> ien_AE
           /\ isr # "off" => pie
           /\ pie <=> pc \notin {"store WE", "store RE"}
           /\ pc = "store WE" => enables = irq_enable \cup {"WE"}
           /\ pc = "store RE" => enables = irq_enable \cup {"RE"}

\* Who sees to it that an interrupt that is off comes on again.
TxWake == tx_in # tx_out => ien_AE \/ pc \in {"space", "fill", "load WE", "store WE"}
RxWake == /\ pc \in {"idle", "await", "woken"} => ~any
          /\ \/ ien_AF \/ RxFull \/ missed
             \/ pc \in {"copy", "load RE", "store RE"}
             \/ pc = "fetch" /\ any

Inv == TypeOK /\ TxBytes /\ TxRoom /\ TxPlan /\ RxBytes /\ RxPlan /\ Enables /\ TxWake /\ RxWake

LEMMA InitInv == Init => Inv
<1>. SUFFICES ASSUME Init PROVE Inv
  OBVIOUS
<1>1. TypeOK
  <2>1. /\ 0 \in Slot /\ 0 \in Tag /\ 0 \in 0 .. INT_MAX - 2
        /\ 0 \in 0 .. TxDepth /\ Default \in 2 .. INT_MAX - 1 /\ 0 <= TxDepth /\ 0 <= RxDepth
    BY JtagAssumption DEF Slot, Tag
  <2>. QED BY <2>1 DEF Init, TypeOK, NoControl
<1>2. TxBytes /\ TxRoom /\ TxPlan
  BY JtagAssumption DEF Init, TxBytes, TxRoom, TxPlan, Size, NoControl, wspace
<1>3. RxBytes /\ RxPlan
  BY JtagAssumption DEF Init, RxBytes, RxPlan, Size
<1>4. Enables /\ TxWake /\ RxWake
  BY DEF Init, Enables, TxWake, RxWake
<1>. QED BY <1>1, <1>2, <1>3, <1>4 DEF Inv

\* Which steps move the bytes to the host and from it, and which touch the
\* driver's other variables.
txVars  == <<wfifo, woverflow, tx_in, tx_out, tx_buf, taken, owed>>
rxVars  == <<rfifo, rx_in, rx_out, rx_buf, got, unread>>
irqVars == <<irq_enable, ien_AE, ien_AF, missed>>

LEMMA Frame ==
  ASSUME Next
  PROVE  /\ UNCHANGED txVars \/ IsrWrite \/ Fill \/ HostTake
         /\ UNCHANGED rxVars \/ IsrRead \/ IsrReadEarly \/ Copy \/ HostSend
         /\ \/ UNCHANGED irqVars
            \/ IsrReadEarly \/ IsrReadFull \/ IsrWriteEnd \/ Timeout \/ StoreWE \/ StoreRE
         /\ UNCHANGED isrVars \/ Irq
         /\ UNCHANGED main \/ Driver \/ Write \/ Read \/ Close
         /\ UNCHANGED alive \/ Timeout \/ Ioctl
<1>. USE DEF txVars, rxVars, irqVars, port, rings, alive, isrVars, call, main, tags
<1>1. CASE Enter
  BY <1>1 DEF Enter, Isr, Irq, Driver
<1>2. CASE IsrControl
  BY <1>2 DEF IsrControl, Isr, NoControl, wspace, ipen_AE, ipen_AF, Irq, Driver
<1>3. CASE IsrRead
  BY <1>3 DEF IsrRead, Isr, ReadData, Irq, Driver
<1>4. CASE IsrReadEmpty
  BY <1>4 DEF IsrReadEmpty, Isr, AfterRead, ReadData, Irq, Driver
<1>5. CASE IsrReadEarly
  BY <1>5 DEF IsrReadEarly, Isr, AfterRead, ReadTooEarly, Irq, Driver
<1>6. CASE IsrReadFull
  BY <1>6 DEF IsrReadFull, Isr, AfterRead, WriteControl, Irq, Driver
<1>7. CASE IsrWrite
  BY <1>7 DEF IsrWrite, Isr, WriteData, Irq, Driver
<1>8. CASE IsrWriteEnd
  BY <1>8 DEF IsrWriteEnd, Isr, WriteControl, NoControl, Irq, Driver
<1>9. CASE Timeout
  BY <1>9 DEF Timeout, WriteControl, Irq, Driver
<1>10. CASE Space
  BY <1>10 DEF Space, Main, Quiet, Lesser, Room, Irq, Driver
<1>11. CASE Fill
  BY <1>11 DEF Fill, Main, Irq, Driver
<1>12. CASE StoreWE
  BY <1>12 DEF StoreWE, Store, WriteControl, Return, End, Main, Irq, Driver
<1>13. CASE Wait
  BY <1>13 DEF Wait, Main, Quiet, Irq, Driver
<1>14. CASE Stalled
  BY <1>14 DEF Stalled, Return, End, Main, Quiet, Irq, Driver
<1>15. CASE Fetch
  BY <1>15 DEF Fetch, Main, Quiet, Return, End, Lesser, Held, Irq, Driver
<1>16. CASE Copy
  BY <1>16 DEF Copy, Main, Irq, Driver
<1>17. CASE StoreRE
  BY <1>17 DEF StoreRE, Store, WriteControl, End, Main, Irq, Driver
<1>18. CASE Await
  BY <1>18 DEF Await, Main, Quiet, Irq, Driver
<1>19. CASE Woken
  BY <1>19 DEF Woken, Main, Return, End, Quiet, Irq, Driver
<1>20. CASE Drain
  BY <1>20 DEF Drain, Return, End, Main, Quiet, Irq, Driver
<1>21. CASE LoadWE
  BY <1>21 DEF LoadWE, Load, Main, Irq, Driver
<1>22. CASE LoadRE
  BY <1>22 DEF LoadRE, Load, Main, Irq, Driver
<1>23. CASE Write
  BY <1>23 DEF Write, Call, Main, Irq, Driver
<1>24. CASE Read
  BY <1>24 DEF Read, Call, Main, Irq, Driver
<1>25. CASE Close
  BY <1>25 DEF Close, Call, Main, Irq, Driver
<1>26. CASE Ioctl
  BY <1>26 DEF Ioctl, Irq, Driver
<1>27. CASE HostTake
  BY <1>27 DEF HostTake, Take, Irq, Driver
<1>28. CASE HostSend
  BY <1>28 DEF HostSend, Send, Irq, Driver
<1>29. CASE HostPause
  BY <1>29 DEF HostPause, Pause, Irq, Driver
<1>30. CASE HostUnplug
  BY <1>30 DEF HostUnplug, Unplug, Irq, Driver
<1>. QED BY <1>1, <1>2, <1>3, <1>4, <1>5, <1>6, <1>7, <1>8, <1>9, <1>10, <1>11,
           <1>12, <1>13, <1>14, <1>15, <1>16, <1>17, <1>18, <1>19, <1>20, <1>21, <1>22,
           <1>23, <1>24, <1>25, <1>26, <1>27, <1>28, <1>29, <1>30
        DEF Next, Irq, Driver, Host

-----------------------------------------------------------------------------
(* The way to the host.                                                    *)

LEMMA TxFacts ==
  ASSUME Inv
  PROVE  /\ TxTypes /\ TxBytes /\ TxRoom /\ TxPlan /\ CallTypes /\ IsrTypes
         /\ taken \in Nat /\ Len(wfifo) \in Nat /\ tx_buf[tx_out] \in Tag
         /\ Size(tx_in, tx_out) \in 0 .. BUF_LEN - 1
<1>1. TxTypes /\ TxBytes /\ TxRoom /\ TxPlan /\ CallTypes /\ IsrTypes
  BY Typed DEF Inv
<1>. QED BY <1>1, SizeIs, JtagAssumption DEF TxTypes, Tag

\* The interrupt moves a byte from the ring to the FIFO.
LEMMA IsrWriteTx == ASSUME Inv, IsrWrite PROVE TxTypes' /\ TxBytes'
<1>. DEFINE size == Size(tx_in, tx_out)
<1>1. /\ TxTypes /\ TxBytes /\ taken \in Nat /\ Len(wfifo) \in Nat
      /\ size \in 0 .. BUF_LEN - 1 /\ tx_buf[tx_out] \in Tag
  BY TxFacts
<1>2. /\ control.space > 0 /\ tx_out # tx_in
      /\ tx_out' = Up(tx_out, 1) /\ tx_in' = tx_in /\ tx_buf' = tx_buf
      /\ taken' = taken /\ owed' = owed
  BY DEF IsrWrite, tags
<1>3. wspace > 0
  BY <1>2, TxFacts, JtagAssumption DEF TxRoom, wspace, IsrTypes
<1>4. wfifo' = Append(wfifo, tx_buf[tx_out]) /\ ~woverflow'
  <2>1. woverflow' = (wspace = 0)
    BY DEF IsrWrite, WriteData
  <2>2. wspace # 0
    BY <1>3
  <2>3. wfifo' = Append(wfifo, tx_buf[tx_out])
    BY <1>3 DEF IsrWrite, WriteData
  <2>. QED BY <2>1, <2>2, <2>3, Zenon
<1>5. size > 0
  BY <1>1, <1>2, JtagAssumption DEF Size, TxTypes, Slot
<1>6. Size(tx_in', tx_out') = size - 1
  BY <1>1, <1>2, <1>5, SizeMoves, JtagAssumption DEF TxTypes
<1>7. Up(tx_out, 0) = tx_out /\ Up(tx_out, 1) \in Slot
  BY <1>1, UpWraps, JtagAssumption DEF TxTypes, Slot
<1>8. /\ wfifo' \in Seq(Tag) /\ Len(wfifo') = Len(wfifo) + 1 /\ Len(wfifo') <= TxDepth
      /\ \A k \in 1 .. Len(wfifo) : wfifo'[k] = wfifo[k]
      /\ wfifo'[Len(wfifo) + 1] = tx_buf[tx_out]
  BY <1>1, <1>3, <1>4, JtagAssumption DEF TxTypes, wspace
<1>9. TxTypes'
  BY <1>1, <1>2, <1>7, <1>8 DEF TxTypes
<1>10. ASSUME NEW k \in 1 .. Len(wfifo') PROVE wfifo'[k] = After(taken', k - 1)
  <2>1. CASE k \in 1 .. Len(wfifo)
    BY <1>1, <1>2, <1>8, <2>1 DEF TxBytes
  <2>2. CASE k = Len(wfifo) + 1
    <3>1. tx_buf[Up(tx_out, 0)] = After(taken, Len(wfifo) + 0)
      BY <1>1, <1>5 DEF TxBytes
    <3>. QED BY <1>1, <1>2, <1>7, <1>8, <2>2, <3>1
  <2>. QED BY <1>1, <1>8, <2>1, <2>2
<1>11. ASSUME NEW k \in 0 .. size - 2
       PROVE  tx_buf'[Up(tx_out', k)] = After(taken', Len(wfifo') + k)
  <2>1. Up(Up(tx_out, 1), k) = Up(tx_out, 1 + k)
    BY <1>1, <1>5, UpUp, JtagAssumption DEF TxTypes
  <2>2. k + 1 \in 0 .. size - 1 /\ 1 + k = k + 1
    BY <1>1
  <2>3. tx_buf[Up(tx_out, k + 1)] = After(taken, Len(wfifo) + (k + 1))
    BY <1>1, <2>2 DEF TxBytes
  <2>4. Len(wfifo) + (k + 1) = Len(wfifo') + k
    BY <1>1, <1>8
  <2>. QED BY <1>2, <2>1, <2>2, <2>3, <2>4
<1>12. owed' = Len(wfifo') + Size(tx_in', tx_out')
  BY <1>1, <1>2, <1>6, <1>8 DEF TxBytes
<1>. HIDE DEF size
<1>13. \A k \in 0 .. Size(tx_in', tx_out') - 1 :
         tx_buf'[Up(tx_out', k)] = After(taken', Len(wfifo') + k)
  BY <1>1, <1>6, <1>11
<1>. QED BY <1>4, <1>9, <1>10, <1>12, <1>13 DEF TxBytes

\* write puts bytes into places of the ring that the interrupt does not read.
LEMMA FillTx == ASSUME Inv, Fill PROVE TxTypes' /\ TxBytes'
<1>. DEFINE size == Size(tx_in, tx_out)
<1>1. /\ TxTypes /\ TxBytes /\ taken \in Nat /\ Len(wfifo) \in Nat
      /\ size \in 0 .. BUF_LEN - 1
  BY TxFacts
<1>2. /\ wfifo' = wfifo /\ woverflow' = woverflow /\ tx_out' = tx_out /\ taken' = taken
      /\ tx_in' = Up(tx_in, n) /\ owed' = owed + n
      /\ tx_buf' = [i \in Slot |-> IF i \in tx_in .. tx_in + n - 1
                                   THEN After(taken, owed + i - tx_in) ELSE tx_buf[i]]
  BY DEF Fill, port
<1>3. n \in Nat /\ n > 0 /\ tx_in + n <= BUF_LEN /\ size + n < BUF_LEN /\ n \in 0 .. BUF_LEN - 1
  BY TxFacts, JtagAssumption DEF Fill, Main, TxPlan, CallTypes, Slot
<1>4. Up(tx_in, n) \in Slot /\ Size(tx_in', tx_out') = size + n
  <2>1. n \in 0 .. BUF_LEN /\ tx_in \in Slot /\ tx_out \in Slot
    BY <1>1, <1>3, JtagAssumption DEF TxTypes
  <2>2. Size(Up(tx_in, n), tx_out) = size + n
    BY <1>3, <2>1, SizeMoves
  <2>. QED BY <1>2, <2>1, <2>2, UpWraps
<1>5. owed = Len(wfifo) + size
  BY <1>1 DEF TxBytes
<1>6. ASSUME NEW i \in Slot PROVE tx_buf'[i] \in Tag
  <2>1. i \in tx_in .. tx_in + n - 1 => owed + i - tx_in \in Nat
    BY <1>1, <1>3, JtagAssumption DEF TxTypes, Slot
  <2>. QED BY <1>1, <1>2, <2>1, AfterTag DEF TxTypes
<1>7. TxTypes'
  <2>1. tx_buf' \in [Slot -> Tag]
    BY <1>2, <1>6
  <2>. QED BY <1>1, <1>2, <1>3, <1>4, <2>1 DEF TxTypes
<1>8. ASSUME NEW k \in 0 .. size + n - 1
      PROVE  tx_buf'[Up(tx_out, k)] = After(taken, Len(wfifo) + k)
  <2>1. /\ Up(tx_out, k) = IF tx_out + k < BUF_LEN THEN tx_out + k ELSE tx_out + k - BUF_LEN
        /\ Up(tx_out, k) \in Slot
    <3>1. k \in 0 .. BUF_LEN /\ tx_out \in Slot
      BY <1>1, <1>3, JtagAssumption DEF TxTypes
    <3>. QED BY <3>1, UpWraps
  <2>2. CASE k < size
    <3>1. Up(tx_out, k) \notin tx_in .. tx_in + n - 1
      BY <1>1, <1>3, <2>1, <2>2, JtagAssumption DEF TxTypes, Slot, Size
    <3>2. tx_buf[Up(tx_out, k)] = After(taken, Len(wfifo) + k)
      BY <1>1, <2>2 DEF TxBytes
    <3>. QED BY <1>2, <2>1, <3>1, <3>2
  <2>3. CASE k >= size
    <3>1. Up(tx_out, k) = tx_in + (k - size)
      BY <1>1, <1>3, <2>1, <2>3, JtagAssumption DEF TxTypes, Slot, Size
    <3>2. Up(tx_out, k) \in tx_in .. tx_in + n - 1
      BY <1>1, <1>3, <2>3, <3>1 DEF TxTypes, Slot
    <3>3. owed + Up(tx_out, k) - tx_in = Len(wfifo) + k
      BY <1>1, <1>5, <3>1 DEF TxTypes, Slot
    <3>. QED BY <1>2, <2>1, <3>2, <3>3
  <2>. QED BY <1>1, <2>2, <2>3
<1>9. owed' = Len(wfifo') + Size(tx_in', tx_out')
  BY <1>1, <1>2, <1>3, <1>4, <1>5
<1>10. (\A k \in 1 .. Len(wfifo) : wfifo[k] = After(taken, k - 1)) /\ ~woverflow
  BY <1>1 DEF TxBytes
<1>. HIDE DEF size
<1>11. \A k \in 0 .. Size(tx_in', tx_out') - 1 :
         tx_buf'[Up(tx_out', k)] = After(taken', Len(wfifo') + k)
  <2>. SUFFICES ASSUME NEW k \in 0 .. Size(tx_in', tx_out') - 1
                PROVE  tx_buf'[Up(tx_out', k)] = After(taken', Len(wfifo') + k)
    OBVIOUS
  <2>1. k \in 0 .. size + n - 1
    BY <1>1, <1>3, <1>4
  <2>2. tx_out' = tx_out /\ taken' = taken /\ Len(wfifo') = Len(wfifo)
    BY <1>2
  <2>. QED BY <1>8, <2>1, <2>2
<1>. QED BY <1>2, <1>7, <1>9, <1>10, <1>11 DEF TxBytes

\* The host takes the first byte of the FIFO.
LEMMA HostTakeTx == ASSUME Inv, HostTake PROVE TxTypes' /\ TxBytes'
<1>. DEFINE size == Size(tx_in, tx_out)
<1>1. /\ TxTypes /\ TxBytes /\ taken \in Nat /\ Len(wfifo) \in Nat
      /\ size \in 0 .. BUF_LEN - 1
  BY TxFacts
<1>2. /\ wfifo # <<>> /\ wfifo' = Tail(wfifo) /\ woverflow' = woverflow
      /\ tx_in' = tx_in /\ tx_out' = tx_out /\ tx_buf' = tx_buf
      /\ taken' = After(taken, 1) /\ owed' = owed - 1
  BY DEF HostTake, Take, rings
<1>3. /\ wfifo' \in Seq(Tag) /\ Len(wfifo) > 0 /\ Len(wfifo') = Len(wfifo) - 1
      /\ \A k \in 1 .. Len(wfifo') : wfifo'[k] = wfifo[k + 1]
  BY <1>1, <1>2 DEF TxTypes
<1>4. After(taken, 1) \in Tag
  BY <1>1, AfterTag
<1>5. owed = Len(wfifo) + size
  BY <1>1 DEF TxBytes
<1>6. TxTypes'
  BY <1>1, <1>2, <1>3, <1>4, <1>5, JtagAssumption DEF TxTypes
<1>7. ASSUME NEW k \in 1 .. Len(wfifo') PROVE wfifo'[k] = After(taken', k - 1)
  <2>1. wfifo[k + 1] = After(taken, (k + 1) - 1)
    BY <1>1, <1>3 DEF TxBytes
  <2>2. k - 1 \in Nat /\ (k + 1) - 1 = 1 + (k - 1)
    BY <1>1, <1>3
  <2>3. After(After(taken, 1), k - 1) = After(taken, 1 + (k - 1))
    BY <1>1, <2>2, AfterAfter
  <2>. QED BY <1>2, <1>3, <2>1, <2>2, <2>3
<1>8. ASSUME NEW k \in 0 .. size - 1
      PROVE  tx_buf'[Up(tx_out', k)] = After(taken', Len(wfifo') + k)
  <2>1. tx_buf[Up(tx_out, k)] = After(taken, Len(wfifo) + k)
    BY <1>1 DEF TxBytes
  <2>2. Len(wfifo') + k \in Nat /\ 1 + (Len(wfifo') + k) = Len(wfifo) + k
    BY <1>1, <1>3
  <2>3. After(After(taken, 1), Len(wfifo') + k) = After(taken, 1 + (Len(wfifo') + k))
    BY <1>1, <2>2, AfterAfter
  <2>. QED BY <1>2, <2>1, <2>2, <2>3
<1>9. owed' = Len(wfifo') + size
  BY <1>1, <1>2, <1>3, <1>5
<1>10. ~woverflow'
  BY <1>1, <1>2 DEF TxBytes
<1>11. Size(tx_in', tx_out') = size
  BY <1>2
<1>. HIDE DEF size
<1>. QED BY <1>6, <1>7, <1>8, <1>9, <1>10, <1>11 DEF TxBytes

LEMMA TxStep == ASSUME Inv, Next PROVE TxTypes' /\ TxBytes'
<1>1. CASE UNCHANGED txVars
  BY <1>1, TxFacts DEF txVars, TxTypes, TxBytes
<1>. QED BY <1>1, Frame, IsrWriteTx, FillTx, HostTakeTx

\* The FIFO's free space only grows while the interrupt counts down what it read.
LEMMA TxRoomStep == ASSUME Inv, Next PROVE TxRoom' /\ IsrTypes'
<1>1. /\ TxTypes /\ TxRoom /\ IsrTypes /\ Len(wfifo) \in Nat /\ TxDepth \in Nat
      /\ Len(wfifo') \in Nat /\ Len(wfifo) <= TxDepth /\ control.space \in 0 .. TxDepth
  BY TxFacts, TxStep, JtagAssumption DEF TxTypes, IsrTypes
<1>2. wfifo' = wfifo \/ IsrWrite \/ HostTake
  BY Frame DEF txVars, Fill, port
<1>3. wfifo' = wfifo => wspace' = wspace
  BY DEF wspace
<1>4. CASE Enter \/ IsrRead
  BY <1>1, <1>2, <1>3, <1>4 DEF Enter, IsrRead, ReadData, Isr, port, TxRoom, IsrTypes
<1>5. CASE IsrControl
  <2>1. ipen_AE \in BOOLEAN /\ ipen_AF \in BOOLEAN
    BY DEF ipen_AE, ipen_AF
  <2>. QED BY <1>1, <1>3, <1>5, <2>1 DEF IsrControl, Isr, port, TxRoom, IsrTypes, NoControl, wspace
<1>6. CASE IsrReadEmpty \/ IsrReadEarly \/ IsrReadFull
  BY <1>1, <1>3, <1>6 DEF IsrReadEmpty, IsrReadEarly, ReadTooEarly, IsrReadFull,
     ReadData, WriteControl, AfterRead, Isr, port, TxRoom, IsrTypes
<1>7. CASE IsrWrite
  <2>1. wspace > 0 /\ wspace' = wspace - 1
    <3>1. wspace > 0
      BY <1>1, <1>7 DEF IsrWrite, TxRoom, wspace
    <3>2. Len(wfifo') = Len(wfifo) + 1
      BY <1>1, <1>7, <3>1, TxFacts DEF IsrWrite, WriteData, TxTypes
    <3>. QED BY <1>1, <3>1, <3>2 DEF wspace
  <2>. QED BY <1>1, <1>7, <2>1 DEF IsrWrite, Isr, TxRoom, IsrTypes, wspace
<1>8. CASE IsrWriteEnd
  BY <1>1, <1>3, <1>8 DEF IsrWriteEnd, WriteControl, port, Isr, TxRoom, IsrTypes, NoControl, wspace
<1>9. CASE UNCHANGED isrVars /\ wfifo' = wfifo
  BY <1>1, <1>3, <1>9 DEF isrVars, TxRoom, IsrTypes
<1>10. CASE HostTake
  <2>1. wspace' = wspace + 1 /\ UNCHANGED isrVars
    BY <1>1, <1>10 DEF HostTake, Take, wspace, TxTypes
  <2>. QED BY <1>1, <2>1 DEF isrVars, TxRoom, IsrTypes, wspace
<1>. QED BY <1>2, <1>4, <1>5, <1>6, <1>7, <1>8, <1>9, <1>10, Frame DEF Irq

\* The room that write found is still there when it fills it.
LEMMA SpaceTx == ASSUME Inv, Space, pc' = "fill" PROVE TxPlan'
<1>. DEFINE room == Lesser(Room(tx_in, tx_out), count)
<1>1. /\ TxTypes /\ CallTypes /\ count \in Nat /\ tx_in \in Slot /\ tx_out \in Slot
  BY TxFacts DEF TxTypes, CallTypes
<1>2. /\ count # 0 /\ room # 0 /\ n' = room
      /\ count' = count /\ tx_in' = tx_in /\ tx_out' = tx_out
  BY DEF Space, Main, Quiet, rings
<1>3. /\ Room(tx_in, tx_out) \in Nat
      /\ tx_in + Room(tx_in, tx_out) <= BUF_LEN
      /\ Size(tx_in, tx_out) + Room(tx_in, tx_out) < BUF_LEN
  BY <1>1, JtagAssumption DEF Room, Size, Slot
<1>4. room \in Nat /\ room <= count /\ room <= Room(tx_in, tx_out)
  BY <1>1, <1>3 DEF Lesser
<1>5. Size(tx_in, tx_out) \in Nat /\ tx_in \in Nat /\ BUF_LEN \in Nat
  BY <1>1, TxFacts, JtagAssumption DEF Slot
<1>. HIDE DEF room
<1>. QED BY <1>1, <1>2, <1>3, <1>4, <1>5 DEF TxPlan

LEMMA MainStep ==
  ASSUME Next
  PROVE  /\ pc = "fill" /\ pc' = "fill" => UNCHANGED main
         /\ pc # "fill" /\ pc' = "fill" => Space
         /\ pc = "copy" /\ pc' = "copy" => UNCHANGED main
         /\ pc # "copy" /\ pc' = "copy" => Fetch
<1>1. UNCHANGED main => pc' = pc
  BY DEF main
<1>2. CASE Write \/ Read \/ Close
  BY <1>2 DEF Write, Read, Close, Call, Main
<1>3. CASE LoadWE \/ LoadRE \/ StoreWE \/ StoreRE
  BY <1>3 DEF LoadWE, LoadRE, Load, StoreWE, StoreRE, Return, End, Main
<1>4. CASE Fill \/ Copy
  BY <1>4 DEF Fill, Copy, Main
<1>5. CASE Wait \/ Stalled \/ Await \/ Woken \/ Drain
  BY <1>5 DEF Wait, Stalled, Await, Woken, Drain, Return, End, Main
<1>6. CASE Space
  BY <1>6 DEF Space, Main
<1>7. CASE Fetch
  BY <1>7 DEF Fetch, Main, Return, End
<1>. QED BY <1>1, <1>2, <1>3, <1>4, <1>5, <1>6, <1>7, Frame DEF Driver

LEMMA TxPlanStep == ASSUME Inv, Next PROVE TxPlan'
<1>1. /\ TxTypes /\ TxPlan /\ CallTypes /\ Size(tx_in, tx_out) \in 0 .. BUF_LEN - 1
  BY TxFacts
<1>2. CASE pc' # "fill"
  BY <1>2 DEF TxPlan
<1>3. CASE pc' = "fill" /\ pc = "fill"
  <2>1. n' = n /\ count' = count /\ UNCHANGED main
    BY <1>3, MainStep DEF main, call
  <2>2. CASE UNCHANGED <<tx_in, tx_out>>
    BY <1>1, <1>3, <2>1, <2>2 DEF TxPlan
  <2>3. CASE IsrWrite
    <3>1. tx_in' = tx_in /\ tx_out' = Up(tx_out, 1) /\ tx_out # tx_in
      BY <2>3 DEF IsrWrite
    <3>2. 1 <= Size(tx_in, tx_out) /\ 1 \in 0 .. BUF_LEN - 1
      BY <1>1, <3>1, JtagAssumption DEF TxTypes, Slot, Size
    <3>3. Size(tx_in', tx_out') = Size(tx_in, tx_out) - 1
      BY <1>1, <3>1, <3>2, SizeMoves DEF TxTypes
    <3>4. Size(tx_in, tx_out) - 1 + n < BUF_LEN
      BY <1>1, <1>3, JtagAssumption DEF TxPlan, CallTypes, Slot
    <3>. QED BY <1>1, <1>3, <2>1, <3>1, <3>3, <3>4 DEF TxPlan
  <2>4. ~Fill
    BY <1>3 DEF Fill, Main
  <2>5. HostTake => UNCHANGED <<tx_in, tx_out>>
    BY DEF HostTake, rings
  <2>. QED BY <2>2, <2>3, <2>4, <2>5, Frame DEF txVars
<1>4. CASE pc' = "fill" /\ pc # "fill"
  BY <1>4, MainStep, SpaceTx
<1>. QED BY <1>2, <1>3, <1>4
-----------------------------------------------------------------------------
(* The way to the reader.                                                  *)

LEMMA RxFacts ==
  ASSUME Inv
  PROVE  /\ RxTypes /\ RxBytes /\ RxPlan /\ CallTypes
         /\ got \in Nat /\ Len(rfifo) \in Nat
         /\ Size(rx_in, rx_out) \in 0 .. BUF_LEN - 1
<1>1. RxTypes /\ RxBytes /\ RxPlan /\ CallTypes
  BY Typed DEF Inv
<1>. QED BY <1>1, SizeIs, JtagAssumption DEF RxTypes, Tag

\* The interrupt moves a byte from the FIFO to the ring.
LEMMA IsrReadRx == ASSUME Inv, IsrRead PROVE RxTypes' /\ RxBytes'
<1>. DEFINE size == Size(rx_in, rx_out)
<1>1. /\ RxTypes /\ RxBytes /\ got \in Nat /\ Len(rfifo) \in Nat
      /\ size \in 0 .. BUF_LEN - 1
  BY RxFacts
<1>2. /\ rfifo # <<>> /\ rfifo' = Tail(rfifo) /\ Up(rx_in, 1) # rx_out
      /\ rx_in' = Up(rx_in, 1) /\ rx_out' = rx_out
      /\ rx_buf' = [rx_buf EXCEPT ![rx_in] = Head(rfifo)]
      /\ got' = got /\ unread' = unread
  BY DEF IsrRead, ReadData, RxFull, tags
<1>3. /\ rfifo' \in Seq(Tag) /\ Len(rfifo) > 0 /\ Len(rfifo') = Len(rfifo) - 1
      /\ \A k \in 1 .. Len(rfifo') : rfifo'[k] = rfifo[k + 1]
      /\ Head(rfifo) = rfifo[1] /\ rfifo[1] \in Tag
  BY <1>1, <1>2 DEF RxTypes
<1>4. size + 1 < BUF_LEN
  <2>1. Up(rx_in, 1) = IF rx_in + 1 < BUF_LEN THEN rx_in + 1 ELSE rx_in + 1 - BUF_LEN
    BY <1>1, UpWraps, JtagAssumption DEF RxTypes
  <2>. QED BY <1>1, <1>2, <2>1, JtagAssumption DEF Size, RxTypes, Slot
<1>5. Size(rx_in', rx_out') = size + 1 /\ rx_in' \in Slot
  BY <1>1, <1>2, <1>4, SizeMoves, UpWraps, JtagAssumption DEF RxTypes
<1>6. rx_buf' \in [Slot -> Tag]
  BY <1>1, <1>2, <1>3 DEF RxTypes
<1>7. RxTypes'
  BY <1>1, <1>2, <1>3, <1>5, <1>6, JtagAssumption DEF RxTypes
<1>8. ASSUME NEW k \in 0 .. size
      PROVE  rx_buf'[Up(rx_out', k)] = After(got', k)
  <2>1. CASE k = size
    <3>1. Up(rx_out, size) = rx_in
      BY <1>1, SizeMoves, JtagAssumption DEF RxTypes, Slot
    <3>2. rfifo[1] = After(got, size + 1 - 1)
      BY <1>1, <1>3 DEF RxBytes
    <3>3. size + 1 - 1 = k
      BY <1>1, <2>1
    <3>. QED BY <1>1, <1>2, <1>3, <2>1, <3>1, <3>2, <3>3 DEF RxTypes
  <2>2. CASE k < size
    <3>1. k \in 0 .. size - 1 /\ k \in 0 .. BUF_LEN
      BY <1>1, <2>2, JtagAssumption
    <3>2. rx_buf[Up(rx_out, k)] = After(got, k)
      BY <1>1, <3>1 DEF RxBytes
    <3>3. /\ Up(rx_out, k) = IF rx_out + k < BUF_LEN THEN rx_out + k ELSE rx_out + k - BUF_LEN
          /\ Up(rx_out, k) \in Slot
      BY <1>1, <3>1, UpWraps DEF RxTypes
    <3>4. Up(rx_out, k) # rx_in
      BY <1>1, <2>2, <3>3, JtagAssumption DEF RxTypes, Slot, Size
    <3>. QED BY <1>1, <1>2, <3>2, <3>3, <3>4 DEF RxTypes
  <2>. QED BY <1>1, <2>1, <2>2
<1>9. ASSUME NEW k \in 1 .. Len(rfifo')
      PROVE  rfifo'[k] = After(got', size + 1 + k - 1)
  <2>1. rfifo[k + 1] = After(got, size + (k + 1) - 1)
    BY <1>1, <1>3 DEF RxBytes
  <2>2. size + (k + 1) - 1 = size + 1 + k - 1
    BY <1>1, <1>3
  <2>. QED BY <1>2, <1>3, <2>1, <2>2
<1>10. unread' = Len(rfifo') + Size(rx_in', rx_out')
  BY <1>1, <1>2, <1>3, <1>5 DEF RxBytes
<1>11. size \in Nat
  BY <1>1
<1>. HIDE DEF size
<1>12. \A k \in 0 .. Size(rx_in', rx_out') - 1 : rx_buf'[Up(rx_out', k)] = After(got', k)
  BY <1>5, <1>8, <1>11
<1>13. \A k \in 1 .. Len(rfifo') : rfifo'[k] = After(got', Size(rx_in', rx_out') + k - 1)
  BY <1>5, <1>9
<1>. QED BY <1>7, <1>10, <1>12, <1>13 DEF RxBytes

\* A byte sent joins the FIFO.
LEMMA SendRx ==
  ASSUME Inv, Len(rfifo) < RxDepth, rfifo' = Append(rfifo, After(got, unread)),
         unread' = unread + 1, UNCHANGED <<rx_in, rx_out, rx_buf, got>>
  PROVE  RxTypes' /\ RxBytes'
<1>. DEFINE size == Size(rx_in, rx_out)
<1>1. /\ RxTypes /\ RxBytes /\ got \in Nat /\ Len(rfifo) \in Nat
      /\ size \in 0 .. BUF_LEN - 1 /\ unread \in Nat
  BY RxFacts DEF RxTypes
<1>2. After(got, unread) \in Tag /\ Size(rx_in', rx_out') = size
  BY <1>1, AfterTag
<1>3. /\ rfifo' \in Seq(Tag) /\ Len(rfifo') = Len(rfifo) + 1 /\ Len(rfifo') <= RxDepth
      /\ \A k \in 1 .. Len(rfifo) : rfifo'[k] = rfifo[k]
      /\ rfifo'[Len(rfifo) + 1] = After(got, unread)
  BY <1>1, <1>2, JtagAssumption DEF RxTypes
<1>4. RxTypes'
  BY <1>1, <1>3 DEF RxTypes
<1>5. unread = Len(rfifo) + size /\ unread' = Len(rfifo') + size
  BY <1>1, <1>3 DEF RxBytes
<1>6. ASSUME NEW k \in 1 .. Len(rfifo') PROVE rfifo'[k] = After(got', size + k - 1)
  <2>1. CASE k \in 1 .. Len(rfifo)
    BY <1>1, <1>3, <2>1 DEF RxBytes
  <2>2. CASE k = Len(rfifo) + 1
    <3>1. size + k - 1 = unread
      BY <1>1, <1>5, <2>2
    <3>. QED BY <1>3, <2>2, <3>1
  <2>. QED BY <1>1, <1>3, <2>1, <2>2
<1>7. \A k \in 0 .. size - 1 : rx_buf'[Up(rx_out', k)] = After(got', k)
  BY <1>1 DEF RxBytes
<1>. HIDE DEF size
<1>. QED BY <1>2, <1>4, <1>5, <1>6, <1>7 DEF RxBytes

\* read takes the bytes it found, and they are the next ones.
LEMMA CopyRx == ASSUME Inv, Copy PROVE RxTypes' /\ RxBytes'
<1>. DEFINE size == Size(rx_in, rx_out)
<1>1. /\ RxTypes /\ RxBytes /\ got \in Nat /\ Len(rfifo) \in Nat
      /\ size \in 0 .. BUF_LEN - 1 /\ rx_out \in Slot /\ rx_in \in Slot
  BY RxFacts DEF RxTypes
<1>2. /\ rfifo' = rfifo /\ rx_in' = rx_in /\ rx_buf' = rx_buf
      /\ rx_out' = Up(rx_out, n) /\ unread' = unread - n
      /\ got' = IF \A k \in 0 .. n - 1 : rx_buf[rx_out + k] = After(got, k)
                THEN After(got, n) ELSE got
  BY DEF Copy, port
<1>3. n \in Nat /\ n > 0 /\ rx_out + n <= BUF_LEN /\ n <= size /\ n \in 0 .. BUF_LEN - 1
  <2>1. pc = "copy" /\ RxPlan /\ n \in Slot
    BY RxFacts DEF Copy, Main, CallTypes
  <2>2. n > 0 /\ rx_out + n <= BUF_LEN /\ n <= size
    BY <2>1 DEF RxPlan
  <2>. HIDE DEF size
  <2>. QED BY <2>1, <2>2, JtagAssumption DEF Slot
<1>4. got' = After(got, n)
  <2>1. ASSUME NEW k \in 0 .. n - 1 PROVE rx_buf[rx_out + k] = After(got, k)
    <3>1. rx_buf[Up(rx_out, k)] = After(got, k)
      BY <1>1, <1>3 DEF RxBytes
    <3>2. Up(rx_out, k) = rx_out + k
      <4>1. k \in 0 .. BUF_LEN /\ rx_out + k < BUF_LEN
        BY <1>1, <1>3, JtagAssumption DEF Slot
      <4>. QED BY <1>1, <4>1, UpWraps
    <3>. QED BY <3>1, <3>2
  <2>. QED BY <1>2, <2>1
<1>5. Size(rx_in', rx_out') = size - n /\ rx_out' \in Slot /\ got' \in Tag
  <2>1. Size(rx_in, Up(rx_out, n)) = size - n
    BY <1>1, <1>3, SizeMoves
  <2>2. n \in 0 .. BUF_LEN /\ n \in Nat
    BY <1>3, JtagAssumption
  <2>3. Up(rx_out, n) \in Slot /\ After(got, n) \in Tag
    BY <1>1, <2>2, UpWraps, AfterTag
  <2>. QED BY <1>2, <1>4, <2>1, <2>3
<1>6. unread' = Len(rfifo') + (size - n)
  BY <1>1, <1>2, <1>3 DEF RxBytes, RxTypes
<1>7. RxTypes'
  BY <1>1, <1>2, <1>3, <1>5, <1>6 DEF RxTypes
<1>8. ASSUME NEW k \in 0 .. size - n - 1 PROVE rx_buf'[Up(rx_out', k)] = After(got', k)
  <2>1. /\ n + k \in 0 .. size - 1 /\ k \in Nat /\ k \in 0 .. BUF_LEN
        /\ n \in 0 .. BUF_LEN /\ n + k <= BUF_LEN
    BY <1>1, <1>3, JtagAssumption
  <2>2. rx_buf[Up(rx_out, n + k)] = After(got, n + k)
    BY <1>1, <2>1 DEF RxBytes
  <2>3. Up(Up(rx_out, n), k) = Up(rx_out, n + k)
    BY <1>1, <2>1, UpUp
  <2>4. After(After(got, n), k) = After(got, n + k)
    BY <1>1, <1>3, <2>1, AfterAfter
  <2>. QED BY <1>2, <1>4, <2>2, <2>3, <2>4
<1>9. ASSUME NEW k \in 1 .. Len(rfifo') PROVE rfifo'[k] = After(got', size - n + k - 1)
  <2>1. rfifo[k] = After(got, size + k - 1)
    BY <1>1, <1>2 DEF RxBytes
  <2>2. size - n + k - 1 \in Nat /\ n + (size - n + k - 1) = size + k - 1
    BY <1>1, <1>2, <1>3
  <2>3. After(After(got, n), size - n + k - 1) = After(got, n + (size - n + k - 1))
    BY <1>1, <1>3, <2>2, AfterAfter
  <2>. QED BY <1>2, <1>4, <2>1, <2>2, <2>3
<1>. HIDE DEF size
<1>10. \A k \in 0 .. Size(rx_in', rx_out') - 1 : rx_buf'[Up(rx_out', k)] = After(got', k)
  BY <1>5, <1>8
<1>11. \A k \in 1 .. Len(rfifo') : rfifo'[k] = After(got', Size(rx_in', rx_out') + k - 1)
  BY <1>5, <1>9
<1>. QED BY <1>5, <1>6, <1>7, <1>10, <1>11 DEF RxBytes

LEMMA RxStep == ASSUME Inv, Next PROVE RxTypes' /\ RxBytes'
<1>1. CASE UNCHANGED rxVars
  BY <1>1, RxFacts DEF rxVars, RxTypes, RxBytes
<1>2. CASE HostSend
  BY <1>2, SendRx DEF HostSend, Send, rings
<1>3. CASE IsrReadEarly
  <2>1. Len(rfifo) = 0 /\ rfifo' = Append(rfifo, After(got, unread))
    BY <1>3 DEF IsrReadEarly, ReadTooEarly
  <2>2. Len(rfifo) < RxDepth
    BY <2>1, JtagAssumption
  <2>. QED BY <1>3, <2>1, <2>2, SendRx DEF IsrReadEarly, rings
<1>. QED BY <1>1, <1>2, <1>3, Frame, IsrReadRx, CopyRx

\* The bytes that read found are still there when it copies them.
LEMMA FetchRx == ASSUME Inv, Fetch, pc' = "copy" PROVE RxPlan'
<1>. DEFINE held == Lesser(Held(rx_in, rx_out), count)
<1>1. /\ RxTypes /\ CallTypes /\ count \in Nat /\ rx_in \in Slot /\ rx_out \in Slot
  BY RxFacts DEF RxTypes, CallTypes
<1>2. /\ held > 0 /\ n' = held
      /\ count' = count /\ rx_in' = rx_in /\ rx_out' = rx_out
  <2>1. UNCHANGED rings
    BY DEF Fetch, Quiet
  <2>. QED BY <2>1 DEF Fetch, Main, Return, End, rings
<1>3. /\ Held(rx_in, rx_out) \in Nat
      /\ rx_out + Held(rx_in, rx_out) <= BUF_LEN
      /\ Held(rx_in, rx_out) <= Size(rx_in, rx_out)
  BY <1>1, JtagAssumption DEF Held, Size, Slot
<1>4. held \in Nat /\ held <= count /\ held <= Held(rx_in, rx_out)
  BY <1>1, <1>3 DEF Lesser
<1>5. Size(rx_in, rx_out) \in Nat /\ rx_out \in Nat /\ BUF_LEN \in Nat
  BY <1>1, RxFacts, JtagAssumption DEF Slot
<1>. HIDE DEF held
<1>. QED BY <1>1, <1>2, <1>3, <1>4, <1>5 DEF RxPlan

LEMMA RxPlanStep == ASSUME Inv, Next PROVE RxPlan'
<1>1. /\ RxTypes /\ RxPlan /\ CallTypes /\ Size(rx_in, rx_out) \in 0 .. BUF_LEN - 1
  BY RxFacts
<1>2. CASE pc' # "copy"
  BY <1>2 DEF RxPlan
<1>3. CASE pc' = "copy" /\ pc = "copy"
  <2>1. n' = n /\ count' = count /\ UNCHANGED main
    BY <1>3, MainStep DEF main, call
  <2>2. CASE UNCHANGED <<rx_in, rx_out>>
    BY <1>1, <1>3, <2>1, <2>2 DEF RxPlan
  <2>3. CASE IsrRead
    <3>1. rx_in' = Up(rx_in, 1) /\ rx_out' = rx_out /\ Up(rx_in, 1) # rx_out
      BY <2>3 DEF IsrRead, RxFull
    <3>2. Up(rx_in, 1) = (IF rx_in + 1 < BUF_LEN THEN rx_in + 1 ELSE rx_in + 1 - BUF_LEN)
      BY <1>1, UpWraps, JtagAssumption DEF RxTypes
    <3>3. Size(rx_in', rx_out') = Size(rx_in, rx_out) + 1
      BY <1>1, <3>1, <3>2, JtagAssumption DEF RxTypes, Slot, Size
    <3>4. n <= Size(rx_in, rx_out) + 1
      BY <1>1, <1>3, JtagAssumption DEF RxPlan, CallTypes, Slot
    <3>. QED BY <1>1, <1>3, <2>1, <3>1, <3>3, <3>4 DEF RxPlan
  <2>4. ~Copy
    BY <1>3, <2>1, MainStep DEF Copy, Main
  <2>5. HostSend \/ IsrReadEarly => UNCHANGED <<rx_in, rx_out>>
    BY DEF HostSend, IsrReadEarly, rings
  <2>. QED BY <2>2, <2>3, <2>4, <2>5, Frame DEF rxVars
<1>4. CASE pc' = "copy" /\ pc # "copy"
  BY <1>4, MainStep, FetchRx
<1>. QED BY <1>2, <1>3, <1>4
-----------------------------------------------------------------------------
(* The caller.                                                             *)

LEMMA EndCall == \A from : End(from) => (count' \in Nat /\ any' \in BOOLEAN /\ nonblock' \in BOOLEAN
                                         /\ mark' \in Slot /\ n' \in Slot
                                         /\ enables' \subseteq {"RE", "WE"} /\ pc' = "idle")
<1>1. 0 \in Slot /\ 0 \in Nat
  BY JtagAssumption DEF Slot
<1>. QED BY <1>1, Zenon DEF End, Main

LEMMA SpaceCall == ASSUME Inv, Space PROVE CallTypes'
<1>. DEFINE room == IF count = 0 THEN 0 ELSE Lesser(Room(tx_in, tx_out), count)
<1>1. CallTypes /\ tx_in \in Slot /\ tx_out \in Slot /\ count \in Nat
  BY TxFacts DEF TxTypes, CallTypes
<1>2. Room(tx_in, tx_out) \in Slot
  BY <1>1, JtagAssumption DEF Room, Slot
<1>3. room \in Slot /\ 0 \in Slot
  BY <1>1, <1>2, JtagAssumption DEF Lesser, Slot
<1>4. /\ pc' \in {"load WE", "fill"} /\ n' = room /\ mark' \in {tx_out, 0}
      /\ UNCHANGED <<count, any, nonblock, enables, pie>>
  BY DEF Space, Main, Quiet
<1>. HIDE DEF room
<1>. QED BY <1>1, <1>3, <1>4 DEF CallTypes

LEMMA FetchCall == ASSUME Inv, Fetch PROVE CallTypes'
<1>. DEFINE held == Lesser(Held(rx_in, rx_out), count)
<1>1. CallTypes /\ rx_in \in Slot /\ rx_out \in Slot /\ count \in Nat
  BY RxFacts DEF RxTypes, CallTypes
<1>2. Held(rx_in, rx_out) \in Slot
  BY <1>1, JtagAssumption DEF Held, Slot
<1>3. held \in Slot /\ 0 \in Slot
  BY <1>1, <1>2, JtagAssumption DEF Lesser, Slot
<1>4. \/ /\ pc' \in {"copy", "load RE", "await"} /\ n' = held /\ mark' \in {rx_in, 0}
         /\ UNCHANGED <<count, any, nonblock, enables, pie>>
      \/ Return("fetch") /\ pie' = pie
  BY DEF Fetch, Main, Quiet
<1>. HIDE DEF held
<1>5. CASE pc' \in {"copy", "load RE", "await"}
  BY <1>1, <1>3, <1>4, <1>5 DEF CallTypes, Return, End, Main
<1>6. CASE Return("fetch") /\ pie' = pie
  BY <1>1, <1>6, EndCall, Zenon DEF CallTypes, Return
<1>. QED BY <1>4, <1>5, <1>6

LEMMA CallStep == ASSUME Inv, Next PROVE CallTypes'
<1>1. CallTypes /\ 0 \in Slot /\ rx_in \in Slot /\ Modes \subseteq BOOLEAN
  BY RxFacts, JtagAssumption DEF Slot, RxTypes
<1>2. CASE UNCHANGED main
  BY <1>1, <1>2 DEF main, call, CallTypes
<1>3. CASE Write \/ Read \/ Close
  <2>1. PICK k \in Nat, to \in {"space", "fetch", "drain"} : Call(to, k)
    BY <1>3, JtagAssumption DEF Write, Read, Close
  <2>. QED BY <1>1, <2>1 DEF Call, Main, CallTypes
<1>4. CASE LoadWE \/ LoadRE
  <2>1. irq_enable \subseteq {"RE", "WE"}
    BY Typed DEF Inv, RestTypes
  <2>. QED BY <1>1, <1>4, <2>1 DEF LoadWE, LoadRE, Load, Main, CallTypes
<1>5. CASE Fill
  <2>1. n <= count /\ count \in Nat /\ n \in Slot
    BY <1>5, TxFacts DEF Fill, Main, TxPlan, CallTypes
  <2>2. count - n \in Nat
    BY <2>1, JtagAssumption DEF Slot
  <2>. QED BY <1>1, <1>5, <2>2 DEF Fill, Main, CallTypes
<1>6. CASE Copy
  <2>1. n <= count /\ count \in Nat /\ n \in Slot
    BY <1>6, RxFacts DEF Copy, Main, RxPlan, CallTypes
  <2>2. count - n \in Nat
    BY <2>1, JtagAssumption DEF Slot
  <2>. QED BY <1>1, <1>6, <2>2 DEF Copy, Main, CallTypes
<1>7. CASE StoreWE \/ StoreRE
  <2>1. pie' = TRUE
    BY <1>7 DEF StoreWE, StoreRE, Store
  <2>2. CASE End("store WE") \/ End("store RE")
    BY <1>1, <2>1, <2>2, EndCall, Zenon DEF CallTypes
  <2>3. CASE pc' = "wait" /\ enables' = {} /\ UNCHANGED <<count, any, nonblock, mark, n>>
    BY <1>1, <2>1, <2>3, Zenon DEF CallTypes
  <2>. QED BY <1>7, <2>2, <2>3, Zenon DEF StoreWE, StoreRE, Return, Main
<1>8. CASE Wait \/ Stalled \/ Drain \/ Await \/ Woken
  <2>1. pie' = pie
    BY <1>8 DEF Wait, Stalled, Drain, Await, Woken, Quiet
  <2>2. \/ \E from : End(from)
        \/ /\ pc' \in {"stalled", "space", "woken", "fetch"} /\ mark' \in {mark, 0}
           /\ UNCHANGED <<count, any, nonblock, n, enables>>
    BY <1>8, Zenon DEF Wait, Stalled, Drain, Await, Woken, Return, Main, Quiet, call
  <2>3. CASE \E from : End(from)
    BY <1>1, <2>1, <2>3, EndCall, Zenon DEF CallTypes
  <2>4. CASE /\ pc' \in {"stalled", "space", "woken", "fetch"} /\ mark' \in {mark, 0}
             /\ UNCHANGED <<count, any, nonblock, n, enables>>
    BY <1>1, <2>1, <2>4, Zenon DEF CallTypes
  <2>. QED BY <2>2, <2>3, <2>4
<1>. QED BY <1>2, <1>3, <1>4, <1>5, <1>6, <1>7, <1>8, Frame, SpaceCall, FetchCall DEF Driver

\* The count of silent seconds stays below the timeout that means for ever.
LEMMA RestStep == ASSUME Inv, Next PROVE RestTypes'
<1>1. RestTypes /\ CallTypes
  BY Typed DEF Inv
<1>2. irq_enable' \subseteq {"RE", "WE"} /\ missed' \in BOOLEAN
  <2>1. CASE UNCHANGED irqVars
    BY <1>1, <2>1 DEF irqVars, RestTypes
  <2>2. CASE IsrReadEarly \/ IsrReadFull \/ IsrWriteEnd \/ Timeout
    BY <1>1, <2>2 DEF IsrReadEarly, IsrReadFull, IsrWriteEnd, Timeout, tags, RestTypes
  <2>3. CASE StoreWE \/ StoreRE
    BY <1>1, <2>3 DEF StoreWE, StoreRE, Store, Return, tags, RestTypes, CallTypes
  <2>. QED BY <2>1, <2>2, <2>3, Frame
<1>3. host_inactive' \in 0 .. INT_MAX - 2 /\ timeout' \in 2 .. INT_MAX - 1
  <2>1. CASE UNCHANGED alive
    BY <1>1, <2>1 DEF alive, RestTypes
  <2>2. CASE Timeout
    <3>1. timeout' = timeout
      BY <2>2 DEF Timeout
    <3>2. CASE ac
      BY <1>1, <2>2, <3>1, <3>2, JtagAssumption DEF Timeout, RestTypes
    <3>3. CASE ~ac
      <4>1. host_inactive' = IF host_inactive < INT_MAX - 2
                             THEN host_inactive + 1 ELSE host_inactive
        BY <2>2, <3>3 DEF Timeout
      <4>. QED BY <1>1, <3>1, <4>1, JtagAssumption DEF RestTypes
    <3>. QED BY <3>2, <3>3
  <2>3. CASE Ioctl
    BY <1>1, <2>3, JtagAssumption DEF Ioctl, RestTypes
  <2>. QED BY <2>1, <2>2, <2>3, Frame
<1>. QED BY <1>2, <1>3 DEF RestTypes
-----------------------------------------------------------------------------
(* The interrupts that are on.                                             *)

LEMMA EnablesSame ==
  ASSUME Inv, Next
  PROVE  ("RE" \in irq_enable' <=> ien_AF') /\ ("WE" \in irq_enable' <=> ien_AE')
<1>1. ("RE" \in irq_enable <=> ien_AF) /\ ("WE" \in irq_enable <=> ien_AE)
  BY DEF Inv, Enables
<1>2. CASE UNCHANGED irqVars
  BY <1>1, <1>2 DEF irqVars
<1>3. CASE IsrReadEarly
  BY <1>1, <1>3 DEF IsrReadEarly, ReadTooEarly
<1>4. CASE IsrReadFull
  BY <1>1, <1>4 DEF IsrReadFull, WriteControl, port
<1>5. CASE IsrWriteEnd
  BY <1>1, <1>5 DEF IsrWriteEnd, WriteControl, port
<1>6. CASE Timeout
  BY <1>1, <1>6 DEF Timeout, WriteControl, port
<1>7. CASE StoreWE \/ StoreRE
  BY <1>7 DEF StoreWE, StoreRE, Store, WriteControl
<1>. QED BY <1>2, <1>3, <1>4, <1>5, <1>6, <1>7, Frame

LEMMA EnablesStep == ASSUME Inv, Next PROVE Enables'
<1>1. Enables
  BY DEF Inv
<1>2. isr' # "off" => pie'
  <2>1. CASE UNCHANGED isrVars /\ UNCHANGED main
    BY <1>1, <2>1 DEF Enables, isrVars, main
  <2>2. CASE Irq
    <3>1. UNCHANGED main
      BY <2>2 DEF Irq, Enter, IsrControl, IsrRead, IsrReadEmpty, IsrReadEarly, IsrReadFull,
         IsrWrite, IsrWriteEnd, Isr
    <3>2. pie \/ isr # "off"
      BY <2>2 DEF Irq, Enter, Interruptible, IsrControl, IsrRead, IsrReadEmpty, IsrReadEarly,
         IsrReadFull, IsrWrite, IsrWriteEnd, Isr
    <3>. QED BY <1>1, <3>1, <3>2 DEF Enables, main
  <2>3. CASE Driver \/ Write \/ Read \/ Close
    <3>1. isr = "off" /\ isr' = isr
      BY <2>3 DEF Driver, Space, Fill, StoreWE, Wait, Stalled, Fetch, Copy, StoreRE, Await, Woken,
         Drain, LoadWE, LoadRE, Load, Write, Read, Close, Call, Return, End, Main, isrVars
    <3>. QED BY <3>1
  <2>. QED BY <2>1, <2>2, <2>3, Frame
<1>3. /\ pie' <=> pc' \notin {"store WE", "store RE"}
      /\ \/ UNCHANGED main
         \/ pc' = "store WE" /\ enables' = irq_enable \cup {"WE"} /\ irq_enable' = irq_enable
         \/ pc' = "store RE" /\ enables' = irq_enable \cup {"RE"} /\ irq_enable' = irq_enable
         \/ pc' \notin {"store WE", "store RE"}
  <2>1. CASE UNCHANGED main
    BY <1>1, <2>1 DEF Enables, main
  <2>2. CASE LoadWE \/ LoadRE
    BY <2>2 DEF LoadWE, LoadRE, Load, Main
  <2>3. CASE StoreWE \/ StoreRE
    BY <2>3 DEF StoreWE, StoreRE, Store, Return, End, Main
  <2>4. CASE Write \/ Read \/ Close
    BY <1>1, <2>4 DEF Enables, Write, Read, Close, Call, Main
  <2>5. CASE Space \/ Fill
    BY <1>1, <2>5 DEF Enables, Space, Fill, Main, Quiet
  <2>6. CASE Fetch \/ Copy
    BY <1>1, <2>6 DEF Enables, Fetch, Copy, Return, End, Main, Quiet
  <2>7. CASE Wait \/ Stalled
    BY <1>1, <2>7 DEF Enables, Wait, Stalled, Return, End, Main, Quiet
  <2>8. CASE Await \/ Woken \/ Drain
    BY <1>1, <2>8 DEF Enables, Await, Woken, Drain, Return, End, Main, Quiet
  <2>. QED BY <2>1, <2>2, <2>3, <2>4, <2>5, <2>6, <2>7, <2>8, Frame DEF Driver
<1>4. CASE UNCHANGED main
  <2>1. pc' = pc /\ enables' = enables
    BY <1>4 DEF main, call
  <2>2. pc \in {"store WE", "store RE"} => irq_enable' = irq_enable
    <3>1. pc \in {"store WE", "store RE"} => isr = "off"
      BY <1>1 DEF Enables
    <3>2. IsrReadEarly \/ IsrReadFull \/ IsrWriteEnd => isr # "off"
      BY DEF IsrReadEarly, IsrReadFull, IsrWriteEnd, Isr
    <3>3. Timeout => irq_enable' = irq_enable
      BY DEF Timeout
    <3>4. StoreWE \/ StoreRE => pc' \notin {"store WE", "store RE"}
      BY DEF StoreWE, StoreRE, Return, End, Main
    <3>. QED BY <2>1, <3>1, <3>2, <3>3, <3>4, Frame DEF irqVars
  <2>. QED BY <1>1, <1>2, <1>3, <2>1, <2>2, EnablesSame DEF Enables
<1>5. CASE ~ UNCHANGED main
  BY <1>2, <1>3, <1>5, EnablesSame DEF Enables
<1>. QED BY <1>4, <1>5
-----------------------------------------------------------------------------
(* No wake-up is lost.                                                     *)

\* What the parts of the invariant say of the steps that disable an interrupt.
LEMMA WakeFacts ==
  ASSUME Inv
  PROVE  /\ Enables /\ TxWake /\ RxWake
         /\ pc = "store WE" => enables = irq_enable \cup {"WE"}
         /\ pc = "store RE" => enables = irq_enable \cup {"RE"}
         /\ "RE" \in irq_enable <=> ien_AF
         /\ "WE" \in irq_enable <=> ien_AE
BY DEF Inv, Enables

\* The transmit interrupt is switched off with its ring empty only.
LEMMA TxOff ==
  ASSUME Inv, Next
  PROVE  (ien_AE => ien_AE') \/ (tx_in' = tx_out' /\ UNCHANGED main)
<1>1. "WE" \in irq_enable <=> ien_AE
  BY WakeFacts
<1>2. CASE UNCHANGED irqVars
  BY <1>2 DEF irqVars
<1>3. CASE IsrReadEarly
  BY <1>3 DEF IsrReadEarly, ReadTooEarly
<1>4. CASE IsrReadFull
  BY <1>1, <1>4 DEF IsrReadFull, WriteControl, port
<1>5. CASE IsrWriteEnd
  <2>1. CASE control.space > 0
    <3>1. control.space # 0 /\ UNCHANGED rings
      BY <1>5, <2>1, TxFacts, JtagAssumption DEF IsrTypes, IsrWriteEnd
    <3>. QED BY <1>5, <3>1 DEF IsrWriteEnd, Isr, rings
  <2>2. CASE ~(control.space > 0)
    BY <1>5, <2>2 DEF IsrWriteEnd, port
  <2>. QED BY <2>1, <2>2
<1>6. CASE Timeout
  BY <1>1, <1>6 DEF Timeout, WriteControl, port
<1>7. CASE StoreWE
  BY <1>7, WakeFacts DEF StoreWE, Store, WriteControl, Return, End, Main
<1>8. CASE StoreRE
  BY <1>8, WakeFacts DEF StoreRE, Store, WriteControl, End, Main
<1>. QED BY <1>2, <1>3, <1>4, <1>5, <1>6, <1>7, <1>8, Frame

\* Only write puts bytes in its ring.
LEMMA TxFilled == ASSUME Inv, Next PROVE tx_in' = tx_out' \/ tx_in # tx_out \/ Fill
<1>1. CASE UNCHANGED txVars
  BY <1>1 DEF txVars
<1>2. CASE IsrWrite
  BY <1>2 DEF IsrWrite
<1>3. CASE HostTake
  BY <1>3 DEF HostTake, rings
<1>. QED BY <1>1, <1>2, <1>3, Frame

LEMMA TxWakeStep == ASSUME Inv, Next PROVE TxWake'
<1>. DEFINE sees == {"space", "fill", "load WE", "store WE"}
<1>1. tx_in # tx_out => ien_AE \/ pc \in sees
  BY WakeFacts DEF TxWake
<1>2. CASE Fill
  BY <1>2 DEF Fill, Main, TxWake
<1>3. CASE StoreWE
  BY <1>3, WakeFacts DEF StoreWE, Store, WriteControl, Return, End, Main, TxWake
<1>4. CASE pc \in sees => pc' \in sees
  BY <1>1, <1>2, <1>4, TxOff, TxFilled DEF TxWake, main
<1>5. pc \in sees /\ pc' \notin sees => StoreWE
  <2>1. UNCHANGED main => pc' = pc
    BY DEF main
  <2>2. Write \/ Read \/ Close \/ StoreRE \/ LoadRE \/ Fetch \/ Copy => pc \notin sees
    BY DEF Write, Read, Close, Call, StoreRE, End, LoadRE, Load, Fetch, Copy, Return, Main
  <2>3. Wait \/ Stalled \/ Await \/ Woken \/ Drain => pc \notin sees
    BY DEF Wait, Stalled, Await, Woken, Drain, Return, End, Main
  <2>4. LoadWE \/ Fill \/ Space => pc' \in sees
    BY DEF LoadWE, Load, Fill, Space, Main
  <2>. QED BY <2>1, <2>2, <2>3, <2>4, Frame DEF Driver
<1>. QED BY <1>3, <1>4, <1>5

\* The receive interrupt is switched off with its ring full, or too early.
LEMMA RxOff ==
  ASSUME Inv, Next
  PROVE  \/ (ien_AF => ien_AF') /\ (missed => missed')
         \/ (RxFull' \/ missed') /\ UNCHANGED main
         \/ ien_AF'
<1>1. "RE" \in irq_enable <=> ien_AF
  BY WakeFacts
<1>2. CASE UNCHANGED irqVars
  BY <1>2 DEF irqVars
<1>3. CASE IsrReadEarly
  BY <1>3 DEF IsrReadEarly, Isr
<1>4. CASE IsrReadFull
  BY <1>4 DEF IsrReadFull, Isr, RxFull, rings
<1>5. CASE IsrWriteEnd
  BY <1>1, <1>5 DEF IsrWriteEnd, WriteControl, port, tags
<1>6. CASE Timeout
  BY <1>1, <1>6 DEF Timeout, WriteControl, port, tags
<1>7. CASE StoreWE
  BY <1>7, WakeFacts DEF StoreWE, Store, WriteControl, Return, End, Main, tags
<1>8. CASE StoreRE
  BY <1>8, WakeFacts DEF StoreRE, Store, WriteControl, End, Main
<1>. QED BY <1>2, <1>3, <1>4, <1>5, <1>6, <1>7, <1>8, Frame

\* Only read empties its ring, and only the interrupt fills it.
LEMMA RxFilled == ASSUME Inv, Next, RxFull PROVE RxFull' \/ Copy
<1>1. CASE UNCHANGED rxVars
  BY <1>1 DEF rxVars, RxFull
<1>2. IsrRead => ~RxFull
  BY DEF IsrRead
<1>3. CASE IsrReadEarly
  BY <1>3 DEF IsrReadEarly, rings, RxFull
<1>4. CASE HostSend
  BY <1>4 DEF HostSend, rings, RxFull
<1>. QED BY <1>1, <1>2, <1>3, <1>4, Frame

\* Nobody leaves read, having read something, but through the enable.
LEMMA RxWakeStep == ASSUME Inv, Next PROVE RxWake'
<1>. DEFINE on == ien_AF \/ RxFull \/ missed
            sees == pc \in {"copy", "load RE", "store RE"} \/ (pc = "fetch" /\ any)
<1>1. (on \/ sees) /\ (pc \in {"idle", "await", "woken"} => ~any)
  BY WakeFacts DEF RxWake
<1>2. CASE Copy
  BY <1>2 DEF Copy, Main, RxWake
<1>3. CASE StoreRE
  BY <1>3, WakeFacts DEF StoreRE, Store, WriteControl, End, Main, RxWake
<1>4. ASSUME ~Copy, ~StoreRE, on PROVE on'
  BY <1>4, RxOff, RxFilled
<1>5. /\ pc' \in {"idle", "await", "woken"} => ~any'
      /\ sees /\ ~Copy /\ ~StoreRE => sees'
  <2>1. CASE UNCHANGED main
    BY <1>1, <2>1 DEF main, call, Copy, StoreRE, End, Main
  <2>2. CASE Write \/ Read \/ Close
    BY <1>1, <2>2 DEF Write, Read, Close, Call, Main
  <2>3. CASE LoadWE \/ LoadRE
    BY <2>3 DEF LoadWE, LoadRE, Load, Main
  <2>4. CASE Space \/ Fill
    BY <2>4 DEF Space, Fill, Main
  <2>5. CASE StoreWE
    BY <2>5 DEF StoreWE, Return, End, Main
  <2>6. CASE Wait \/ Stalled
    BY <2>6 DEF Wait, Stalled, Return, End, Main
  <2>7. CASE Fetch
    <3>1. CASE pc' \in {"copy", "load RE"}
      BY <3>1
    <3>2. CASE pc' = "await"
      <4>1. any' = any
        BY <2>7, <3>2 DEF Fetch, Return, End, Main
      <4>2. pc' = "await" => ~any
        BY <2>7 DEF Fetch, Return, End, Main
      <4>3. ~any' /\ pc' # "fetch"
        BY <3>2, <4>1, <4>2, Zenon
      <4>4. pc = "fetch" /\ ~any
        BY <2>7, <3>2, <4>2 DEF Fetch, Return, End, Main
      <4>. QED BY <4>3, <4>4
    <3>3. CASE End("fetch")
      BY <3>3, <2>7 DEF End, Main, Fetch
    <3>. QED BY <2>7, <3>1, <3>2, <3>3 DEF Fetch, Return, Main
  <2>8. CASE Await \/ Woken
    <3>1. pc \in {"await", "woken"} /\ ~any
      BY <1>1, <2>8 DEF Await, Woken, Return, End, Main
    <3>2. CASE any' = any
      <4>1. ~any'
        BY <3>1, <3>2, Zenon
      <4>. QED BY <3>1, <4>1
    <3>3. CASE any' = FALSE
      BY <3>1, <3>3
    <3>4. Await => any' = any
      BY DEF Await
    <3>5. Woken => any' = any \/ any' = FALSE
      BY DEF Woken, Return, End
    <3>. QED BY <2>8, <3>2, <3>3, <3>4, <3>5
  <2>9. CASE Drain
    BY <2>9 DEF Drain, Return, End, Main
  <2>10. CASE Copy \/ StoreRE
    BY <2>10 DEF Copy, StoreRE, End, Main
  <2>. QED BY <2>1, <2>2, <2>3, <2>4, <2>5, <2>6, <2>7, <2>8, <2>9, <2>10, Frame DEF Driver
<1>6. CASE ~Copy /\ ~StoreRE
  BY <1>1, <1>4, <1>5, <1>6 DEF RxWake
<1>. QED BY <1>2, <1>3, <1>6
-----------------------------------------------------------------------------
LEMMA NextInv == Inv /\ [Next]_vars => Inv'
<1>1. ASSUME Inv, Next PROVE Inv'
  <2>1. TypeOK'
    <3>1. TxTypes' /\ RxTypes' /\ IsrTypes' /\ CallTypes' /\ RestTypes'
      BY <1>1, TxStep, RxStep, TxRoomStep, CallStep, RestStep
    <3>. QED BY <3>1 DEF TypeOK, TxTypes, RxTypes, IsrTypes, CallTypes, RestTypes
  <2>. QED BY <1>1, <2>1, TxStep, RxStep, TxRoomStep, TxPlanStep, RxPlanStep,
              EnablesStep, TxWakeStep, RxWakeStep DEF Inv
<1>2. ASSUME Inv, UNCHANGED vars PROVE Inv'
  <2>. USE <1>2 DEF Inv, vars, port, rings, alive, isrVars, call, main, tags
  <2>1. TypeOK'
    <3>1. TxTypes' /\ RxTypes'
      BY Typed DEF TxTypes, RxTypes
    <3>2. IsrTypes' /\ RestTypes'
      BY Typed DEF IsrTypes, RestTypes
    <3>3. CallTypes'
      BY Typed DEF CallTypes
    <3>. QED BY <3>1, <3>2, <3>3 DEF TypeOK, TxTypes, RxTypes, IsrTypes, CallTypes, RestTypes
  <2>2. TxBytes' /\ TxRoom' /\ TxPlan'
    BY DEF TxBytes, TxRoom, TxPlan, wspace
  <2>3. RxBytes' /\ RxPlan'
    BY DEF RxBytes, RxPlan
  <2>4. Enables' /\ TxWake' /\ RxWake'
    BY DEF Enables, TxWake, RxWake, RxFull
  <2>. QED BY <2>1, <2>2, <2>3, <2>4
<1>. QED BY <1>1, <1>2

LEMMA Invariance == Spec => []Inv
<1>. QED BY InitInv, NextInv, PTL DEF Spec

\* The rings, the FIFOs and the driver's variables keep their types; host_inactive
\* never reaches the timeout that stands for "for ever".
THEOREM TypeCorrect == Spec => []TypeOK
<1>1. Inv => TypeOK
  BY DEF Inv
<1>. QED BY <1>1, Invariance, PTL

\* No byte on its way to the host is lost, doubled or overtaken, whenever the
\* interrupt comes, for rings and FIFOs of any length; the FIFO never overflows.
THEOREM TxOrder == Spec => []TxInOrder
<1>1. ASSUME Inv PROVE TxInOrder
  <2>. DEFINE size == Size(tx_in, tx_out)
              ring == Ring(tx_buf, tx_in, tx_out)
              q == wfifo \o ring
  <2>1. /\ TxTypes /\ TxBytes /\ Len(wfifo) \in Nat /\ wfifo \in Seq(Tag)
        /\ size \in 0 .. BUF_LEN - 1 /\ tx_in \in Slot /\ tx_out \in Slot
    BY <1>1, TxFacts DEF TxTypes
  <2>2. ring = [k \in 1 .. size |-> tx_buf[Up(tx_out, k - 1)]]
    BY <2>1, SizeIs DEF Ring
  <2>3. ASSUME NEW k \in 1 .. size
        PROVE  tx_buf[Up(tx_out, k - 1)] \in Tag /\ ring[k] = After(taken, Len(wfifo) + k - 1)
    <3>1. /\ k - 1 \in 0 .. size - 1 /\ k - 1 \in 0 .. BUF_LEN
          /\ Len(wfifo) + (k - 1) = Len(wfifo) + k - 1
      BY <2>1, JtagAssumption
    <3>2. tx_buf[Up(tx_out, k - 1)] = After(taken, Len(wfifo) + (k - 1))
      BY <2>1, <3>1 DEF TxBytes
    <3>3. Up(tx_out, k - 1) \in Slot
      BY <2>1, <3>1, UpWraps
    <3>. QED BY <2>1, <2>2, <3>1, <3>2, <3>3 DEF TxTypes
  <2>4. ring \in Seq(Tag) /\ Len(ring) = size
    <3>. HIDE DEF size
    <3>. QED BY <2>1, <2>2, <2>3
  <2>. HIDE DEF ring, size
  <2>5. /\ Len(q) = Len(wfifo) + size
        /\ \A k \in 1 .. Len(wfifo) : q[k] = wfifo[k]
        /\ \A k \in Len(wfifo) + 1 .. Len(wfifo) + size : q[k] = ring[k - Len(wfifo)]
    BY <2>1, <2>4
  <2>. HIDE DEF q
  <2>6. ASSUME NEW k \in 1 .. Len(q) PROVE q[k] = After(taken, k - 1)
    <3>1. CASE k \in 1 .. Len(wfifo)
      BY <2>1, <2>5, <3>1 DEF TxBytes
    <3>2. CASE k \in Len(wfifo) + 1 .. Len(wfifo) + size
      <4>1. k - Len(wfifo) \in 1 .. size /\ Len(wfifo) + (k - Len(wfifo)) - 1 = k - 1
        BY <2>1, <3>2
      <4>2. ring[k - Len(wfifo)] = After(taken, Len(wfifo) + (k - Len(wfifo)) - 1)
        BY <2>3, <4>1
      <4>. QED BY <2>5, <3>2, <4>1, <4>2
    <3>. QED BY <2>1, <2>5, <3>1, <3>2
  <2>7. owed = Len(q) /\ ~woverflow
    BY <2>1, <2>5 DEF TxBytes, size
  <2>. QED BY <2>6, <2>7 DEF TxInOrder, q, ring
<1>. QED BY <1>1, Invariance, PTL

\* No byte on its way to the reader is lost, doubled or overtaken either, be it
\* that read comes between two bytes of the interrupt.
THEOREM RxOrder == Spec => []RxInOrder
<1>1. ASSUME Inv PROVE RxInOrder
  <2>. DEFINE size == Size(rx_in, rx_out)
              ring == Ring(rx_buf, rx_in, rx_out)
              q == ring \o rfifo
  <2>1. /\ RxTypes /\ RxBytes /\ Len(rfifo) \in Nat /\ rfifo \in Seq(Tag)
        /\ size \in 0 .. BUF_LEN - 1 /\ rx_in \in Slot /\ rx_out \in Slot
    BY <1>1, RxFacts DEF RxTypes
  <2>2. ring = [k \in 1 .. size |-> rx_buf[Up(rx_out, k - 1)]]
    BY <2>1, SizeIs DEF Ring
  <2>3. ASSUME NEW k \in 1 .. size
        PROVE  rx_buf[Up(rx_out, k - 1)] \in Tag /\ ring[k] = After(got, k - 1)
    <3>1. k - 1 \in 0 .. size - 1 /\ k - 1 \in 0 .. BUF_LEN
      BY <2>1, JtagAssumption
    <3>2. rx_buf[Up(rx_out, k - 1)] = After(got, k - 1)
      BY <2>1, <3>1 DEF RxBytes
    <3>3. Up(rx_out, k - 1) \in Slot
      BY <2>1, <3>1, UpWraps
    <3>. QED BY <2>1, <2>2, <3>2, <3>3 DEF RxTypes
  <2>4. ring \in Seq(Tag) /\ Len(ring) = size
    <3>. HIDE DEF size
    <3>. QED BY <2>1, <2>2, <2>3
  <2>. HIDE DEF ring, size
  <2>5. /\ Len(q) = size + Len(rfifo)
        /\ \A k \in 1 .. size : q[k] = ring[k]
        /\ \A k \in size + 1 .. size + Len(rfifo) : q[k] = rfifo[k - size]
    BY <2>1, <2>4
  <2>. HIDE DEF q
  <2>6. ASSUME NEW k \in 1 .. Len(q) PROVE q[k] = After(got, k - 1)
    <3>1. CASE k \in 1 .. size
      BY <2>3, <2>5, <3>1
    <3>2. CASE k \in size + 1 .. size + Len(rfifo)
      <4>1. k - size \in 1 .. Len(rfifo) /\ size + (k - size) - 1 = k - 1
        BY <2>1, <3>2
      <4>2. rfifo[k - size] = After(got, size + (k - size) - 1)
        BY <2>1, <4>1 DEF RxBytes, size
      <4>. QED BY <2>5, <3>2, <4>1, <4>2
    <3>. QED BY <2>1, <2>5, <3>1, <3>2
  <2>7. unread = Len(q)
    BY <2>1, <2>5 DEF RxBytes, size
  <2>. QED BY <2>6, <2>7 DEF RxInOrder, q, ring
<1>. QED BY <1>1, Invariance, PTL

\* Bytes in the transmit ring have their interrupt on unless write is about to
\* switch it on, and the receive interrupt is off only with a full ring, or once
\* it was switched off too early.
THEOREM Wakes == Spec => []NoWakeupLost
<1>1. ASSUME Inv, Interruptible PROVE
        /\ tx_in # tx_out => ien_AE \/ pc \in {"space", "fill", "load WE"}
        /\ ien_AF \/ RxFull \/ missed \/ pc \in {"fetch", "copy", "load RE"}
        /\ irq_enable = {b \in {"RE", "WE"} : IF b = "RE" THEN ien_AF ELSE ien_AE}
  <2>1. pc \notin {"store WE", "store RE"}
    BY <1>1, WakeFacts DEF Enables, Interruptible
  <2>2. irq_enable \subseteq {"RE", "WE"}
    BY <1>1 DEF Inv, TypeOK
  <2>3. irq_enable = {b \in {"RE", "WE"} : IF b = "RE" THEN ien_AF ELSE ien_AE}
    BY <1>1, <2>2, WakeFacts
  <2>. QED BY <1>1, <2>1, <2>3, WakeFacts DEF TxWake, RxWake
<1>2. Inv => NoWakeupLost
  BY <1>1 DEF NoWakeupLost
<1>. QED BY <1>2, Invariance, PTL
=============================================================================
