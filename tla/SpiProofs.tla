------------------------------- MODULE SpiProofs -------------------------------
(***************************************************************************)
(* The driver of SpiCommand never overruns the master, whatever commands   *)
(* it is called with: one credit is enough of a lock.                      *)
(***************************************************************************)
EXTENDS SpiCommand, SequenceTheorems, TLAPS

\* Where the driver can stand.
Places == /\ pc \in {"idle", "control", "discard", "poll", "send", "receive", "drain"}
          /\ credits \in {-1024} \cup 0 .. MaxCredits

CreditInv == Places /\ Credit /\ NoOverrun

LEMMA CreditInit == ASSUME MaxCredits = 1 PROVE Init => CreditInv
  BY DEF Init, SPI!Init, CreditInv, Places, Credit, NoOverrun, InFlight

\* No step of the driver or of the master loses the credit or spends it twice.
LEMMA CreditStep ==
  ASSUME MaxCredits = 1, CreditInv, [Next]_vars
  PROVE  CreditInv'
<1> USE DEF CreditInv, Places, Credit, NoOverrun, InFlight
<1>1. CASE Call
  BY <1>1 DEF Call, master
<1>2. CASE Control
  BY <1>2 DEF Control, SPI!WriteControl, local, master
<1>3. CASE Discard
  BY <1>3 DEF Discard, SPI!ReadRx, local
<1>4. CASE Poll
  BY <1>4 DEF Poll, master
<1>5. CASE Send
  <2>1. CASE ~(trdy /\ credits > 0)
    BY <1>5, <2>1 DEF Send, master
  <2>2. CASE trdy /\ credits > 0 /\ SendByte
    BY <1>5, <2>2 DEF Send, SendByte, SPI!WriteTx, SPI!TRDY, SPI!LoadPending
  <2>3. CASE trdy /\ credits > 0 /\ SendZero
    BY <1>5, <2>3 DEF Send, SendZero, SPI!WriteTx, SPI!TRDY, SPI!LoadPending
  <2>4. CASE trdy /\ credits > 0 /\ SendNothing
    BY <1>5, <2>4 DEF Send, SendNothing, master
  <2> QED
    BY <1>5, <2>1, <2>2, <2>3, <2>4 DEF Send
<1>6. CASE Receive
  <2>1. CASE rrdy
    BY <1>6, <2>1 DEF Receive, SPI!ReadRx
  <2>2. CASE ~rrdy
    BY <1>6, <2>2 DEF Receive, master
  <2> QED
    BY <2>1, <2>2
<1>7. CASE Release
  BY <1>7 DEF Release, SPI!WriteControl, master
<1>8. CASE Load
  BY <1>8 DEF Load, SPI!Load, SPI!LoadPending, local
<1>9. CASE Shift
  BY <1>9 DEF Shift, SPI!Shift, local
<1>10. CASE Finish
  <2>1. /\ transmitting /\ transmitting' = FALSE /\ RRDY' = TRUE
        /\ UNCHANGED <<tx_holding_primed, TOE, pc, credits, rrdy>>
    BY <1>10 DEF Finish, SPI!Finish, local
  <2>2. ~RRDY
    BY <2>1
  <2>3. ~ROE'
    BY <1>10, <2>2, Zenon DEF Finish, SPI!Finish
  <2> QED
    BY <2>1, <2>2, <2>3
<1>11. CASE UNCHANGED vars
  BY <1>11 DEF vars, master, local
<1> QED
  BY <1>1, <1>2, <1>3, <1>4, <1>5, <1>6, <1>7, <1>8, <1>9, <1>10, <1>11 DEF Next, Driver

\* With one credit a byte is on its way only while the credit is spent, in every
\* execution and for all commands (altera_avalon_spi.c 53-57, 79-118).
THEOREM CreditKept == ASSUME MaxCredits = 1 PROVE Spec => []Credit
<1>1. Init => CreditInv
  BY CreditInit
<1>2. CreditInv /\ [Next]_vars => CreditInv'
  BY CreditStep
<1>3. CreditInv => Credit
  BY DEF CreditInv
<1> QED
  BY <1>1, <1>2, <1>3, PTL DEF Spec

\* The master loses no byte in either direction, for all commands and replies.
THEOREM NeverOverrun == ASSUME MaxCredits = 1 PROVE Spec => []NoOverrun
<1>1. Init => CreditInv
  BY CreditInit
<1>2. CreditInv /\ [Next]_vars => CreditInv'
  BY CreditStep
<1>3. CreditInv => NoOverrun
  BY DEF CreditInv
<1> QED
  BY <1>1, <1>2, <1>3, PTL DEF Spec
-----------------------------------------------------------------------------
(* What the driver and the wire know of the command.  A pass of the loop    *)
(* sends and receives in one go, so that in the loop the bytes sent are     *)
(* those received and the one that may be on its way.                       *)

InLoop == pc \in {"poll", "send", "receive"}

\* The bytes given to the master, and the replies taken from it.
Sent == written + (cmd.read_length - write_zeros)
Got  == (Len(cmd.tx) - read_ignore) + Len(read_data)

CallTypes ==
  /\ cmd \in Commands \cup {None} /\ (cmd = None <=> pc = "idle")
  /\ SSO \in BOOLEAN
  /\ replies \in Seq(Replies)
  /\ cmd # None => /\ written \in 0 .. Len(cmd.tx) /\ write_zeros \in 0 .. cmd.read_length
                   /\ read_ignore \in 0 .. Len(cmd.tx) /\ read_data \in Seq(Replies)

\* The zeros follow the bytes of the command, the replies that are stored those that
\* are ignored.
Books ==
  /\ cmd # None => /\ written < Len(cmd.tx) => write_zeros = cmd.read_length
                   /\ read_ignore > 0 => Len(read_data) = 0
  /\ pc \in {"control", "discard"} =>
       /\ written = 0 /\ write_zeros = cmd.read_length
       /\ read_ignore = Len(cmd.tx) /\ Len(read_data) = 0 /\ Len(replies) = 0
  /\ InLoop => /\ Sent = Got + InFlight
               /\ Len(replies) = Got + (IF RRDY THEN 1 ELSE 0)
  /\ pc = "drain" => /\ read_ignore = 0 /\ Len(read_data) = cmd.read_length
                     /\ Len(replies) = Transfer!Total(cmd) /\ Len(replies) > 0

\* The bytes are where the books say, in order.
Contents ==
  /\ cmd # None => \A i \in 1 .. Len(read_data) : read_data[i] = replies[Len(cmd.tx) + i]
  /\ RRDY => rx_holding = replies[Len(replies)]
  /\ tx_holding_primed => tx_holding = Transfer!WireByte(cmd, Len(replies) + 1)
  /\ transmitting => shift_reg = Transfer!WireByte(cmd, Len(replies) + 1)
  /\ pc \notin {"idle", "control"} => cmd.toggle \/ SSO

WireInv == CreditInv /\ CallTypes /\ Books /\ Contents
-----------------------------------------------------------------------------
LEMMA InCall ==
  ASSUME CallTypes, pc # "idle"
  PROVE  /\ cmd \in Commands /\ cmd # None
         /\ cmd.tx \in Seq(Nat) /\ Len(cmd.tx) \in Nat /\ cmd.read_length \in Nat
         /\ cmd.merge \in BOOLEAN /\ cmd.toggle \in BOOLEAN
         /\ written \in 0 .. Len(cmd.tx) /\ write_zeros \in 0 .. cmd.read_length
         /\ read_ignore \in 0 .. Len(cmd.tx) /\ read_data \in Seq(Replies)
         /\ Len(read_data) \in Nat
         /\ Transfer!Total(cmd) = Len(cmd.tx) + cmd.read_length
BY CommandAssumption DEF CallTypes, Transfer!Total

\* With a byte on its way the driver is in the loop, and no other byte is.
LEMMA OnItsWay ==
  ASSUME MaxCredits = 1, CreditInv, tx_holding_primed \/ transmitting \/ RRDY
  PROVE  /\ InLoop /\ InFlight = 1
         /\ tx_holding_primed => ~transmitting /\ ~RRDY
         /\ transmitting => ~tx_holding_primed /\ ~RRDY
BY DEF CreditInv, Places, Credit, InFlight, InLoop

LEMMA WireInit == ASSUME MaxCredits = 1 PROVE Init => WireInv
<1>. SUFFICES ASSUME Init PROVE WireInv
  OBVIOUS
<1>1. CallTypes
  <2>1. cmd = None /\ pc = "idle" /\ SSO = FALSE /\ replies = <<>>
    BY DEF Init, SPI!Init
  <2>2. <<>> \in Seq(Replies)
    OBVIOUS
  <2>. QED BY <2>1, <2>2 DEF CallTypes
<1>2. Books /\ Contents
  BY DEF Init, SPI!Init, Books, Contents, InLoop
<1>. QED BY <1>1, <1>2, CreditInit DEF WireInv

LEMMA WireCall == ASSUME MaxCredits = 1, WireInv, Call PROVE CallTypes' /\ Books' /\ Contents'
<1>1. /\ pc = "idle" /\ pc' = "control" /\ written' = 0 /\ read_data' = <<>> /\ replies' = <<>>
      /\ SSO' = SSO /\ SSO \in BOOLEAN /\ UNCHANGED master
      /\ cmd' \in Commands /\ write_zeros' = cmd'.read_length /\ read_ignore' = Len(cmd'.tx)
  BY DEF Call, master, WireInv, CallTypes
<1>2. cmd' # None /\ Len(cmd'.tx) \in Nat /\ cmd'.read_length \in Nat
  BY <1>1, CommandAssumption
<1>3. CallTypes'
  BY <1>1, <1>2 DEF CallTypes
<1>4. Books'
  BY <1>1, <1>2 DEF Books, InLoop
<1>5. ~RRDY' /\ ~tx_holding_primed' /\ ~transmitting'
  BY <1>1, OnItsWay DEF WireInv, InLoop, master
<1>6. Contents'
  BY <1>1, <1>5 DEF Contents
<1>. QED BY <1>3, <1>4, <1>6

LEMMA WireControl == ASSUME MaxCredits = 1, WireInv, Control \/ Discard
                     PROVE  CallTypes' /\ Books' /\ Contents'
<1>1. /\ pc \in {"control", "discard"} /\ pc' \in {"discard", "poll"}
      /\ CallTypes /\ Books /\ Contents /\ UNCHANGED <<local, slave>>
      /\ pc = "control" => pc' = "discard"
      /\ UNCHANGED <<tx_holding, tx_holding_primed, shift_reg, transmitting, rx_holding>>
      /\ RRDY' => RRDY
  BY DEF Control, Discard, WireInv, SPI!WriteControl, SPI!ReadRx, master
<1>2. SSO' \in BOOLEAN /\ (cmd.toggle \/ SSO')
  BY <1>1 DEF Control, Discard, SPI!WriteControl, SPI!ReadRx, master, CallTypes, Contents
<1>3. ~RRDY' /\ ~tx_holding_primed' /\ ~transmitting'
  BY <1>1, OnItsWay DEF WireInv, InLoop
<1>4. CallTypes'
  BY <1>1, <1>2 DEF CallTypes, local, slave
<1>5. Books'
  <2>1. InFlight' = 0
    BY <1>3 DEF InFlight
  <2>. QED BY <1>1, <1>3, <2>1, InCall DEF Books, InLoop, Sent, Got, local, slave
<1>6. Contents'
  BY <1>1, <1>2, <1>3 DEF Contents, local, slave
<1>. QED BY <1>4, <1>5, <1>6

LEMMA WirePoll == ASSUME MaxCredits = 1, WireInv, Poll PROVE CallTypes' /\ Books' /\ Contents'
<1>1. /\ pc = "poll" /\ pc' = "send" /\ CallTypes /\ Books /\ Contents
      /\ UNCHANGED <<master, cmd, written, write_zeros, read_ignore, read_data, slave>>
  BY DEF Poll, WireInv
<1>2. CallTypes' /\ Contents'
  BY <1>1 DEF CallTypes, Contents, master, slave
<1>3. Books'
  BY <1>1 DEF Books, InLoop, Sent, Got, InFlight, master, slave
<1>. QED BY <1>2, <1>3

\* The next byte goes out only when the last one has come back.
LEMMA WireSend == ASSUME MaxCredits = 1, WireInv, Send PROVE CallTypes' /\ Books' /\ Contents'
<1>1. /\ pc = "send" /\ pc' = "receive" /\ CallTypes /\ Books /\ Contents /\ CreditInv
      /\ UNCHANGED <<cmd, read_ignore, rrdy, read_data, slave>>
  BY DEF Send, WireInv
<1>2. CASE UNCHANGED <<master, written, write_zeros>>
  <2>1. CallTypes' /\ Contents'
    BY <1>1, <1>2 DEF CallTypes, Contents, master, slave
  <2>2. Books'
    BY <1>1, <1>2 DEF Books, InLoop, Sent, Got, InFlight, master, slave
  <2>. QED BY <2>1, <2>2
<1>3. CASE trdy /\ credits > 0 /\ (SendByte \/ SendZero)
  <2>1. InFlight = 0 /\ ~tx_holding_primed /\ ~transmitting /\ ~RRDY
    BY <1>1, <1>3 DEF CreditInv, Places, Credit, InFlight
  <2>2. /\ Sent = Got /\ Len(replies) = Got /\ Got \in Nat
        /\ written < Len(cmd.tx) => write_zeros = cmd.read_length
        /\ read_ignore > 0 => Len(read_data) = 0
    BY <1>1, <2>1, InCall DEF Books, InLoop, Got
  <2>3. /\ tx_holding_primed' = TRUE /\ ~transmitting' /\ ~RRDY'
        /\ UNCHANGED <<shift_reg, SSO>>
    BY <1>3, <2>1 DEF SendByte, SendZero, SPI!WriteTx, SPI!TRDY
  <2>4. InFlight' = 1
    BY <2>3 DEF InFlight
  <2>5. /\ written' \in 0 .. Len(cmd.tx) /\ write_zeros' \in 0 .. cmd.read_length
        /\ Sent' = Sent + 1 /\ (written' < Len(cmd.tx) => write_zeros' = cmd.read_length)
        /\ tx_holding' = Transfer!WireByte(cmd, Sent + 1)
    <3>1. CASE SendByte
      <4>1. tx_holding' = cmd.tx[written + 1]
        BY <2>1, <3>1 DEF SendByte, SPI!WriteTx, SPI!TRDY
      <4>2. written' = written + 1 /\ write_zeros' = write_zeros /\ written < Len(cmd.tx)
        BY <3>1 DEF SendByte
      <4>3. Sent = written
        BY <1>1, <2>2, <4>2, InCall DEF Sent
      <4>. QED BY <1>1, <2>2, <4>1, <4>2, <4>3, InCall DEF Sent, Transfer!WireByte
    <3>2. CASE SendZero
      <4>1. tx_holding' = 0
        BY <2>1, <3>2 DEF SendZero, SPI!WriteTx, SPI!TRDY
      <4>2. /\ written' = written /\ write_zeros' = write_zeros - 1
            /\ written = Len(cmd.tx) /\ write_zeros > 0
        BY <3>2 DEF SendZero
      <4>3. ~(Sent + 1 <= Len(cmd.tx))
        BY <1>1, <4>2, InCall DEF Sent
      <4>4. Sent' = Sent + 1
        BY <1>1, <4>2, InCall DEF Sent
      <4>. QED BY <1>1, <4>1, <4>2, <4>3, <4>4, InCall DEF Transfer!WireByte
    <3>. QED BY <1>3, <3>1, <3>2
  <2>6. CallTypes'
    BY <1>1, <2>3, <2>5 DEF CallTypes, slave
  <2>7. Got' = Got /\ replies' = replies
    BY <1>1 DEF Got, slave
  <2>8. Books'
    BY <1>1, <2>2, <2>3, <2>4, <2>5, <2>7 DEF Books, InLoop
  <2>9. Contents'
    BY <1>1, <2>2, <2>3, <2>5, <2>7 DEF Contents
  <2>. QED BY <2>6, <2>8, <2>9
<1>. QED BY <1>1, <1>2, <1>3 DEF Send, SendNothing

LEMMA WireReceive == ASSUME MaxCredits = 1, WireInv, Receive
                     PROVE  CallTypes' /\ Books' /\ Contents'
<1>1. /\ pc = "receive" /\ CallTypes /\ Books /\ Contents /\ CreditInv
      /\ UNCHANGED <<cmd, written, write_zeros, slave>>
  BY DEF Receive, WireInv
<1>2. CASE ~rrdy
  <2>1. pc' = "poll" /\ UNCHANGED <<master, read_ignore, read_data>>
    BY <1>2 DEF Receive
  <2>2. CallTypes' /\ Contents'
    BY <1>1, <2>1 DEF CallTypes, Contents, master, slave
  <2>3. Books'
    BY <1>1, <2>1 DEF Books, InLoop, Sent, Got, InFlight, master, slave
  <2>. QED BY <2>2, <2>3
<1>3. CASE rrdy
  <2>1. RRDY
    BY <1>1, <1>3 DEF CreditInv, Credit
  <2>2. InFlight = 1 /\ ~tx_holding_primed /\ ~transmitting
    BY <1>1, <2>1, OnItsWay
  <2>3. RRDY' = FALSE /\ UNCHANGED <<tx_holding_primed, transmitting, SSO>>
    BY <1>3 DEF Receive, SPI!ReadRx
  <2>4. InFlight' = 0
    BY <2>2, <2>3 DEF InFlight
  <2>5. /\ Sent = Got + 1 /\ Len(replies) = Got + 1 /\ Got \in Nat
        /\ written < Len(cmd.tx) => write_zeros = cmd.read_length
        /\ read_ignore > 0 => Len(read_data) = 0
        /\ rx_holding = replies[Len(replies)]
    BY <1>1, <2>1, <2>2, InCall DEF Books, Contents, InLoop, Got
  <2>6. rx_holding \in Replies
    BY <1>1, <2>5 DEF CallTypes
  <2>7. /\ read_ignore' \in 0 .. Len(cmd.tx) /\ read_data' \in Seq(Replies)
        /\ Got' = Got + 1 /\ (read_ignore' > 0 => Len(read_data') = 0)
        /\ \A i \in 1 .. Len(read_data') : read_data'[i] = replies[Len(cmd.tx) + i]
    <3>1. CASE read_ignore > 0
      <4>1. read_ignore' = read_ignore - 1 /\ read_data' = read_data
        BY <1>3, <3>1 DEF Receive
      <4>. QED BY <1>1, <2>5, <3>1, <4>1, InCall DEF Got
    <3>2. CASE ~(read_ignore > 0)
      <4>1. read_ignore' = read_ignore /\ read_data' = Append(read_data, rx_holding)
        BY <1>3, <3>2 DEF Receive
      <4>2. read_ignore = 0
        BY <1>1, <3>2, InCall
      <4>3. read_data' \in Seq(Replies) /\ Len(read_data') = Len(read_data) + 1
        BY <1>1, <2>6, <4>1, InCall
      <4>4. Got' = Got + 1
        <5>. DEFINE n == Len(cmd.tx)  k == Len(read_data)
        <5>1. n \in Nat /\ read_ignore \in Nat /\ k \in Nat
          BY <1>1, <4>2, InCall
        <5>2. Got = (n - read_ignore) + k /\ Got' = (n - read_ignore) + (k + 1)
          BY <1>1, <4>1, <4>3 DEF Got
        <5>. HIDE DEF n, k
        <5>. QED BY <5>1, <5>2
      <4>5. ASSUME NEW i \in 1 .. Len(read_data')
            PROVE  read_data'[i] = replies[Len(cmd.tx) + i]
        <5>1. CASE i = Len(read_data) + 1
          <6>. DEFINE n == Len(cmd.tx)  k == Len(read_data)
          <6>1. n \in Nat /\ k \in Nat /\ read_data \in Seq(Replies)
            BY <1>1, InCall
          <6>2. Len(replies) = ((n - 0) + k) + 1
            BY <2>5, <4>2 DEF Got
          <6>3. read_data'[i] = rx_holding
            BY <2>6, <4>1, <5>1, <6>1
          <6>4. n + i = Len(replies)
            <7>. HIDE DEF n, k
            <7>. QED BY <5>1, <6>1, <6>2 DEF k
          <6>. QED BY <2>5, <6>3, <6>4
        <5>2. CASE i # Len(read_data) + 1
          <6>1. Len(read_data) \in Nat /\ read_data \in Seq(Replies) /\ cmd # None
            BY <1>1, InCall
          <6>2. i \in 1 .. Len(read_data)
            BY <4>3, <5>2, <6>1
          <6>. QED BY <1>1, <2>6, <4>1, <6>1, <6>2 DEF Contents
        <5>. QED BY <5>1, <5>2
      <4>. QED BY <1>1, <4>1, <4>2, <4>3, <4>4, <4>5, InCall
    <3>. QED BY <3>1, <3>2
  <2>8. /\ pc' = IF Complete THEN "drain" ELSE "poll"
        /\ replies' = replies /\ cmd' = cmd
    BY <1>1, <1>3 DEF Receive, slave
  <2>9. CallTypes'
    BY <1>1, <2>3, <2>7, <2>8 DEF CallTypes
  <2>10. Books'
    <3>1. Sent' = Got' /\ Len(replies) = Got'
      BY <1>1, <2>5, <2>7, <2>8 DEF Sent
    <3>2. CASE Complete
      <4>1. pc' = "drain" /\ read_ignore' = 0 /\ Len(read_data') = cmd.read_length
        BY <2>8, <3>2 DEF Complete
      <4>2. Len(replies) = Transfer!Total(cmd) /\ Len(replies) > 0
        BY <1>1, <2>5, <2>7, <2>8, <3>1, <4>1, InCall DEF Got
      <4>. QED BY <1>1, <2>5, <2>7, <2>8, <4>1, <4>2 DEF Books, InLoop
    <3>3. CASE ~Complete
      <4>1. InLoop' /\ pc' = "poll"
        BY <2>8, <3>3 DEF InLoop
      <4>2. Sent' = Got' + InFlight' /\ Len(replies') = Got' + (IF RRDY' THEN 1 ELSE 0)
        BY <2>3, <2>4, <2>5, <2>7, <2>8, <3>1
      <4>. QED BY <1>1, <2>5, <2>7, <2>8, <4>1, <4>2 DEF Books
    <3>. QED BY <3>2, <3>3
  <2>11. Contents'
    BY <1>1, <2>2, <2>3, <2>7, <2>8 DEF Contents
  <2>. QED BY <2>9, <2>10, <2>11
<1>. QED BY <1>2, <1>3

LEMMA WireRelease == ASSUME MaxCredits = 1, WireInv, Release
                     PROVE  CallTypes' /\ Books' /\ Contents'
<1>1. /\ pc = "drain" /\ pc' = "idle" /\ cmd' = None /\ replies' = replies
      /\ CallTypes /\ SSO' \in BOOLEAN
      /\ UNCHANGED <<tx_holding_primed, transmitting, RRDY>>
  BY DEF Release, SPI!WriteControl, master, WireInv, CallTypes
<1>2. ~RRDY' /\ ~tx_holding_primed' /\ ~transmitting'
  BY <1>1, OnItsWay DEF WireInv, InLoop
<1>3. CallTypes'
  BY <1>1 DEF CallTypes
<1>4. Books' /\ Contents'
  BY <1>1, <1>2 DEF Books, Contents, InLoop
<1>. QED BY <1>3, <1>4

\* The master takes the byte over and the slave answers it.
LEMMA WireMaster == ASSUME MaxCredits = 1, WireInv, Load \/ Shift \/ Finish
                    PROVE  CallTypes' /\ Books' /\ Contents'
<1>1. /\ CallTypes /\ Books /\ Contents /\ CreditInv
      /\ UNCHANGED <<pc, local, SSO>>
  BY DEF Load, Shift, Finish, SPI!Load, SPI!Shift, SPI!Finish, WireInv
<1>2. CASE Load
  <2>1. /\ tx_holding_primed /\ shift_reg' = tx_holding /\ transmitting' = TRUE
        /\ tx_holding_primed' = FALSE /\ UNCHANGED <<rx_holding, RRDY, slave>>
    BY <1>2 DEF Load, SPI!Load, SPI!LoadPending
  <2>2. InFlight = 1 /\ ~transmitting /\ ~RRDY
    BY <1>1, <2>1, OnItsWay
  <2>3. InFlight' = 1
    BY <2>1, <2>2 DEF InFlight
  <2>4. CallTypes' /\ Contents'
    BY <1>1, <2>1, <2>2 DEF CallTypes, Contents, local, slave
  <2>5. Sent' = Sent /\ Got' = Got
    BY <1>1 DEF Sent, Got, local
  <2>6. Books'
    BY <1>1, <2>1, <2>2, <2>3, <2>5 DEF Books, InLoop, local, slave
  <2>. QED BY <2>4, <2>6
<1>3. CASE Shift
  <2>1. UNCHANGED <<tx_holding, tx_holding_primed, shift_reg, transmitting, rx_holding,
                    RRDY, slave>>
    BY <1>3 DEF Shift, SPI!Shift
  <2>2. CallTypes' /\ Contents'
    BY <1>1, <2>1 DEF CallTypes, Contents, local, slave
  <2>3. Books'
    BY <1>1, <2>1 DEF Books, InLoop, Sent, Got, InFlight, local, slave
  <2>. QED BY <2>2, <2>3
<1>4. CASE Finish
  <2>1. PICK reply \in Replies : /\ rx_holding' = reply /\ replies' = Append(replies, reply)
                                 /\ transmitting /\ transmitting' = FALSE /\ RRDY' = TRUE
                                 /\ UNCHANGED tx_holding_primed
    BY <1>4 DEF Finish, SPI!Finish
  <2>2. InLoop /\ InFlight = 1 /\ ~tx_holding_primed /\ ~RRDY
    BY <1>1, <2>1, OnItsWay
  <2>3. InFlight' = 1
    BY <2>1, <2>2 DEF InFlight
  <2>4. /\ replies' \in Seq(Replies) /\ Len(replies') = Len(replies) + 1
        /\ replies'[Len(replies')] = reply
        /\ \A i \in 1 .. Len(replies) : replies'[i] = replies[i]
    BY <1>1, <2>1 DEF CallTypes
  <2>5. CallTypes'
    BY <1>1, <2>4 DEF CallTypes, local
  <2>6. pc # "idle" /\ Sent' = Sent /\ Got' = Got
    BY <1>1, <2>2 DEF InLoop, Sent, Got, local
  <2>7. Sent = Got + 1 /\ Len(replies) = Got /\ Got \in Nat
    BY <1>1, <2>2, <2>6, InCall DEF Books, Got
  <2>8. Books'
    BY <1>1, <2>1, <2>2, <2>3, <2>4, <2>6, <2>7 DEF Books, InLoop, local
  <2>9. \A i \in 1 .. Len(read_data) : Len(cmd.tx) + i \in 1 .. Len(replies)
    <3>. SUFFICES ASSUME NEW i \in 1 .. Len(read_data)
                  PROVE  Len(cmd.tx) + i \in 1 .. Len(replies)
      OBVIOUS
    <3>1. read_ignore = 0
      BY <1>1, <2>6, InCall DEF Books
    <3>. QED BY <1>1, <2>6, <2>7, <3>1, InCall DEF Got
  <2>10. Contents'
    <3>1. UNCHANGED <<cmd, read_data>>
      BY <1>1 DEF local
    <3>2. \A i \in 1 .. Len(read_data) : read_data[i] = replies'[Len(cmd.tx) + i]
      BY <1>1, <2>4, <2>6, <2>9, InCall DEF Contents
    <3>. QED BY <1>1, <2>1, <2>2, <2>4, <2>6, <3>1, <3>2 DEF Contents
  <2>. QED BY <2>5, <2>8, <2>10
<1>. QED BY <1>2, <1>3, <1>4

LEMMA WireStep ==
  ASSUME MaxCredits = 1, WireInv, [Next]_vars
  PROVE  WireInv'
<1>1. CreditInv'
  BY CreditStep DEF WireInv
<1>2. CASE UNCHANGED vars
  <2>1. CallTypes' /\ Contents'
    BY <1>2 DEF WireInv, CallTypes, Contents, vars, master, local, slave
  <2>2. Books'
    BY <1>2 DEF WireInv, Books, InLoop, Sent, Got, InFlight, vars, master, local, slave
  <2>. QED BY <1>1, <2>1, <2>2 DEF WireInv
<1>3. CASE Next
  BY <1>1, <1>3, WireCall, WireControl, WirePoll, WireSend, WireReceive, WireRelease, WireMaster
     DEF Next, Driver, WireInv
<1>. QED BY <1>2, <1>3

LEMMA WireInvariant == ASSUME MaxCredits = 1 PROVE Spec => []WireInv
BY WireInit, WireStep, PTL DEF Spec

\* The driver's counters stay inside the command for all commands: it never takes
\* more bytes than it was given room for.
THEOREM TypeCorrect == ASSUME MaxCredits = 1 PROVE Spec => []TypeOK
<1>1. ASSUME WireInv PROVE cmd # None => Len(read_data) <= cmd.read_length
  <2>. SUFFICES ASSUME cmd # None PROVE Len(read_data) <= cmd.read_length
    OBVIOUS
  <2>1. CallTypes /\ Books /\ pc # "idle"
    BY <1>1 DEF WireInv, CallTypes
  <2>2. Len(read_data) = 0 \/ read_ignore = 0
    BY <2>1, InCall DEF Books
  <2>3. pc \in {"control", "discard", "drain"} \/ InLoop
    BY <1>1, <2>1 DEF WireInv, CreditInv, Places, InLoop
  <2>4. CASE InLoop /\ read_ignore = 0
    <3>1. Sent = Got + InFlight /\ InFlight \in Nat
      BY <2>1, <2>4 DEF Books, InFlight
    <3>. QED BY <2>1, <2>4, <3>1, InCall DEF Sent, Got
  <2>. QED BY <2>1, <2>2, <2>3, <2>4, InCall DEF Books
<1>2. WireInv => TypeOK
  BY <1>1 DEF WireInv, CreditInv, Places, CallTypes, TypeOK
<1>. QED BY <1>2, WireInvariant, PTL

\* Every reply is accounted for at the end of every pass of the loop.
THEOREM BooksBalance == ASSUME MaxCredits = 1 PROVE Spec => []BooksAgree
<1>1. WireInv => BooksAgree
  BY DEF WireInv, Books, InLoop, Sent, Got, BooksAgree
<1>. QED BY <1>1, WireInvariant, PTL
-----------------------------------------------------------------------------
(* The driver and the master do what SpiTransfer says.                      *)

\* The byte that the slave gets is the next one of the command.
LEMMA FinishExchanges ==
  ASSUME MaxCredits = 1, WireInv, Finish
  PROVE  Transfer!Exchange
<1>1. PICK reply \in Replies :
        /\ transmitting /\ replies' = Append(replies, reply) /\ UNCHANGED <<pc, local, SSO>>
        /\ IF SSO THEN frame' = Append(frame, shift_reg) /\ UNCHANGED closed
                  ELSE closed' = <<shift_reg>> /\ UNCHANGED frame
  BY DEF Finish, SPI!Finish
<1>2. InLoop /\ InFlight = 1 /\ ~RRDY /\ CallTypes /\ Books /\ Contents
  BY <1>1, OnItsWay DEF WireInv
<1>3. pc # "idle" /\ cmd # None /\ (cmd.toggle \/ SSO)
  BY <1>2 DEF InLoop, CallTypes, Contents
<1>4. Len(replies) < Transfer!Total(cmd)
  <2>1. Sent = Len(replies) + 1
    BY <1>2, <1>3, InCall DEF Books, Got
  <2>2. Sent <= Transfer!Total(cmd)
    BY <1>2, <1>3, InCall DEF Sent
  <2>. QED BY <1>2, <2>1, <2>2, <1>3, InCall DEF CallTypes
<1>5. shift_reg = Transfer!WireByte(cmd, Len(replies) + 1)
  BY <1>1, <1>2 DEF Contents
<1>6. UNCHANGED <<cmd, SSO, result>>
  BY <1>1 DEF local
<1>. QED BY <1>1, <1>3, <1>4, <1>5, <1>6 DEF Transfer!Exchange

\* What the call returns is what the slave answered to the bytes to be read.
LEMMA ReleaseReturns ==
  ASSUME MaxCredits = 1, WireInv, Release
  PROVE  Transfer!Return
<1>1. /\ pc = "drain" /\ cmd' = None /\ result' = read_data /\ replies' = replies
      /\ CallTypes /\ Books /\ Contents
  BY DEF Release, WireInv
<1>2. /\ cmd # None /\ Len(read_data) = cmd.read_length
      /\ Len(replies) = Transfer!Total(cmd) /\ Transfer!Total(cmd) > 0
  BY <1>1, InCall DEF Books
<1>3. result' = SubSeq(replies, Len(cmd.tx) + 1, Transfer!Total(cmd))
  <2>. DEFINE n == Len(cmd.tx)  k == cmd.read_length
              sub == SubSeq(replies, n + 1, Transfer!Total(cmd))
  <2>1. /\ n \in Nat /\ k \in Nat /\ Transfer!Total(cmd) = n + k /\ read_data \in Seq(Replies)
        /\ replies \in Seq(Replies)
    BY <1>1, InCall DEF CallTypes
  <2>2. n + 1 \in Int /\ n + k \in Int /\ Len(replies) = n + k
    BY <1>2, <2>1
  <2>3. \A i \in (n + 1) .. (n + k) : replies[i] \in Replies
    BY <2>1, <2>2
  <2>4. /\ sub \in Seq(Replies) /\ Len(sub) = IF n + 1 <= n + k THEN (n + k) - (n + 1) + 1 ELSE 0
        /\ \A i \in 1 .. (n + k) - (n + 1) + 1 : sub[i] = replies[(n + 1) + i - 1]
    <3>. HIDE DEF n, k
    <3>. QED BY <2>1, <2>2, <2>3, SubSeqProperties
  <2>5. Len(sub) = k /\ \A i \in 1 .. k : sub[i] = replies[n + i]
    <3>. HIDE DEF n, k, sub
    <3>. QED BY <2>1, <2>4
  <2>6. Len(read_data) = k /\ \A i \in 1 .. k : read_data[i] = replies[n + i]
    BY <1>1, <1>2 DEF Contents
  <2>7. read_data = sub
    <3>. HIDE DEF n, k, sub
    <3>. QED BY <2>1, <2>4, <2>5, <2>6, SeqEqual
  <2>. QED BY <1>1, <2>7
<1>4. IF SSO /\ ~cmd.merge THEN closed' = frame /\ frame' = <<>> /\ SSO' = FALSE
                           ELSE UNCHANGED <<SSO, frame, closed>>
  BY <1>1 DEF Release, SPI!WriteControl, master, CallTypes
<1>. QED BY <1>1, <1>2, <1>3, <1>4 DEF Transfer!Return

LEMMA TransferInit == Init => Transfer!Init
BY DEF Init, SPI!Init, Transfer!Init

\* Every step of the driver, the master or the slave is one of the transfer, or none.
LEMMA TransferStep ==
  ASSUME MaxCredits = 1, WireInv, [Next]_vars
  PROVE  [Transfer!Next]_Transfer!vars
<1>1. CASE Call
  <2>1. cmd = None
    BY <1>1 DEF Call, WireInv, CallTypes
  <2>. QED BY <1>1, <2>1 DEF Call, master, Transfer!Next, Transfer!Begin
<1>2. CASE Control
  <2>1. /\ cmd # None /\ cmd.toggle \in BOOLEAN /\ SSO \in BOOLEAN
        /\ UNCHANGED <<cmd, replies, frame, closed, result>>
    BY <1>2, InCall DEF Control, WireInv, CallTypes, local, slave
  <2>2. CASE cmd.toggle
    BY <1>2, <2>1, <2>2 DEF Control, master, Transfer!vars
  <2>3. CASE ~cmd.toggle
    <3>1. SSO' = TRUE
      BY <1>2, <2>3 DEF Control, SPI!WriteControl
    <3>. QED BY <2>1, <2>3, <3>1 DEF Transfer!vars, Transfer!Next, Transfer!Select
  <2>. QED BY <2>1, <2>2, <2>3
<1>3. CASE Discard \/ Poll \/ Send \/ Receive \/ Load \/ Shift
  <2>1. UNCHANGED <<cmd, result, replies, frame, closed>>
    BY <1>3 DEF Discard, Poll, Send, Receive, Load, Shift, local, slave
  <2>2. UNCHANGED SSO
    <3>1. CASE Discard
      BY <3>1 DEF Discard, SPI!ReadRx
    <3>2. CASE Poll
      BY <3>2 DEF Poll, master
    <3>3. CASE Send
      BY <3>3 DEF Send, SendByte, SendZero, SendNothing, SPI!WriteTx, master
    <3>4. CASE Receive
      BY <3>4 DEF Receive, SPI!ReadRx, master
    <3>5. CASE Load \/ Shift
      BY <3>5 DEF Load, Shift, SPI!Load, SPI!Shift
    <3>. QED BY <1>3, <3>1, <3>2, <3>3, <3>4, <3>5
  <2>. QED BY <2>1, <2>2 DEF Transfer!vars
<1>4. CASE Finish
  BY <1>4, FinishExchanges DEF Transfer!Next
<1>5. CASE Release
  BY <1>5, ReleaseReturns DEF Transfer!Next
<1>6. CASE UNCHANGED vars
  BY <1>6 DEF vars, local, master, slave, Transfer!vars
<1>. QED BY <1>1, <1>2, <1>3, <1>4, <1>5, <1>6 DEF Next, Driver

\* For all commands, replies and interleavings of driver and master, the bytes reach
\* the slave in order and exactly once, framed as asked, and the call returns exactly
\* the replies to the bytes to be read: the safety half of Transfers.
THEOREM TransferImplemented ==
  ASSUME MaxCredits = 1
  PROVE  Spec => Transfer!Init /\ [][Transfer!Next]_Transfer!vars
<1>1. WireInv /\ [Next]_vars => [Transfer!Next]_Transfer!vars
  BY TransferStep
<1>. QED BY <1>1, TransferInit, WireInvariant, PTL DEF Spec
=============================================================================
