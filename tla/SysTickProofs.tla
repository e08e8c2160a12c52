---------------------------- MODULE SysTickProofs ----------------------------
(***************************************************************************)
(* The list of alarms stays whole and no alarm rings early, for every set  *)
(* of alarms and every width of the tick counter.                          *)
(***************************************************************************)
EXTENDS SysTick, TLAPS

\* A ring of Head and S: closed both ways, and all of it reached from Head.
Closed(nx, Q) == \A n \in Q \cup {Head} : nx[n] \in Q \cup {Head}

Ring(nx, pv, S) ==
  /\ \A n \in S \cup {Head} : /\ nx[n] \in S \cup {Head} /\ pv[n] \in S \cup {Head}
                              /\ pv[nx[n]] = n /\ nx[pv[n]] = n
  /\ \A Q \in SUBSET S : Closed(nx, Q) => Q = S

Pointers == [Node -> Node \cup {Null}]

\* Putting an entry after Head, as Insert and Link do, keeps the ring.
LEMMA RingInsert ==
  ASSUME NEW nx \in Pointers, NEW pv \in Pointers, NEW S \in SUBSET Alarm,
         NEW a \in Alarm \ S, Ring(nx, pv, S), nx[a] = nx[Head], pv[a] = Head
  PROVE  Ring([nx EXCEPT ![Head] = a], [pv EXCEPT ![nx[Head]] = a], S \cup {a})
<1>. DEFINE nx2 == [nx EXCEPT ![Head] = a]
            pv2 == [pv EXCEPT ![nx[Head]] = a]
<1>0. Head \in Node /\ a \in Node /\ S \subseteq Node /\ a # Head /\ Head \notin S
  BY TickAssumption DEF Node
<1>1. /\ nx2 = [n \in Node |-> IF n = Head THEN a ELSE nx[n]]
      /\ pv2 = [n \in Node |-> IF n = nx[Head] THEN a ELSE pv[n]]
  BY DEF Pointers
<1>2. \A n \in S \cup {Head} : /\ nx[n] \in S \cup {Head} /\ pv[n] \in S \cup {Head}
                               /\ pv[nx[n]] = n /\ nx[pv[n]] = n
  BY DEF Ring
<1>3. ASSUME NEW n \in S \cup {a, Head}
      PROVE  /\ nx2[n] \in S \cup {a, Head} /\ pv2[n] \in S \cup {a, Head}
             /\ pv2[nx2[n]] = n /\ nx2[pv2[n]] = n
  BY <1>0, <1>1, <1>2, <1>3
<1>4. ASSUME NEW Q \in SUBSET (S \cup {a}), Closed(nx2, Q)
      PROVE  Q = S \cup {a}
  <2>1. a \in Q
    BY <1>0, <1>1, <1>4 DEF Closed
  <2>2. Closed(nx, Q \ {a})
    BY <1>0, <1>1, <1>2, <1>4, <2>1 DEF Closed
  <2>3. Q \ {a} = S
    BY <2>2 DEF Ring
  <2>. QED BY <2>1, <2>3
<1>. QED BY <1>3, <1>4 DEF Ring

\* Joining the neighbours of an entry takes it out of the ring, whatever its own
\* pointers become.
LEMMA RingRemove ==
  ASSUME NEW nx \in Pointers, NEW pv \in Pointers, NEW S \in SUBSET Alarm,
         NEW a \in S, Ring(nx, pv, S),
         NEW nx2 \in Pointers, NEW pv2 \in Pointers,
         \A n \in Node \ {a} : /\ nx2[n] = IF n = pv[a] THEN nx[a] ELSE nx[n]
                               /\ pv2[n] = IF n = nx[a] THEN pv[a] ELSE pv[n]
  PROVE  Ring(nx2, pv2, S \ {a}) /\ nx[a] # a
<1>0. Head \in Node /\ S \subseteq Node /\ a # Head /\ Head \notin S
  BY TickAssumption DEF Node
<1>1. \A n \in S \cup {Head} : /\ nx[n] \in S \cup {Head} /\ pv[n] \in S \cup {Head}
                               /\ pv[nx[n]] = n /\ nx[pv[n]] = n
  BY DEF Ring
<1>2. nx[a] # a /\ pv[a] # a
  <2>. SUFFICES ASSUME nx[a] = a \/ pv[a] = a PROVE FALSE
    OBVIOUS
  <2>1. Closed(nx, S \ {a})
    BY <1>0, <1>1 DEF Closed
  <2>. QED BY <2>1 DEF Ring
<1>3. ASSUME NEW n \in (S \ {a}) \cup {Head}
      PROVE  /\ nx2[n] \in (S \ {a}) \cup {Head} /\ pv2[n] \in (S \ {a}) \cup {Head}
             /\ pv2[nx2[n]] = n /\ nx2[pv2[n]] = n
  BY <1>0, <1>1, <1>2
<1>4. ASSUME NEW Q \in SUBSET (S \ {a}), Closed(nx2, Q)
      PROVE  Q = S \ {a}
  <2>1. pv[a] \in Q \cup {Head}
    <3>. SUFFICES ASSUME pv[a] \notin Q \cup {Head} PROVE FALSE
      OBVIOUS
    <3>1. Closed(nx, Q)
      BY <1>0, <1>1, <1>4 DEF Closed
    <3>. QED BY <3>1 DEF Ring
  <2>2. Closed(nx, Q \cup {a})
    BY <1>0, <1>1, <1>2, <1>4, <2>1 DEF Closed
  <2>3. Q \cup {a} = S
    BY <2>2 DEF Ring
  <2>. QED BY <2>3
<1>. QED BY <1>2, <1>3, <1>4 DEF Ring

\* The pointers of an entry outside the ring do not matter.
LEMMA RingKept ==
  ASSUME NEW nx, NEW pv, NEW nx2, NEW pv2, NEW S, Ring(nx, pv, S),
         \A n \in S \cup {Head} : nx2[n] = nx[n] /\ pv2[n] = pv[n]
  PROVE  Ring(nx2, pv2, S)
<1>1. \A Q \in SUBSET S : Closed(nx2, Q) => Closed(nx, Q)
  BY DEF Closed
<1>. QED BY <1>1 DEF Ring

-----------------------------------------------------------------------------
\* Where the program and the interrupt can be at the same time.
Control ==
  /\ isr # "off" => pc \in {"idle", "delay"}
  /\ pie <=> pc \in {"idle", "delay"}
  /\ isr = "walk" => alarm \in armed \cup {Head}
  /\ pc \in {"insert", "link"} => subject \in armed
  /\ pc \in {"unlink", "detach"} => subject \in Alarm \ armed

\* What the list is at each step of the program.
Lists ==
  /\ pc \in {"idle", "delay", "detach"} => Ring(next, previous, armed)
  /\ pc \in {"insert", "link"} => Ring(next, previous, armed \ {subject})
  /\ pc = "link" => next[subject] = next[Head] /\ previous[subject] = Head
  /\ pc = "unlink" => \/ Ring(next, previous, armed \cup {subject})
                      \/ /\ Ring(next, previous, armed)
                         /\ next[subject] = subject /\ previous[subject] = subject

\* An alarm that does not run was never started or is tied to itself.
Loose ==
  \A a \in Alarm \ armed :
    \/ pc \in {"unlink", "detach"} /\ a = subject
    \/ next[a] = Null
    \/ next[a] = a /\ previous[a] = a

ListInv == TypeOK /\ Control /\ Lists /\ Loose

\* A tick plus a number of ticks is a tick.
LEMMA LaterIsTick ==
  ASSUME NEW t \in Tick32, NEW n \in Tick32
  PROVE  /\ Later(t, n) \in Tick32
         /\ Later(t, n) = IF t + n < Modulus THEN t + n ELSE t + n - Modulus
<1>1. Modulus \in Nat \ {0} /\ t \in 0 .. Modulus - 1 /\ n \in 0 .. Modulus - 1
  BY TickAssumption DEF Tick32
<1>2. (t + n) % Modulus = IF t + n < Modulus THEN t + n ELSE t + n - Modulus
  BY <1>1
<1>. QED BY <1>1, <1>2 DEF Later, Tick32

\* Types are kept by every step.
LEMMA TypesKept == TypeOK /\ Control /\ [Next]_vars => TypeOK'
<1>. SUFFICES ASSUME TypeOK, Control, [Next]_vars PROVE TypeOK'
  OBVIOUS
<1>0. /\ Modulus \in Nat \ {0} /\ Head \in Node /\ Alarm \subseteq Node /\ Null \notin Node
      /\ 0 \in Tick32
  BY TickAssumption DEF Node, Tick32
<1>. USE DEF TypeOK
<1>1. CASE TimerInit \/ Timeout \/ WalkEnd \/ Leave
  <2>. USE DEF clockVars, listVars, alarmVars, isrVars, mainVars, history
  <2>1. CASE TimerInit
    BY <2>1 DEF TimerInit
  <2>2. CASE Timeout
    BY <2>2 DEF Timeout
  <2>3. CASE WalkEnd
    BY <2>3 DEF WalkEnd
  <2>4. CASE Leave
    BY <2>4 DEF Leave
  <2>. QED BY <1>1, <2>1, <2>2, <2>3, <2>4
<1>2. CASE Irq
  <2>1. _alt_nticks' \in Tick32
    <3>1. CASE Modulus = 1
      BY <1>0, <1>2, <3>1 DEF Irq, Later, Tick32
    <3>2. CASE Modulus > 1
      <4>1. 1 \in Tick32
        BY <1>0, <3>2 DEF Tick32
      <4>. QED BY <1>2, <4>1, LaterIsTick DEF Irq
    <3>. QED BY <1>0, <3>1, <3>2
  <2>2. due' \in [Alarm -> Int]
    BY <1>2 DEF Irq
  <2>. QED BY <1>0, <1>2, <2>1, <2>2 DEF Irq, listVars, alarmVars, mainVars
<1>3. CASE Pass
  BY <1>0, <1>3 DEF Pass, Cleared, clockVars, listVars, mainVars, history
<1>4. CASE CallbackStops
  <2>1. PICK r \in Intervals \cup {0} :
          LET t == Later(time[alarm], r)
          IN  /\ time' = [time EXCEPT ![alarm] = t]
              /\ rollover' = [rollover EXCEPT ![alarm] = IF r # 0 /\ t < _alt_nticks THEN 1 ELSE 0]
    BY <1>4 DEF CallbackStops
  <2>2. alarm \in Alarm
    BY <1>4 DEF CallbackStops
  <2>3. r \in Tick32
    BY <1>0, TickAssumption DEF Tick32
  <2>4. time' \in [Alarm -> Tick32] /\ rollover' \in [Alarm -> 0 .. 1]
    BY <2>1, <2>2, <2>3, LaterIsTick
  <2>5. next' \in [Node -> Node \cup {Null}] /\ previous' \in [Node -> Node \cup {Null}]
    BY <1>0, <1>4, <2>2 DEF CallbackStops, Removed
  <2>. QED
    BY <1>0, <1>4, <2>2, <2>4, <2>5 DEF CallbackStops, AfterCallback, clockVars, mainVars
<1>5. CASE CallbackRepeats
  <2>1. PICK r \in Intervals :
          LET t == Later(time[alarm], r)
          IN  /\ time' = [time EXCEPT ![alarm] = t]
              /\ rollover' = [rollover EXCEPT ![alarm] = IF t < _alt_nticks THEN 1 ELSE 0]
              /\ due' = [due EXCEPT ![alarm] = @ + r]
    BY <1>5 DEF CallbackRepeats
  <2>2. alarm \in Alarm
    BY <1>5 DEF CallbackRepeats
  <2>3. r \in Tick32
    BY TickAssumption DEF Tick32
  <2>4. time' \in [Alarm -> Tick32] /\ rollover' \in [Alarm -> 0 .. 1]
    BY <2>1, <2>2, <2>3, LaterIsTick
  <2>5. due' \in [Alarm -> Int]
    BY <2>1, <2>2, <2>3 DEF Tick32
  <2>. QED
    BY <1>0, <1>5, <2>2, <2>4, <2>5
    DEF CallbackRepeats, AfterCallback, clockVars, listVars, mainVars
<1>6. ASSUME NEW a \in Alarm, AlarmStart(a) PROVE TypeOK'
  <2>1. PICK n \in Waits :
          LET t == Later(_alt_nticks, n + 1)
          IN  /\ time' = [time EXCEPT ![a] = t]
              /\ rollover' = [rollover EXCEPT ![a] = IF t < _alt_nticks THEN 1 ELSE 0]
              /\ due' = [due EXCEPT ![a] = n + 1]
    BY <1>6 DEF AlarmStart
  <2>2. n + 1 \in Tick32 /\ n + 1 \in Int
    BY TickAssumption DEF Tick32
  <2>3. time' \in [Alarm -> Tick32] /\ rollover' \in [Alarm -> 0 .. 1] /\ due' \in [Alarm -> Int]
    BY <2>1, <2>2, LaterIsTick
  <2>. QED
    BY <1>6, <2>3 DEF AlarmStart, Main, Disable, clockVars, listVars, isrVars
<1>7. ASSUME NEW a \in Alarm, AlarmStop(a) PROVE TypeOK'
  BY <1>7 DEF AlarmStop, Main, Disable, clockVars, listVars, alarmVars, isrVars
<1>8. CASE Insert \/ Link
  <2>1. subject \in Alarm
    BY <1>8 DEF Insert, Link, Main, Control
  <2>2. next' \in [Node -> Node \cup {Null}] /\ previous' \in [Node -> Node \cup {Null}]
    BY <1>0, <1>8, <2>1 DEF Insert, Link
  <2>. QED
    BY <1>8, <2>2 DEF Insert, Link, Main, Enable, clockVars, alarmVars, isrVars, history
<1>9. CASE Unlink \/ Detach
  <2>1. subject \in Alarm
    BY <1>9 DEF Unlink, Detach, Main, Control
  <2>2. next' \in [Node -> Node \cup {Null}] /\ previous' \in [Node -> Node \cup {Null}]
    BY <1>0, <1>9, <2>1 DEF Unlink, Detach
  <2>. QED
    BY <1>9, <2>2 DEF Unlink, Detach, Main, Enable, clockVars, alarmVars, isrVars, history
<1>10. CASE FrameDelay \/ FrameDelayEnd
  BY <1>10 DEF FrameDelay, FrameDelayEnd, Main, clockVars, listVars, alarmVars, isrVars, history
<1>11. CASE UNCHANGED vars
  BY <1>11 DEF vars, clockVars, listVars, alarmVars, isrVars, mainVars, history
<1>. QED
  BY <1>1, <1>2, <1>3, <1>4, <1>5, <1>6, <1>7, <1>8, <1>9, <1>10, <1>11 DEF Next, Walk, Program

\* The steps of the interrupt, all but the end of an alarm, leave the list alone.
LEMMA IrqKeepsLists ==
  ListInv /\ (TimerInit \/ Timeout \/ Irq \/ Pass \/ CallbackRepeats \/ WalkEnd \/ Leave)
    => (Control /\ Lists /\ Loose)'
<1>. SUFFICES ASSUME ListInv, TimerInit \/ Timeout \/ Irq \/ Pass \/ CallbackRepeats \/ WalkEnd \/ Leave
              PROVE  (Control /\ Lists /\ Loose)'
  OBVIOUS
<1>1. UNCHANGED <<next, previous, armed, pc, subject, pie>>
  BY DEF TimerInit, Timeout, Irq, Pass, CallbackRepeats, WalkEnd, Leave, listVars, mainVars,
         history
<1>2. Lists' /\ Loose'
  BY <1>1 DEF ListInv, Lists, Loose
<1>3. isr # "off" => Ring(next, previous, armed)
  BY DEF ListInv, Lists, Control
<1>4. isr' # "off" => pc \in {"idle", "delay"}
  BY DEF ListInv, Control, TypeOK, TimerInit, Timeout, Irq, Pass, CallbackRepeats, WalkEnd,
         Leave, isrVars, Interruptible
<1>5. isr' = "walk" => alarm' \in armed \cup {Head}
  <2>1. CASE Irq
    <3>1. Ring(next, previous, armed)
      BY <2>1 DEF Irq, Interruptible, ListInv, Control, Lists, TypeOK
    <3>. QED BY <2>1, <3>1 DEF Irq, Ring
  <2>2. CASE Pass \/ CallbackRepeats
    BY <1>3, <2>2 DEF Pass, CallbackRepeats, AfterCallback, ListInv, Control, Ring
  <2>3. CASE TimerInit \/ Timeout \/ WalkEnd \/ Leave
    BY <2>3 DEF TimerInit, Timeout, WalkEnd, Leave, isrVars, ListInv, Control
  <2>. QED BY <2>1, <2>2, <2>3
<1>. QED BY <1>1, <1>2, <1>4, <1>5 DEF ListInv, Control

\* The end of an alarm takes it out of the list; the walk is already past it.
LEMMA StopKeepsLists == ListInv /\ TypeOK' /\ CallbackStops => (Control /\ Lists /\ Loose)'
<1>. SUFFICES ASSUME ListInv, TypeOK', CallbackStops PROVE (Control /\ Lists /\ Loose)'
  OBVIOUS
<1>0. /\ Head \in Node /\ Alarm \subseteq Node /\ Null \notin Node /\ Head \notin Alarm
      /\ next \in Pointers /\ previous \in Pointers /\ next' \in Pointers /\ previous' \in Pointers
      /\ armed \subseteq Alarm
  BY TickAssumption DEF Node, ListInv, TypeOK, Pointers
<1>1. alarm \in armed /\ isr = "walk" /\ pc \in {"idle", "delay"} /\ Ring(next, previous, armed)
  BY TickAssumption DEF ListInv, Control, Lists, CallbackStops
<1>2. /\ next[alarm] \in armed \cup {Head} /\ previous[alarm] \in armed \cup {Head}
  BY <1>1 DEF Ring
<1>3. \A n \in Node \ {alarm} :
        /\ next'[n] = IF n = previous[alarm] THEN next[alarm] ELSE next[n]
        /\ previous'[n] = IF n = next[alarm] THEN previous[alarm] ELSE previous[n]
  BY <1>0, <1>1, <1>2 DEF CallbackStops, Removed, Pointers
<1>3a. next'[alarm] = alarm /\ previous'[alarm] = alarm
  BY <1>0, <1>1 DEF CallbackStops, Removed, Pointers
<1>4. Ring(next', previous', armed \ {alarm}) /\ next[alarm] # alarm
  <2>1. armed \in SUBSET Alarm
    BY <1>0
  <2>. QED BY <1>0, <1>1, <1>3, <2>1, RingRemove
<1>5. /\ armed' = armed \ {alarm} /\ alarm' = next[alarm]
      /\ UNCHANGED <<isr, pc, pie, subject>>
  BY DEF CallbackStops, AfterCallback, mainVars
<1>6. Control'
  BY <1>1, <1>2, <1>4, <1>5 DEF ListInv, Control
<1>7. Lists'
  BY <1>1, <1>4, <1>5 DEF Lists
<1>8. Loose'
  <2>. SUFFICES ASSUME NEW a \in Alarm \ armed'
                PROVE  next'[a] = Null \/ (next'[a] = a /\ previous'[a] = a)
    BY DEF Loose
  <2>1. CASE a = alarm
    BY <1>3a, <2>1
  <2>2. CASE a # alarm
    <3>1. a \notin armed /\ (next[a] = Null \/ (next[a] = a /\ previous[a] = a))
      BY <1>1, <1>5, <2>2 DEF ListInv, Loose
    <3>2. next'[a] = next[a] /\ previous'[a] = previous[a]
      BY <1>0, <1>2, <1>3, <2>2, <3>1
    <3>. QED BY <3>1, <3>2
  <2>. QED BY <2>1, <2>2
<1>. QED BY <1>6, <1>7, <1>8

\* The program's steps: an alarm is put in or taken out with interrupts disabled.
LEMMA ProgramKeepsLists == ListInv /\ TypeOK' /\ Program => (Control /\ Lists /\ Loose)'
<1>. SUFFICES ASSUME ListInv, TypeOK', Program PROVE (Control /\ Lists /\ Loose)'
  OBVIOUS
<1>0. /\ Head \in Node /\ Alarm \subseteq Node /\ Null \notin Node /\ Head \notin Alarm
      /\ next \in Pointers /\ previous \in Pointers /\ next' \in Pointers /\ previous' \in Pointers
      /\ armed \subseteq Alarm
  BY TickAssumption DEF Node, ListInv, TypeOK, Pointers
<1>. USE DEF ListInv, Control, Lists, Loose, Main, isrVars
<1>1. ASSUME NEW a \in Alarm, AlarmStart(a) PROVE (Control /\ Lists /\ Loose)'
  <2>1. (armed \cup {a}) \ {a} = armed
    BY <1>1 DEF AlarmStart
  <2>2. /\ pc = "idle" /\ pc' = "insert" /\ isr = "off" /\ isr' = "off"
        /\ a \notin armed /\ armed' = armed \cup {a} /\ subject' = a
        /\ pie' = FALSE /\ UNCHANGED <<next, previous>>
    BY <1>1 DEF AlarmStart, Disable, listVars
  <2>3. Control'
    BY <2>2
  <2>4. Lists'
    BY <2>1, <2>2
  <2>5. Loose'
    BY <2>2
  <2>. QED BY <2>3, <2>4, <2>5
<1>2. ASSUME NEW a \in Alarm, AlarmStop(a) PROVE (Control /\ Lists /\ Loose)'
  <2>0. /\ pc = "idle" /\ pc' = "unlink" /\ isr = "off" /\ isr' = "off" /\ next[a] # Null
        /\ armed' = armed \ {a} /\ subject' = a
        /\ pie' = FALSE /\ UNCHANGED <<next, previous>>
    BY <1>2 DEF AlarmStop, Disable, listVars
  <2>01. Control'
    BY <2>0
  <2>1. CASE a \in armed
    <3>1. armed' \cup {a} = armed
      BY <2>0, <2>1
    <3>2. Lists'
      BY <2>0, <3>1
    <3>3. Loose'
      BY <2>0, <2>1
    <3>. QED BY <2>01, <3>2, <3>3
  <2>2. CASE a \notin armed
    <3>1. armed' = armed
      BY <2>0, <2>2
    <3>2. Lists'
      BY <2>0, <2>2, <3>1
    <3>3. Loose'
      BY <2>0, <2>2, <3>1
    <3>. QED BY <2>01, <3>2, <3>3
  <2>. QED BY <2>1, <2>2
<1>3. CASE Insert
  <2>1. /\ pc = "insert" /\ pc' = "link" /\ UNCHANGED <<armed, subject, pie, isr, alarm>>
        /\ subject \in armed
    BY <1>3 DEF Insert, history
  <2>2. /\ \A n \in Node \ {subject} : next'[n] = next[n] /\ previous'[n] = previous[n]
        /\ next'[subject] = next[Head] /\ previous'[subject] = Head
    BY <1>0, <1>3, <2>1 DEF Insert, Pointers
  <2>3. Ring(next', previous', armed \ {subject})
    BY <1>0, <2>1, <2>2, RingKept
  <2>. QED BY <1>0, <2>1, <2>2, <2>3
<1>4. CASE Link
  <2>1. /\ pc = "link" /\ pc' = "idle" /\ UNCHANGED <<armed, isr, alarm>> /\ pie' = TRUE
        /\ subject \in armed /\ isr = "off"
    BY <1>4 DEF Link, Enable, history
  <2>2. Ring(next, previous, armed \ {subject}) /\ next[Head] \in Node
    BY <1>0, <2>1 DEF Ring
  <2>3. /\ next' = [next EXCEPT ![Head] = subject]
        /\ previous' = [previous EXCEPT ![next[Head]] = subject]
    BY <1>4 DEF Link
  <2>4. Ring(next', previous', (armed \ {subject}) \cup {subject})
    BY <1>0, <2>1, <2>2, <2>3, RingInsert
  <2>5. (armed \ {subject}) \cup {subject} = armed
    BY <2>1
  <2>6. next[Head] \in armed \cup {Head}
    BY <2>2 DEF Ring
  <2>7. \A a \in Alarm \ armed : next'[a] = next[a] /\ previous'[a] = previous[a]
    BY <1>0, <2>3, <2>6 DEF Pointers
  <2>. QED BY <2>1, <2>4, <2>5, <2>7
<1>5. CASE Unlink
  <2>1. /\ pc = "unlink" /\ pc' = "detach" /\ UNCHANGED <<armed, subject, pie, isr, alarm>>
        /\ subject \in Alarm \ armed
    BY <1>5 DEF Unlink, history
  <2>2. /\ next' = [next EXCEPT ![previous[subject]] = next[subject]]
        /\ previous' = [previous EXCEPT ![next[subject]] = previous[subject]]
    BY <1>5 DEF Unlink
  <2>3. CASE Ring(next, previous, armed \cup {subject})
    <3>1. next[subject] \in armed \cup {subject, Head} /\ previous[subject] \in armed \cup {subject, Head}
      BY <2>3 DEF Ring
    <3>2. \A n \in Node \ {subject} :
            /\ next'[n] = IF n = previous[subject] THEN next[subject] ELSE next[n]
            /\ previous'[n] = IF n = next[subject] THEN previous[subject] ELSE previous[n]
      BY <1>0, <2>2, <3>1 DEF Pointers
    <3>3. Ring(next', previous', (armed \cup {subject}) \ {subject})
      BY <1>0, <2>1, <2>3, <3>2, RingRemove
    <3>4. (armed \cup {subject}) \ {subject} = armed
      BY <2>1
    <3>5. \A a \in Alarm \ armed : a # subject => next'[a] = next[a] /\ previous'[a] = previous[a]
      BY <1>0, <3>1, <3>2
    <3>. QED BY <2>1, <3>3, <3>4, <3>5
  <2>4. CASE Ring(next, previous, armed) /\ next[subject] = subject /\ previous[subject] = subject
    <3>1. \A n \in Node : next'[n] = next[n] /\ previous'[n] = previous[n]
      BY <1>0, <2>1, <2>2, <2>4 DEF Pointers
    <3>2. Ring(next', previous', armed)
      BY <1>0, <2>4, <3>1, RingKept
    <3>. QED BY <1>0, <2>1, <3>1, <3>2
  <2>. QED BY <2>1, <2>3, <2>4
<1>6. CASE Detach
  <2>1. /\ pc = "detach" /\ pc' = "idle" /\ UNCHANGED <<armed, isr, alarm>> /\ pie' = TRUE
        /\ subject \in Alarm \ armed /\ isr = "off"
    BY <1>6 DEF Detach, Enable, history
  <2>2. /\ \A n \in Node \ {subject} : next'[n] = next[n] /\ previous'[n] = previous[n]
        /\ next'[subject] = subject /\ previous'[subject] = subject
    BY <1>0, <1>6, <2>1 DEF Detach, Pointers
  <2>3. Ring(next', previous', armed)
    BY <1>0, <2>1, <2>2, RingKept
  <2>. QED BY <1>0, <2>1, <2>2, <2>3
<1>7. CASE FrameDelay \/ FrameDelayEnd
  BY <1>7 DEF FrameDelay, FrameDelayEnd, listVars, history
<1>. QED BY <1>1, <1>2, <1>3, <1>4, <1>5, <1>6, <1>7 DEF Program

\* The list and its types are invariant.
LEMMA ListInvariant == Spec => []ListInv
<1>1. Init => ListInv
  <2>. SUFFICES ASSUME Init PROVE ListInv
    OBVIOUS
  <2>1. TypeOK
    <3>1. 0 \in Tick32 /\ Head \in Node /\ Head \in Node \cup {Null}
      BY TickAssumption DEF Tick32, Node
    <3>2. /\ next \in [Node -> Node \cup {Null}] /\ previous \in [Node -> Node \cup {Null}]
      BY <3>1 DEF Init
    <3>3. time \in [Alarm -> Tick32] /\ rollover \in [Alarm -> 0 .. 1] /\ due \in [Alarm -> Int]
      BY <3>1 DEF Init
    <3>4. sysclk \in BOOLEAN /\ pie \in BOOLEAN
      BY DEF Init
    <3>5. /\ timeout_occurred \in 0 .. 1 /\ _alt_nticks \in Tick32 /\ start_time \in Tick32
          /\ isr = "off" /\ alarm = Head /\ pc = "idle" /\ subject = Null
          /\ armed = {} /\ ran = Null
      BY <3>1 DEF Init
    <3>. QED BY <3>1, <3>2, <3>3, <3>4, <3>5 DEF TypeOK
  <2>2. Ring(next, previous, armed)
    BY TickAssumption DEF Init, Ring, Node, Closed
  <2>. QED BY <2>1, <2>2, TickAssumption DEF Init, ListInv, Control, Lists, Loose, Node
<1>2. ListInv /\ [Next]_vars => ListInv'
  <2>. SUFFICES ASSUME ListInv, [Next]_vars PROVE ListInv'
    OBVIOUS
  <2>1. TypeOK'
    BY TypesKept DEF ListInv
  <2>2. CASE UNCHANGED vars
    BY <2>1, <2>2 DEF vars, listVars, isrVars, mainVars, history, ListInv, Control, Lists, Loose
  <2>3. CASE Next
    BY <2>1, <2>3, IrqKeepsLists, StopKeepsLists, ProgramKeepsLists DEF Next, Walk, ListInv
  <2>. QED BY <2>2, <2>3
<1>. QED BY <1>1, <1>2, PTL DEF Spec

\* Every variable keeps to its range.
THEOREM TypeCorrect == Spec => []TypeOK
BY ListInvariant, PTL DEF ListInv

\* The list an interrupt can see is whole.
THEOREM WholeList == Spec => []ListWhole
<1>1. ListInv => ListWhole
  <2>. SUFFICES ASSUME ListInv, Interruptible
                PROVE  /\ \A n \in armed \cup {Head} : /\ next[n] \in armed \cup {Head}
                                                      /\ previous[next[n]] = n
                       /\ \A S \in SUBSET armed :
                            (\A n \in S \cup {Head} : next[n] \in S \cup {Head}) => S = armed
    BY DEF ListWhole
  <2>1. Ring(next, previous, armed)
    BY DEF ListInv, Control, Lists, Interruptible, TypeOK
  <2>. QED BY <2>1 DEF Ring, Closed
<1>. QED BY <1>1, ListInvariant, PTL
-----------------------------------------------------------------------------
\* What the two fields of an alarm that runs say of the ticks still to go: their
\* number modulo Modulus, and, while there are any, the number itself.
Congruent(a) == \E k \in Int : due[a] = time[a] - _alt_nticks + k * Modulus

Exact(a) ==
  due[a] > 0 => \/ due[a] = time[a] - _alt_nticks
                \/ /\ rollover[a] = 1 /\ _alt_nticks > 0
                   /\ due[a] = time[a] - _alt_nticks + Modulus

TimeInv == \A a \in armed : Congruent(a) /\ Exact(a)

\* Numbers less than a modulus apart that agree modulo it are equal.
LEMMA Near ==
  ASSUME NEW M \in Nat \ {0}, NEW x \in Int, NEW y \in Int, NEW k \in Int,
         x = y + k * M, -M < x, x <= 0, -M < y, y <= 0
  PROVE  x = y
<1>1. k < 1
  <2>. SUFFICES ASSUME k >= 1 PROVE FALSE
    OBVIOUS
  <2>1. (k - 1) * M >= 0
    OBVIOUS
  <2>. QED BY <2>1
<1>2. k > -1
  <2>. SUFFICES ASSUME k <= -1 PROVE FALSE
    OBVIOUS
  <2>1. (-1 - k) * M >= 0
    OBVIOUS
  <2>. QED BY <2>1
<1>3. k = 0
  BY <1>1, <1>2
<1>. QED BY <1>3

\* An alarm that the walk finds expired is due.
LEMMA ExpiredIsDue ==
  ASSUME TypeOK, TimeInv, NEW a \in armed, Expired(a) PROVE due[a] <= 0
BY DEF TypeOK, TimeInv, Exact, Expired, Waits4Wrap, Tick32

\* The tick: one less to go.
LEMMA TickKeepsTime == TypeOK /\ TimeInv /\ Irq => TimeInv'
<1>. SUFFICES ASSUME TypeOK, TimeInv, Irq, NEW a \in armed
              PROVE  Congruent(a)' /\ Exact(a)'
  BY DEF TimeInv, Irq
<1>0. /\ Modulus \in Nat \ {0} /\ _alt_nticks \in 0 .. Modulus - 1 /\ due[a] \in Int
      /\ time[a] \in 0 .. Modulus - 1 /\ a \in Alarm
  BY TickAssumption DEF TypeOK, Tick32
<1>1. time'[a] = time[a] /\ rollover'[a] = rollover[a] /\ due'[a] = due[a] - 1
  BY <1>0 DEF Irq, alarmVars, TypeOK
<1>2. PICK k \in Int : due[a] = time[a] - _alt_nticks + k * Modulus
  BY DEF TimeInv, Congruent
<1>3. CASE _alt_nticks < Modulus - 1
  <2>1. _alt_nticks' = _alt_nticks + 1
    <3>1. 1 \in Tick32 /\ _alt_nticks \in Tick32
      BY <1>0, <1>3 DEF Tick32
    <3>. QED BY <1>0, <1>3, <3>1, LaterIsTick DEF Irq
  <2>2. Congruent(a)'
    BY <1>0, <1>1, <1>2, <2>1 DEF Congruent
  <2>3. Exact(a)'
    BY <1>0, <1>1, <2>1 DEF TimeInv, Exact
  <2>. QED BY <2>2, <2>3
<1>4. CASE _alt_nticks = Modulus - 1
  <2>1. _alt_nticks' = 0
    BY <1>0, <1>4 DEF Irq, Later
  <2>2. due'[a] = time'[a] - _alt_nticks' + (k - 1) * Modulus
    BY <1>0, <1>1, <1>2, <1>4, <2>1
  <2>3. Congruent(a)'
    BY <2>2 DEF Congruent
  <2>4. Exact(a)'
    BY <1>0, <1>1, <1>4, <2>1 DEF TimeInv, Exact
  <2>. QED BY <2>3, <2>4
<1>. QED BY <1>0, <1>3, <1>4

\* A callback's answer, counted from the time the alarm was due.
LEMMA RepeatKeepsTime == TypeOK /\ Control /\ TimeInv /\ CallbackRepeats => TimeInv'
<1>. SUFFICES ASSUME TypeOK, Control, TimeInv, CallbackRepeats PROVE TimeInv'
  OBVIOUS
<1>0. PICK a \in Alarm : a = alarm
  BY DEF CallbackRepeats
<1>1. PICK r \in Intervals :
        LET t == Later(time[a], r)
        IN  /\ time' = [time EXCEPT ![a] = t]
            /\ rollover' = [rollover EXCEPT ![a] = IF t < _alt_nticks THEN 1 ELSE 0]
            /\ due' = [due EXCEPT ![a] = @ + r]
  BY <1>0 DEF CallbackRepeats
<1>2. a \in armed /\ Expired(a) /\ armed' = armed /\ _alt_nticks' = _alt_nticks
  BY <1>0, TickAssumption DEF CallbackRepeats, Control, history, clockVars
<1>3. /\ Modulus \in Nat \ {0} /\ _alt_nticks \in 0 .. Modulus - 1 /\ due[a] \in Int
      /\ time[a] \in 0 .. Modulus - 1 /\ a \in Alarm /\ r \in 1 .. Modulus - 1
  BY <1>2, TickAssumption DEF TypeOK, Tick32
<1>4. due[a] <= 0 /\ time[a] <= _alt_nticks
  BY <1>2, ExpiredIsDue DEF Expired
<1>5. PICK k \in Int : due[a] = time[a] - _alt_nticks + k * Modulus
  BY <1>2 DEF TimeInv, Congruent
<1>6. /\ due'[a] = due[a] + r /\ time'[a] = Later(time[a], r)
      /\ rollover'[a] = IF time'[a] < _alt_nticks THEN 1 ELSE 0
  BY <1>1, <1>3 DEF TypeOK
<1>7. time'[a] = IF time[a] + r < Modulus THEN time[a] + r
                     ELSE time[a] + r - Modulus
  <2>1. time[a] \in Tick32 /\ r \in Tick32
    BY <1>3 DEF Tick32
  <2>. QED BY <1>6, <2>1, LaterIsTick
<1>8. Congruent(a)'
  <2>1. CASE time[a] + r < Modulus
    BY <1>2, <1>3, <1>5, <1>6, <1>7, <2>1 DEF Congruent
  <2>2. CASE time[a] + r >= Modulus
    <3>1. due'[a] = time'[a] - _alt_nticks' + (k + 1) * Modulus
      BY <1>2, <1>3, <1>5, <1>6, <1>7, <2>2
    <3>. QED BY <3>1 DEF Congruent
  <2>. QED BY <1>3, <2>1, <2>2
<1>9. Exact(a)'
  <2>. SUFFICES ASSUME due'[a] > 0
                PROVE  \/ due'[a] = time'[a] - _alt_nticks
                       \/ /\ rollover'[a] = 1 /\ _alt_nticks > 0
                          /\ due'[a] = time'[a] - _alt_nticks + Modulus
    BY <1>2 DEF Exact
  <2>1. due[a] = time[a] - _alt_nticks
    <3>1. -Modulus < due[a] /\ -Modulus < time[a] - _alt_nticks
      BY <1>3, <1>6
    <3>. QED BY <1>3, <1>4, <1>5, <3>1, Near
  <2>. QED BY <1>3, <1>4, <1>6, <1>7, <2>1
<1>10. \A b \in armed : b # a => Congruent(b)' /\ Exact(b)'
  <2>. TAKE b \in armed
  <2>. HAVE b # a
  <2>1. due'[b] = due[b] /\ time'[b] = time[b] /\ rollover'[b] = rollover[b]
    BY <1>1 DEF TypeOK
  <2>. QED BY <1>2, <2>1 DEF TimeInv, Congruent, Exact
<1>. QED BY <1>2, <1>8, <1>9, <1>10 DEF TimeInv

\* alt_alarm_start: one tick more than asked for.
LEMMA StartKeepsTime ==
  ASSUME TypeOK, TimeInv, NEW a \in Alarm, AlarmStart(a) PROVE TimeInv'
<1>1. PICK n \in Waits :
        LET t == Later(_alt_nticks, n + 1)
        IN  /\ time' = [time EXCEPT ![a] = t]
            /\ rollover' = [rollover EXCEPT ![a] = IF t < _alt_nticks THEN 1 ELSE 0]
            /\ due' = [due EXCEPT ![a] = n + 1]
  BY DEF AlarmStart
<1>2. a \notin armed /\ armed' = armed \cup {a} /\ _alt_nticks' = _alt_nticks
  BY DEF AlarmStart, Main, clockVars
<1>3. Modulus \in Nat \ {0} /\ _alt_nticks \in 0 .. Modulus - 1 /\ n + 1 \in 1 .. Modulus - 1
  BY TickAssumption DEF TypeOK, Tick32
<1>4. /\ due'[a] = n + 1 /\ time'[a] = Later(_alt_nticks, n + 1)
      /\ rollover'[a] = IF time'[a] < _alt_nticks THEN 1 ELSE 0
  BY <1>1 DEF TypeOK
<1>5. time'[a] = IF _alt_nticks + (n + 1) < Modulus THEN _alt_nticks + (n + 1)
                 ELSE _alt_nticks + (n + 1) - Modulus
  <2>1. _alt_nticks \in Tick32 /\ n + 1 \in Tick32
    BY <1>3 DEF Tick32
  <2>. QED BY <1>4, <2>1, LaterIsTick
<1>6. Exact(a)'
  BY <1>2, <1>3, <1>4, <1>5 DEF Exact
<1>7. Congruent(a)'
  <2>1. \/ due'[a] = time'[a] - _alt_nticks' + 0 * Modulus
        \/ due'[a] = time'[a] - _alt_nticks' + 1 * Modulus
    BY <1>2, <1>3, <1>4, <1>5
  <2>. QED BY <2>1 DEF Congruent
<1>8. \A b \in armed : Congruent(b)' /\ Exact(b)'
  <2>. TAKE b \in armed
  <2>1. due'[b] = due[b] /\ time'[b] = time[b] /\ rollover'[b] = rollover[b]
    BY <1>1, <1>2 DEF TypeOK
  <2>. QED BY <1>2, <2>1 DEF TimeInv, Congruent, Exact
<1>. QED BY <1>2, <1>6, <1>7, <1>8 DEF TimeInv

\* Every other step.
LEMMA TimeKept == ListInv /\ TimeInv /\ [Next]_vars => TimeInv'
<1>. SUFFICES ASSUME ListInv, TimeInv, [Next]_vars PROVE TimeInv'
  OBVIOUS
<1>. USE DEF ListInv
<1>1. CASE Irq
  BY <1>1, TickKeepsTime
<1>2. CASE CallbackRepeats
  BY <1>2, RepeatKeepsTime
<1>3. ASSUME NEW a \in Alarm, AlarmStart(a) PROVE TimeInv'
  BY <1>3, StartKeepsTime
<1>4. CASE Pass
  <2>1. /\ UNCHANGED <<armed, due, time, _alt_nticks>>
        /\ rollover' = [rollover EXCEPT ![alarm] = IF Waits4Wrap(alarm) THEN 1 ELSE 0]
        /\ alarm \in armed /\ rollover \in [Alarm -> 0 .. 1] /\ armed \subseteq Alarm
    BY <1>4, TickAssumption DEF Pass, Cleared, history, clockVars, Control, TypeOK
  <2>2. ASSUME NEW a \in armed PROVE Congruent(a)' /\ Exact(a)'
    <3>1. rollover'[a] = rollover[a] \/ _alt_nticks = 0 \/ rollover[a] = 0
      BY <2>1 DEF Waits4Wrap
    <3>2. _alt_nticks \in Nat
      BY TickAssumption DEF TypeOK, Tick32
    <3>. QED BY <2>1, <3>1, <3>2 DEF TimeInv, Congruent, Exact
  <2>. QED BY <2>1, <2>2 DEF TimeInv
<1>5. CASE CallbackStops
  <2>1. /\ armed' = armed \ {alarm} /\ UNCHANGED <<due, _alt_nticks>>
    BY <1>5 DEF CallbackStops, clockVars
  <2>2. \A a \in armed' : time'[a] = time[a] /\ rollover'[a] = rollover[a]
    BY <1>5, <2>1 DEF CallbackStops, TypeOK
  <2>. QED BY <2>1, <2>2 DEF TimeInv, Congruent, Exact
<1>6. ASSUME NEW a \in Alarm, AlarmStop(a) PROVE TimeInv'
  BY <1>6 DEF AlarmStop, Main, clockVars, alarmVars, TimeInv, Congruent, Exact
<1>7. CASE TimerInit \/ Timeout \/ WalkEnd \/ Leave \/ UNCHANGED vars
  BY <1>7 DEF TimerInit, Timeout, WalkEnd, Leave, vars, clockVars, alarmVars, history,
              TimeInv, Congruent, Exact
<1>8. CASE Insert \/ Link \/ Unlink \/ Detach \/ FrameDelay \/ FrameDelayEnd
  BY <1>8 DEF Insert, Link, Unlink, Detach, FrameDelay, FrameDelayEnd, Main, clockVars,
              alarmVars, history, TimeInv, Congruent, Exact
<1>. QED
  BY <1>1, <1>2, <1>3, <1>4, <1>5, <1>6, <1>7, <1>8 DEF Next, Walk, Program

\* No callback runs before its time.
THEOREM Punctual == Spec => NeverEarly
<1>1. Init => TimeInv
  BY DEF Init, TimeInv
<1>2. ListInv /\ TimeInv /\ [Next]_vars => [ran' # Null => due[ran'] <= 0]_vars
  <2>. SUFFICES ASSUME ListInv, TimeInv, Next, ran' # Null PROVE due[ran'] <= 0
    OBVIOUS
  <2>1. ran' = alarm /\ alarm \in Alarm /\ isr = "walk" /\ Expired(alarm)
    BY DEF Next, Walk, Program, TimerInit, Timeout, Irq, Pass, CallbackStops, CallbackRepeats,
           WalkEnd, Leave, AlarmStart, AlarmStop, Insert, Link, Unlink, Detach, FrameDelay,
           FrameDelayEnd, Main
  <2>2. alarm \in armed
    BY <2>1, TickAssumption DEF ListInv, Control
  <2>. QED BY <2>1, <2>2, ExpiredIsDue DEF ListInv
<1>. QED BY <1>1, <1>2, TimeKept, ListInvariant, PTL DEF Spec, NeverEarly
-----------------------------------------------------------------------------
(* The alarms are on time: SysTick implements AlarmClock.                   *)

\* An alarm that the walk of this tick has passed, or set again ...
Ahead(a) == due[a] > 0 /\ (rollover[a] = 1 => time[a] < _alt_nticks)

\* ... and one that it may still find due, with a flag that the wrap has overtaken.
NotMissed(a) ==
  due[a] >= 0 /\ (rollover[a] = 1 => time[a] < _alt_nticks \/ _alt_nticks = 0)

\* Between two walks no alarm is due; the walk has left behind a piece of the list
\* that begins at Head and ends where it stands.
OnTime ==
  /\ \A a \in armed : NotMissed(a)
  /\ isr # "walk" => \A a \in armed : Ahead(a)
  /\ isr = "walk" => \E V \in SUBSET armed :
                       /\ \A a \in V : Ahead(a)
                       /\ \A n \in V \cup {Head} : next[n] \in V \cup {alarm}

\* What the invariants say of an alarm that runs.
LEMMA Running ==
  ASSUME TypeOK, NEW a \in armed
  PROVE  /\ a \in Alarm /\ a # Head /\ a # Null /\ a \in Node
         /\ due[a] \in Int /\ time[a] \in Nat /\ time[a] < Modulus
         /\ rollover[a] \in {0, 1} /\ _alt_nticks \in Nat /\ _alt_nticks < Modulus
         /\ Modulus \in Nat \ {0}
BY TickAssumption DEF TypeOK, Tick32, Node

\* The walk does not take an alarm that is due for one whose counter has yet to wrap.
LEMMA DueIsExpired ==
  ASSUME TypeOK, TimeInv, NEW a \in armed, NotMissed(a), due[a] = 0
  PROVE  Expired(a)
<1>1. PICK k \in Int : 0 = time[a] - _alt_nticks + k * Modulus
  BY DEF TimeInv, Congruent
<1>2. time[a] = _alt_nticks
  <2>1. CASE time[a] <= _alt_nticks
    <3>. DEFINE y == time[a] - _alt_nticks
    <3>1. y \in Int /\ -Modulus < y /\ y <= 0 /\ -Modulus < 0 /\ Modulus \in Nat \ {0}
      BY <2>1, Running
    <3>2. 0 = y + k * Modulus
      BY <1>1
    <3>3. 0 = y
      <4>. HIDE DEF y
      <4>. QED BY <3>1, <3>2, Near
    <3>. QED BY <3>3, Running
  <2>2. CASE time[a] > _alt_nticks
    <3>. DEFINE y == time[a] - _alt_nticks - Modulus
    <3>1. y \in Int /\ -Modulus < y /\ y < 0 /\ -Modulus < 0 /\ Modulus \in Nat \ {0}
      BY <2>2, Running
    <3>2. 0 = y + (k + 1) * Modulus
      BY <1>1, Running
    <3>3. 0 = y
      <4>. HIDE DEF y
      <4>. QED BY <3>1, <3>2, Near
    <3>. QED BY <3>1, <3>3
  <2>. QED BY <2>1, <2>2, Running
<1>. QED BY <1>2, Running DEF NotMissed, Expired, Waits4Wrap

\* The ring that the walk follows.
LEMMA WalkOnRing ==
  ASSUME ListInv, isr = "walk"
  PROVE  Ring(next, previous, armed) /\ alarm \in armed \cup {Head}
BY DEF ListInv, Control, Lists

\* A tick: no alarm is due, and the walk has passed none.
LEMMA IrqOnTime == ASSUME ListInv, OnTime, Irq PROVE OnTime' /\ Clock!Tick
<1>1. /\ \A a \in armed : Ahead(a)
      /\ isr' = "walk" /\ alarm' = next[Head] /\ armed' = armed
      /\ UNCHANGED <<next, time, rollover>> /\ _alt_nticks' = Later(_alt_nticks, 1)
      /\ due' = [a \in Alarm |-> IF a \in armed THEN due[a] - 1 ELSE due[a]]
  BY DEF OnTime, Irq, Interruptible, listVars, alarmVars
<1>2. \A a \in armed : NotMissed(a)'
  <2>. SUFFICES ASSUME NEW a \in armed PROVE NotMissed(a)'
    OBVIOUS
  <2>1. due'[a] = due[a] - 1 /\ due[a] > 0 /\ (rollover[a] = 1 => time[a] < _alt_nticks)
    BY <1>1, Running DEF ListInv, Ahead
  <2>2. _alt_nticks' = _alt_nticks + 1 \/ _alt_nticks' = 0
    <3>1. _alt_nticks \in 0 .. Modulus - 1 /\ Modulus \in Nat \ {0}
      BY Running DEF ListInv
    <3>. QED BY <1>1, <3>1 DEF Later
  <2>. QED BY <1>1, <2>1, <2>2, Running DEF ListInv, NotMissed
<1>3. \A n \in {} \cup {Head} : next'[n] \in {} \cup {alarm'}
  BY <1>1
<1>4. OnTime'
  BY <1>1, <1>2, <1>3 DEF OnTime
<1>5. Clock!Tick
  BY <1>1 DEF Clock!Tick, Ahead
<1>. QED BY <1>4, <1>5

\* The walk leaves behind an alarm that is not due, or no longer.
LEMMA StepOnTime ==
  ASSUME TypeOK', OnTime, isr = "walk", isr' = "walk", NEW a \in armed, a = alarm,
         UNCHANGED <<next, armed>>, alarm' = next[a], Ahead(a)',
         \A b \in armed : b # a => (NotMissed(b)' /\ (Ahead(b) => Ahead(b)'))
  PROVE  OnTime'
<1>1. NotMissed(a)'
  <2>1. due'[a] \in Int
    BY DEF TypeOK
  <2>. QED BY <2>1 DEF Ahead, NotMissed
<1>2. PICK V \in SUBSET armed : /\ \A b \in V : Ahead(b)
                                /\ \A n \in V \cup {Head} : next[n] \in V \cup {a}
  BY DEF OnTime
<1>3. ASSUME NEW b \in V \cup {a} PROVE Ahead(b)'
  <2>1. CASE b = a
    BY <2>1
  <2>2. CASE b # a
    BY <1>2, <2>2
  <2>. QED BY <2>1, <2>2
<1>4. \A n \in (V \cup {a}) \cup {Head} : next[n] \in (V \cup {a}) \cup {next[a]}
  BY <1>2
<1>5. \A b \in armed' : NotMissed(b)'
  BY <1>1 DEF OnTime
<1>6. /\ V \cup {a} \in SUBSET armed'
      /\ \A n \in (V \cup {a}) \cup {Head} : next'[n] \in (V \cup {a}) \cup {alarm'}
  BY <1>4
<1>. QED BY <1>3, <1>5, <1>6 DEF OnTime

\* An alarm that is not due.
LEMMA PassOnTime == ASSUME ListInv, TimeInv, OnTime, TypeOK', Pass PROVE OnTime'
<1>1. /\ isr = "walk" /\ alarm \in Alarm /\ ~Expired(alarm)
      /\ UNCHANGED <<next, previous, time, isr, armed, due, _alt_nticks>>
      /\ rollover' = [rollover EXCEPT ![alarm] = IF Waits4Wrap(alarm) THEN 1 ELSE 0]
      /\ alarm' = next[alarm] /\ TypeOK
  BY DEF Pass, Cleared, listVars, clockVars, history, ListInv
<1>2. PICK a \in armed : a = alarm
  BY <1>1, WalkOnRing, TickAssumption DEF Ring
<1>3. NotMissed(a)
  BY <1>2 DEF OnTime
<1>4. due[a] > 0
  BY <1>1, <1>2, <1>3, DueIsExpired, Running DEF NotMissed
<1>5. rollover'[a] = (IF Waits4Wrap(a) THEN 1 ELSE 0)
      /\ \A b \in armed \ {a} : rollover'[b] = rollover[b]
  BY <1>1, <1>2 DEF TypeOK
<1>6. Ahead(a)'
  <2>1. rollover'[a] = 1 => time[a] < _alt_nticks
    BY <1>3, <1>5 DEF Waits4Wrap, NotMissed
  <2>. QED BY <1>1, <1>4, <2>1 DEF Ahead
<1>7. \A b \in armed : b # a => (NotMissed(b)' /\ (Ahead(b) => Ahead(b)'))
  BY <1>1, <1>5 DEF OnTime, NotMissed, Ahead
<1>. QED BY <1>1, <1>2, <1>6, <1>7, StepOnTime

\* An alarm that runs its callback and goes on: it runs at its very tick.
LEMMA RepeatOnTime == ASSUME ListInv, TimeInv, OnTime, TypeOK', CallbackRepeats
                      PROVE  OnTime' /\ \E a \in Alarm : Clock!Fire(a)
<1>0. PICK a \in Alarm : a = alarm /\ isr = "walk" /\ Expired(a)
  BY DEF CallbackRepeats
<1>1. PICK r \in Intervals :
        LET t == Later(time[a], r)
        IN  /\ time' = [time EXCEPT ![a] = t]
            /\ rollover' = [rollover EXCEPT ![a] = IF t < _alt_nticks THEN 1 ELSE 0]
            /\ due' = [due EXCEPT ![a] = @ + r]
  BY <1>0 DEF CallbackRepeats
<1>2. a \in armed /\ UNCHANGED <<next, armed, isr, _alt_nticks>> /\ alarm' = next[a]
  BY <1>0, WalkOnRing, TickAssumption
     DEF CallbackRepeats, AfterCallback, listVars, history, clockVars
<1>3. TypeOK /\ due[a] = 0 /\ r > 0 /\ r \in Int
  <2>1. due[a] <= 0
    BY <1>0, <1>2, ExpiredIsDue DEF ListInv
  <2>2. due[a] >= 0
    BY <1>2 DEF OnTime, NotMissed
  <2>. QED BY <1>2, <2>1, <2>2, TickAssumption, Running DEF ListInv
<1>4. due' = [due EXCEPT ![a] = r]
  BY <1>1, <1>3 DEF TypeOK
<1>5. Ahead(a)'
  <2>1. /\ due'[a] = r /\ time'[a] = Later(time[a], r)
        /\ rollover'[a] = IF Later(time[a], r) < _alt_nticks THEN 1 ELSE 0
    BY <1>1, <1>3, <1>4 DEF TypeOK
  <2>. QED BY <1>2, <1>3, <2>1 DEF Ahead
<1>6. \A b \in armed : b # a => (NotMissed(b)' /\ (Ahead(b) => Ahead(b)'))
  <2>. TAKE b \in armed
  <2>. HAVE b # a
  <2>1. due'[b] = due[b] /\ time'[b] = time[b] /\ rollover'[b] = rollover[b]
    BY <1>1, <1>3 DEF TypeOK
  <2>. QED BY <1>2, <2>1 DEF OnTime, NotMissed, Ahead
<1>7. OnTime'
  BY <1>0, <1>2, <1>5, <1>6, StepOnTime
<1>8. Clock!Fire(a)
  BY <1>2, <1>3, <1>4 DEF Clock!Fire
<1>. QED BY <1>7, <1>8

\* An alarm that runs its callback and is taken out of the list on the way.
LEMMA StopOnTime == ASSUME ListInv, TimeInv, OnTime, CallbackStops
                    PROVE  OnTime' /\ \E a \in Alarm : Clock!Fire(a)
<1>0. PICK a \in Alarm : a = alarm /\ isr = "walk" /\ Expired(a)
  BY DEF CallbackStops
<1>1. a \in armed /\ Ring(next, previous, armed)
  BY <1>0, WalkOnRing, TickAssumption
<1>2. /\ next' = [next EXCEPT ![previous[a]] = next[a], ![a] = a]
      /\ armed' = armed \ {a} /\ alarm' = next[a] /\ isr' = isr
      /\ UNCHANGED <<due, _alt_nticks>> /\ TypeOK
  BY <1>0 DEF CallbackStops, Removed, AfterCallback, clockVars, ListInv
<1>3. \A b \in armed' : time'[b] = time[b] /\ rollover'[b] = rollover[b]
  BY <1>0, <1>2 DEF CallbackStops, TypeOK
<1>4. \A b \in armed' : NotMissed(b)' /\ (Ahead(b) => Ahead(b)')
  BY <1>2, <1>3 DEF OnTime, NotMissed, Ahead
<1>5. PICK V \in SUBSET armed : /\ \A b \in V : Ahead(b)
                                /\ \A n \in V \cup {Head} : next[n] \in V \cup {a}
  BY <1>0 DEF OnTime
<1>6. ASSUME NEW n \in (V \ {a}) \cup {Head}
      PROVE  next'[n] \in (V \ {a}) \cup {next[a]}
  <2>1. n # a /\ n \in Node /\ n \in armed \cup {Head}
    BY <1>1, Running, TickAssumption DEF ListInv, Node
  <2>2. next'[n] = IF n = previous[a] THEN next[a] ELSE next[n]
    BY <1>2, <2>1 DEF TypeOK
  <2>3. next[n] = a => n = previous[a]
    BY <1>1, <2>1 DEF Ring
  <2>. QED BY <1>5, <2>2, <2>3
<1>7. OnTime'
  <2>1. V \ {a} \in SUBSET armed' /\ \A b \in V \ {a} : Ahead(b)'
    BY <1>2, <1>4, <1>5
  <2>. QED BY <1>0, <1>2, <1>4, <1>6, <2>1 DEF OnTime
<1>8. due[a] = 0
  <2>1. due[a] <= 0
    BY <1>0, <1>1, ExpiredIsDue DEF ListInv
  <2>2. due[a] >= 0
    BY <1>1 DEF OnTime, NotMissed
  <2>. QED BY <1>1, <2>1, <2>2, Running DEF ListInv
<1>9. Clock!Fire(a)
  BY <1>1, <1>2, <1>8 DEF Clock!Fire
<1>. QED BY <1>7, <1>9

\* The walk is over when it has passed every alarm there is.
LEMMA EndOnTime == ASSUME ListInv, OnTime, WalkEnd PROVE OnTime'
<1>1. /\ isr = "walk" /\ alarm = Head /\ isr' = "handler"
      /\ UNCHANGED <<time, rollover, armed, due, _alt_nticks>>
  BY DEF WalkEnd, alarmVars, history, clockVars
<1>2. PICK V \in SUBSET armed : /\ \A b \in V : Ahead(b)
                                /\ \A n \in V \cup {Head} : next[n] \in V \cup {Head}
  BY <1>1 DEF OnTime
<1>3. V = armed
  BY <1>1, <1>2, WalkOnRing DEF Ring, Closed
<1>. QED BY <1>1, <1>2, <1>3 DEF OnTime, NotMissed, Ahead

\* An alarm is started, or one is stopped, while no walk is under way.
LEMMA StartOnTime == ASSUME ListInv, OnTime, TypeOK', NEW a \in Alarm, AlarmStart(a)
                     PROVE  OnTime' /\ Clock!Start(a)
<1>1. PICK n \in Waits :
        LET t == Later(_alt_nticks, n + 1)
        IN  /\ time' = [time EXCEPT ![a] = t]
            /\ rollover' = [rollover EXCEPT ![a] = IF t < _alt_nticks THEN 1 ELSE 0]
            /\ due' = [due EXCEPT ![a] = n + 1]
  BY DEF AlarmStart
<1>2. /\ a \notin armed /\ armed' = armed \cup {a} /\ _alt_nticks' = _alt_nticks
      /\ isr = "off" /\ isr' = "off" /\ TypeOK
  BY DEF AlarmStart, Main, clockVars, isrVars, ListInv
<1>3. n \in Int /\ n >= 0
  BY TickAssumption
<1>4. Ahead(a)' /\ NotMissed(a)'
  <2>1. /\ due'[a] = n + 1 /\ time'[a] = Later(_alt_nticks, n + 1)
        /\ rollover'[a] = IF Later(_alt_nticks, n + 1) < _alt_nticks THEN 1 ELSE 0
    BY <1>1, <1>2 DEF TypeOK
  <2>. QED BY <1>2, <1>3, <2>1 DEF Ahead, NotMissed
<1>5. ASSUME NEW b \in armed PROVE Ahead(b)' /\ NotMissed(b)'
  <2>1. due'[b] = due[b] /\ time'[b] = time[b] /\ rollover'[b] = rollover[b]
    BY <1>1, <1>2 DEF TypeOK
  <2>2. Ahead(b) /\ NotMissed(b)
    BY <1>2 DEF OnTime
  <2>. QED BY <1>2, <2>1, <2>2 DEF Ahead, NotMissed
<1>6. OnTime'
  BY <1>2, <1>4, <1>5 DEF OnTime
<1>7. Clock!Start(a)
  BY <1>1, <1>2 DEF Clock!Start
<1>. QED BY <1>6, <1>7

\* A step that touches no alarm that runs, outside a walk.
LEMMA RestOnTime ==
  ASSUME OnTime, armed' \subseteq armed, UNCHANGED <<due, time, rollover, _alt_nticks>>,
         \/ isr # "walk" /\ isr' # "walk"
         \/ UNCHANGED <<isr, alarm, next, armed>>
  PROVE  OnTime'
<1>1. \A a \in armed : (NotMissed(a)' <=> NotMissed(a)) /\ (Ahead(a)' <=> Ahead(a))
  BY DEF NotMissed, Ahead
<1>. QED BY <1>1 DEF OnTime

\* Every step is one of AlarmClock, or none.
LEMMA ClockStep ==
  ASSUME ListInv, TimeInv, OnTime, TypeOK', [Next]_vars
  PROVE  OnTime' /\ [Clock!Next]_Clock!vars
<1>1. CASE Irq
  BY <1>1, IrqOnTime DEF Clock!Next
<1>2. CASE Pass
  BY <1>2, PassOnTime DEF Pass, history, Clock!vars
<1>3. CASE CallbackRepeats
  BY <1>3, RepeatOnTime DEF Clock!Next
<1>4. CASE CallbackStops
  BY <1>4, StopOnTime DEF Clock!Next
<1>5. CASE WalkEnd
  BY <1>5, EndOnTime DEF WalkEnd, history, Clock!vars
<1>6. ASSUME NEW a \in Alarm, AlarmStart(a) PROVE OnTime' /\ [Clock!Next]_Clock!vars
  BY <1>6, StartOnTime DEF Clock!Next
<1>7. ASSUME NEW a \in Alarm, AlarmStop(a) PROVE OnTime' /\ [Clock!Next]_Clock!vars
  <2>1. /\ armed' = armed \ {a} /\ isr = "off" /\ isr' = isr
        /\ UNCHANGED <<due, time, rollover, _alt_nticks>>
    BY <1>7 DEF AlarmStop, Main, alarmVars, clockVars, isrVars
  <2>2. OnTime'
    BY <2>1, RestOnTime
  <2>3. CASE a \in armed
    BY <2>1, <2>2, <2>3 DEF Clock!Next, Clock!Stop
  <2>4. CASE a \notin armed
    BY <2>1, <2>2, <2>4 DEF Clock!vars
  <2>. QED BY <2>3, <2>4
<1>8. CASE TimerInit \/ Timeout \/ Leave \/ UNCHANGED vars
  <2>1. /\ UNCHANGED <<armed, due, time, rollover, _alt_nticks>>
        /\ \/ isr # "walk" /\ isr' # "walk"
           \/ UNCHANGED <<isr, alarm, next, armed>>
    BY <1>8 DEF TimerInit, Timeout, Leave, vars, clockVars, alarmVars, history, isrVars,
                listVars
  <2>. QED BY <2>1, RestOnTime DEF Clock!vars
<1>9. CASE Insert \/ Link \/ Unlink \/ Detach \/ FrameDelay \/ FrameDelayEnd
  <2>1. /\ UNCHANGED <<armed, due, time, rollover, _alt_nticks>>
        /\ isr # "walk" /\ isr' # "walk"
    BY <1>9 DEF Insert, Link, Unlink, Detach, FrameDelay, FrameDelayEnd, Main, clockVars,
                alarmVars, history, isrVars
  <2>. QED BY <2>1, RestOnTime DEF Clock!vars
<1>. QED
  BY <1>1, <1>2, <1>3, <1>4, <1>5, <1>6, <1>7, <1>8, <1>9 DEF Next, Walk, Program

\* Every alarm runs exactly when it is due, never early, never a tick late, whatever
\* the width of the counter and however the program starts and stops alarms between
\* the interrupts: the safety half of AlarmsOnTime.
THEOREM ClockImplemented == Spec => Clock!Init /\ [][Clock!Next]_Clock!vars
<1>1. Init => Clock!Init /\ TimeInv /\ OnTime
  BY DEF Init, Clock!Init, TimeInv, OnTime
<1>2. ListInv => TypeOK
  BY DEF ListInv
<1>. QED BY <1>1, <1>2, TimeKept, ClockStep, ListInvariant, PTL DEF Spec
=============================================================================
