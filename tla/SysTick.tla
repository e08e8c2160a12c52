------------------------------ MODULE SysTick -------------------------------
(***************************************************************************)
(* The system clock of the processor: the interval timer, its interrupt    *)
(* (altera_avalon_timer_sc.c), the tick that counts time and runs alarms   *)
(* (alt_tick.c), and the program's side of it, which starts and stops      *)
(* alarms (alt_alarm_start.c, alt_alarm_stop) and waits for a tick         *)
(* (frame_delay of graphic_top.h).                                         *)
(*                                                                         *)
(* An action is one step of the program or of the interrupt.  The program  *)
(* stops while the interrupt runs; the interrupt waits while the program   *)
(* has interrupts disabled.  The list of alarms is modelled with its       *)
(* pointers, written one at a time.                                        *)
(***************************************************************************)
EXTENDS Integers

CONSTANTS Alarm,      \* alarm structures
          Head,       \* &alt_alarm_list
          Null,       \* what the pointers of a fresh structure hold
          Modulus,    \* values of an alt_u32, 2^32 in the code
          Waits,      \* ticks alt_alarm_start is asked for
          Intervals   \* answers of callbacks, other than 0

\* nticks = 2^32 - 1 is left out: time would equal the current tick, which is
\* not taken for a roll-over, and the alarm would run at once.
ASSUME TickAssumption ==
  /\ Modulus \in Nat \ {0} /\ Waits \subseteq 0 .. Modulus - 2
  /\ Intervals \subseteq 1 .. Modulus - 1
  /\ Head \notin Alarm /\ Null \notin Alarm \cup {Head}

Node == Alarm \cup {Head}
Tick32 == 0 .. Modulus - 1

\* Addition of alt_u32.
LaterUnbounded(t, n) == t + n    \* Faults
Later(t, n) == (t + n) % Modulus

VARIABLES
  timeout_occurred,  \* the timer's interrupt request
  sysclk,            \* alt_avalon_timer_sc_init has run
  _alt_nticks,
  next, previous,    \* alt_llist of Head and of every alarm
  time, rollover,    \* of every alarm
  isr,               \* where the interrupt is
  alarm,             \* alt_tick: the alarm the walk has come to
  pc, subject,       \* where the program is, and with which alarm
  pie,               \* interrupts are enabled
  start_time,        \* frame_delay
  armed, due, ran    \* history: as in AlarmClock; the callback just made

listVars  == <<next, previous>>
alarmVars == <<time, rollover>>
isrVars   == <<isr, alarm>>
mainVars  == <<pc, subject, pie, start_time>>
history   == <<armed, due>>
clockVars == <<sysclk, _alt_nticks>>
vars == <<timeout_occurred, clockVars, listVars, alarmVars, isrVars, mainVars,
          history, ran>>

TypeOK ==
  /\ timeout_occurred \in 0 .. 1 /\ sysclk \in BOOLEAN /\ _alt_nticks \in Tick32
  /\ next \in [Node -> Node \cup {Null}] /\ previous \in [Node -> Node \cup {Null}]
  /\ time \in [Alarm -> Tick32] /\ rollover \in [Alarm -> 0 .. 1]
  /\ isr \in {"off", "handler", "walk"} /\ alarm \in Node \cup {Null}
  /\ pc \in {"idle", "insert", "link", "unlink", "detach", "delay"}
  /\ subject \in Alarm \cup {Null} /\ pie \in BOOLEAN /\ start_time \in Tick32
  /\ armed \subseteq Alarm /\ due \in [Alarm -> Int] /\ ran \in Alarm \cup {Null}

Init ==
  /\ timeout_occurred = 0 /\ sysclk = FALSE /\ _alt_nticks = 0
  /\ next     = [n \in Node |-> IF n = Head THEN Head ELSE Null]
  /\ previous = [n \in Node |-> IF n = Head THEN Head ELSE Null]
  /\ time = [a \in Alarm |-> 0] /\ rollover = [a \in Alarm |-> 0]
  /\ isr = "off" /\ alarm = Head
  /\ pc = "idle" /\ subject = Null /\ pie = TRUE /\ start_time = 0
  /\ armed = {} /\ due = [a \in Alarm |-> 0] /\ ran = Null
-----------------------------------------------------------------------------
(* The timer and its interrupt.                                            *)

\* alt_avalon_timer_sc_init: free running, interrupt enabled.
TimerInit ==
  /\ ~sysclk /\ sysclk' = TRUE /\ ran' = Null
  /\ UNCHANGED <<timeout_occurred, _alt_nticks, listVars, alarmVars, isrVars,
                 mainVars, history>>

\* A period ends.  The request stays up until it is served, so that periods
\* that end meanwhile are lost.
Timeout ==
  /\ sysclk /\ timeout_occurred' = 1 /\ ran' = Null
  /\ UNCHANGED <<clockVars, listVars, alarmVars, isrVars, mainVars, history>>

Interruptible == (isr = "off" /\ pie) \/ isr = "handler"

\* The interrupt is taken, or found by the handler that looks once more before
\* it leaves: the request is cleared, alt_tick counts and starts its walk.
Irq ==
  /\ timeout_occurred = 1 /\ Interruptible
  /\ timeout_occurred' = 0
  /\ _alt_nticks' = Later(_alt_nticks, 1)
  /\ isr' = "walk" /\ alarm' = next[Head]
  /\ due' = [a \in Alarm |-> IF a \in armed THEN due[a] - 1 ELSE due[a]]
  /\ ran' = Null
  /\ UNCHANGED <<sysclk, listVars, alarmVars, mainVars, armed>>

\* alt_llist_remove, whole: interrupts are disabled all through alt_tick.
Removed(a) ==
  /\ previous' = [previous EXCEPT ![next[a]] = previous[a], ![a] = a]
  /\ next'     = [next EXCEPT ![previous[a]] = next[a], ![a] = a]

\* A roll-over flag has done its duty once the counter has wrapped.
Waits4WrapNever(a) == FALSE    \* Faults
Waits4Wrap(a) == rollover[a] = 1 /\ _alt_nticks # 0

Expired(a) == time[a] <= _alt_nticks /\ ~Waits4Wrap(a)

Cleared(a) == [rollover EXCEPT ![a] = IF Waits4Wrap(a) THEN 1 ELSE 0]

\* The body of alt_tick's loop for an alarm that is not due.
Pass ==
  /\ isr = "walk" /\ alarm \in Alarm /\ ~Expired(alarm)
  /\ rollover' = Cleared(alarm) /\ alarm' = next[alarm] /\ ran' = Null
  /\ UNCHANGED <<timeout_occurred, clockVars, listVars, time, isr, mainVars, history>>

\* The walk goes on from where the alarm stood before its callback ran.
AfterCallbackReread == alarm' = next'[alarm]    \* Faults
AfterCallback == alarm' = next[alarm]

\* ... for an alarm whose callback answers 0, or stops the alarm itself.  The
\* structure keeps its place in no list; an answer other than 0 still moves
\* its time, which nobody reads.
CallbackStops ==
  /\ isr = "walk" /\ alarm \in Alarm /\ Expired(alarm)
  /\ Removed(alarm) /\ AfterCallback
  /\ \E r \in Intervals \cup {0} :
       LET t == Later(time[alarm], r)
       IN  /\ time' = [time EXCEPT ![alarm] = t]
           /\ rollover' = [rollover EXCEPT ![alarm] =
                             IF r # 0 /\ t < _alt_nticks THEN 1 ELSE 0]
  /\ armed' = armed \ {alarm} /\ ran' = alarm
  /\ UNCHANGED <<timeout_occurred, clockVars, isr, mainVars, due>>

\* ... and for one that runs on, from the time it was due.
CallbackRepeats ==
  /\ isr = "walk" /\ alarm \in Alarm /\ Expired(alarm)
  /\ \E r \in Intervals :
       LET t == Later(time[alarm], r)
       IN  /\ time' = [time EXCEPT ![alarm] = t]
           /\ rollover' = [rollover EXCEPT ![alarm] = IF t < _alt_nticks THEN 1 ELSE 0]
           /\ due' = [due EXCEPT ![alarm] = @ + r]
  /\ UNCHANGED <<timeout_occurred, clockVars, listVars, isr, mainVars, armed>>
  /\ AfterCallback /\ ran' = alarm

WalkEnd == /\ isr = "walk" /\ alarm = Head /\ isr' = "handler" /\ ran' = Null
           /\ UNCHANGED <<timeout_occurred, clockVars, listVars, alarmVars, alarm,
                          mainVars, history>>

\* alt_irq_handler finds nothing pending and returns to the program.
Leave == /\ isr = "handler" /\ timeout_occurred = 0 /\ isr' = "off" /\ ran' = Null
         /\ UNCHANGED <<timeout_occurred, clockVars, listVars, alarmVars, alarm,
                        mainVars, history>>
-----------------------------------------------------------------------------
(* The program.                                                            *)

Main(from, to) == /\ isr = "off" /\ pc = from /\ pc' = to /\ ran' = Null
                  /\ UNCHANGED <<timeout_occurred, clockVars, isrVars>>

DisableForgotten == pie' = TRUE    \* Faults
Disable == pie' = FALSE
Enable  == pie' = TRUE

\* alt_alarm_start on an alarm that is not registered, up to the insertion:
\* without a system clock it does nothing.
AlarmStart(a) ==
  /\ sysclk /\ a \notin armed /\ Main("idle", "insert") /\ Disable /\ subject' = a
  /\ \E n \in Waits :
       LET t == Later(_alt_nticks, n + 1)
       IN  /\ time' = [time EXCEPT ![a] = t]
           /\ rollover' = [rollover EXCEPT ![a] = IF t < _alt_nticks THEN 1 ELSE 0]
           /\ due' = [due EXCEPT ![a] = n + 1]
  /\ armed' = armed \cup {a}
  /\ UNCHANGED <<listVars, start_time>>

\* alt_llist_insert: the new entry first, then its neighbours.
Insert ==
  /\ Main("insert", "link")
  /\ previous' = [previous EXCEPT ![subject] = Head]
  /\ next'     = [next EXCEPT ![subject] = next[Head]]
  /\ UNCHANGED <<alarmVars, subject, pie, start_time, history>>

Link ==
  /\ Main("link", "idle") /\ Enable /\ subject' = Null
  /\ previous' = [previous EXCEPT ![next[Head]] = subject]
  /\ next'     = [next EXCEPT ![Head] = subject]
  /\ UNCHANGED <<alarmVars, start_time, history>>

\* alt_alarm_stop on an alarm that was started before, registered or not;
\* alt_llist_remove first joins the neighbours, then ties the entry to itself.
AlarmStop(a) ==
  /\ next[a] # Null /\ Main("idle", "unlink") /\ Disable /\ subject' = a
  /\ armed' = armed \ {a}
  /\ UNCHANGED <<listVars, alarmVars, start_time, due>>

Unlink ==
  /\ Main("unlink", "detach")
  /\ previous' = [previous EXCEPT ![next[subject]] = previous[subject]]
  /\ next'     = [next EXCEPT ![previous[subject]] = next[subject]]
  /\ UNCHANGED <<alarmVars, subject, pie, start_time, history>>

Detach ==
  /\ Main("detach", "idle") /\ Enable /\ subject' = Null
  /\ previous' = [previous EXCEPT ![subject] = subject]
  /\ next'     = [next EXCEPT ![subject] = subject]
  /\ UNCHANGED <<alarmVars, start_time, history>>

\* frame_delay: clock() once, and again until it has reached the next tick.
FrameDelay ==
  /\ Main("idle", "delay") /\ start_time' = _alt_nticks
  /\ UNCHANGED <<listVars, alarmVars, subject, pie, history>>

DelayOverPast == _alt_nticks > Later(start_time, 1)    \* Faults
DelayOver == _alt_nticks >= Later(start_time, 1)

FrameDelayEnd ==
  /\ Main("delay", "idle") /\ DelayOver
  /\ UNCHANGED <<listVars, alarmVars, subject, pie, start_time, history>>
-----------------------------------------------------------------------------
Program == \/ \E a \in Alarm : AlarmStart(a) \/ AlarmStop(a)
           \/ Insert \/ Link \/ Unlink \/ Detach \/ FrameDelay \/ FrameDelayEnd

Walk == Pass \/ CallbackStops \/ CallbackRepeats \/ WalkEnd

Next == TimerInit \/ Timeout \/ Irq \/ Walk \/ Leave \/ Program

\* The timer runs; the processor takes a pending interrupt at the first
\* instruction that has interrupts enabled, executes the interrupt and leaves
\* it; the sections with interrupts disabled come to their end; frame_delay
\* looks at the clock many times per tick.
Fairness == /\ WF_vars(TimerInit) /\ WF_vars(Timeout) /\ SF_vars(Irq)
            /\ WF_vars(Walk) /\ WF_vars(Leave)
            /\ SF_vars(Insert \/ Link \/ Unlink \/ Detach) /\ SF_vars(FrameDelayEnd)

Spec == Init /\ [][Next]_vars /\ Fairness
-----------------------------------------------------------------------------
\* Whenever an interrupt can walk it, the list holds exactly the alarms that
\* run, closed in both directions: alt_llist_insert and alt_llist_remove are
\* never seen half done (alt_alarm_start.c 78-99, alt_tick.c 66-73), and a
\* callback that removes its own alarm leaves the list whole.
ListWhole ==
  Interruptible =>
    /\ \A n \in armed \cup {Head} : /\ next[n] \in armed \cup {Head}
                                    /\ previous[next[n]] = n
    /\ \A S \in SUBSET armed :
         (\A n \in S \cup {Head} : next[n] \in S \cup {Head}) => S = armed

\* No callback runs before its time, also when the tick counter, and with it
\* the alarm's time, wraps between the two (rollover in alt_tick.c 77-105).
NeverEarly == [][ran' # Null => due[ran'] <= 0]_vars

\* Every alarm that is started and not stopped runs when it is due, exactly at
\* its tick, for ever, whatever the program starts, stops and interrupts
\* meanwhile (AlarmClock).
Clock == INSTANCE AlarmClock
AlarmsOnTime == Clock!Spec

\* frame_delay returns, provided an interrupt is over before the next period
\* ends: its comparison comes true although the counter may wrap while it waits.
PromptInterrupt == [](isr # "off" => timeout_occurred = 0)
DelayEnds == PromptInterrupt => (pc = "delay" ~> pc # "delay")
=============================================================================
