----------------------------- MODULE AlarmClock -----------------------------
(***************************************************************************)
(* What the alarms of the HAL promise: an alarm started for n ticks runs   *)
(* its callback n + 1 ticks later (so that n whole periods have passed),   *)
(* again as many ticks later as the callback asks for, never early, never  *)
(* late and never after it was stopped.                                    *)
(***************************************************************************)
EXTENDS Integers

CONSTANTS Alarm,      \* alarms
          Waits,      \* ticks a caller of alt_alarm_start may ask for
          Intervals   \* what a callback may answer, other than 0

VARIABLES armed,      \* the alarms that run
          due         \* ticks until each of them is due

vars == <<armed, due>>

Init == armed = {} /\ due = [a \in Alarm |-> 0]

Start(a) == /\ a \notin armed
            /\ armed' = armed \cup {a}
            /\ \E n \in Waits : due' = [due EXCEPT ![a] = n + 1]

Stop(a) == a \in armed /\ armed' = armed \ {a} /\ UNCHANGED due

\* No tick passes over an alarm that is due.
Tick == /\ \A a \in armed : due[a] > 0
        /\ due' = [a \in Alarm |-> IF a \in armed THEN due[a] - 1 ELSE due[a]]
        /\ UNCHANGED armed

Fire(a) == /\ a \in armed /\ due[a] = 0
           /\ \/ armed' = armed \ {a} /\ UNCHANGED due
              \/ /\ \E r \in Intervals : due' = [due EXCEPT ![a] = r]
                 /\ armed' \in {armed, armed \ {a}}

Next == Tick \/ \E a \in Alarm : Start(a) \/ Stop(a) \/ Fire(a)

Spec == Init /\ [][Next]_vars /\ WF_vars(Tick) /\ WF_vars(\E a \in Alarm : Fire(a))
=============================================================================
