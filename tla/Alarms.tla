------------------------------- MODULE Alarms ------------------------------
(***************************************************************************)
(* What CPU::schedule_after promises, with no kernel timer and no signals: *)
(* tasks leave in the order of their deadlines, those of one deadline in   *)
(* the order they came, none before its deadline, and each in the end.     *)
(***************************************************************************)
EXTENDS Integers, Sequences

CONSTANTS Timer, Interval, Horizon

VARIABLES
  now,       \* the clock
  deadline,  \* of each timer that was set, else 0
  waiting,   \* the timers not yet due, in the order they will leave
  left       \* the timers that have left, in order

vars == <<now, deadline, waiting, left>>

Init ==
  /\ now = 1
  /\ deadline = [k \in Timer |-> 0]
  /\ waiting = <<>>
  /\ left = <<>>

Tick ==
  /\ now < Horizon
  /\ now' = now + 1
  /\ UNCHANGED <<deadline, waiting, left>>

\* The new timer goes behind those that are due no later than itself.
Set(k, i) ==
  /\ deadline[k] = 0 /\ now + i <= Horizon
  /\ deadline' = [deadline EXCEPT ![k] = now + i]
  /\ \E n \in 0 .. Len(waiting) :
       /\ \A j \in 1 .. Len(waiting) : j <= n <=> deadline[waiting[j]] <= now + i
       /\ waiting' = SubSeq(waiting, 1, n) \o <<k>> \o SubSeq(waiting, n + 1, Len(waiting))
  /\ UNCHANGED <<now, left>>

\* Some timers that are due leave, the first ones first.
Leave ==
  /\ \E n \in 1 .. Len(waiting) :
       /\ deadline[waiting[n]] <= now
       /\ left' = left \o SubSeq(waiting, 1, n)
       /\ waiting' = SubSeq(waiting, n + 1, Len(waiting))
  /\ UNCHANGED <<now, deadline>>

Next == Tick \/ Leave \/ \E k \in Timer, i \in Interval : Set(k, i)

Safe == Init /\ [][Next]_vars

Spec == Safe /\ WF_vars(Leave) /\ WF_vars(Tick)
=============================================================================
