------------------------------- MODULE Timers ------------------------------
(***************************************************************************)
(* The Timer_service of one CPU: a map of deadlines, and one kernel timer  *)
(* that is armed for the first of them and sends SIGALRM.  The handler of  *)
(* the signal, run by Signal_poller, schedules what is due and arms again. *)
(*                                                                         *)
(* CPU 0 stands for the CPU.  The clock counts whole units; it may advance *)
(* between any two steps, and the kernel may be late with the signal.      *)
(***************************************************************************)
EXTENDS Reactor, Flattening

CONSTANTS
  Timer,      \* the tasks that user code hands to schedule_after
  Interval,   \* the intervals it asks for
  Horizon     \* the last instant, and the last deadline, of an instance

UserTask == "user"

ASSUME TimersAssumption ==
  /\ Interval \subseteq Nat
  /\ Horizon \in Nat \ {0}
  /\ UserTask \notin Timer

Me == 0

Deadline == 1 .. Horizon

VARIABLES
  now,        \* CLOCK_MONOTONIC
  timers,     \* the tasks of each deadline; an empty vector stands for no entry
  armed,      \* the instant physical_timer_ is set for, 0 if it is disarmed
  seen,       \* the local now of complete_timers
  deadline,   \* of each timer that was added, else 0
  ran,        \* the timers whose task has started, in order
  user        \* user code is on the CPU's stack

vars == <<reactorVars, now, timers, armed, seen, deadline, ran, user>>

Init ==
  /\ ReactorInit("boot", <<UserTask>>)
  /\ now = 1
  /\ timers = [d \in Deadline |-> <<>>]
  /\ armed = 0
  /\ seen = 0
  /\ deadline = [k \in Timer |-> 0]
  /\ ran = <<>>
  /\ user = FALSE

Entries == {d \in Deadline : timers[d] # <<>>}

\* Any entry for the first one.
AnyEntry(d) == d \in Entries

\* The entry at timers_.begin().
First(d) == d \in Entries /\ \A other \in Entries : d <= other

timersUnchanged == UNCHANGED <<timers, armed, seen, deadline, ran, user>>

-----------------------------------------------------------------------------
(* The clock and the kernel timer.                                         *)

Tick ==
  /\ now < Horizon
  /\ now' = now + 1
  /\ timersUnchanged /\ UNCHANGED reactorVars

\* A one-shot timer: it_interval is zero, an instant in the past expires at once.
Expire ==
  /\ armed # 0 /\ armed <= now
  /\ armed' = 0
  /\ Wakeup(Me)
  /\ UNCHANGED <<pc, cpu_active, task_queue, budget, pending_signals,
                 now, timers, seen, deadline, ran, user>>

\* Another CPU, or the worker thread, sends SIGALRM.
Poke ==
  /\ ~raised[Me]
  /\ Wakeup(Me)
  /\ timersUnchanged
  /\ UNCHANGED <<pc, cpu_active, task_queue, budget, pending_signals, now>>

-----------------------------------------------------------------------------
(* The loop of the CPU.                                                    *)

Boot == InitPollers(Me) /\ timersUnchanged /\ UNCHANGED now

Signal == Deliver(Me) /\ timersUnchanged /\ UNCHANGED now

\* Signal_poller clears the signals before it calls complete_timers.
PollSignals ==
  /\ \/ LoadSignals(Me, "decide")
     \/ ClearSignals(Me, "clock", <<>>)
  /\ timersUnchanged /\ UNCHANGED now

IdleOrRun == Decide(Me) /\ timersUnchanged /\ UNCHANGED now

NextRound == ~user /\ EndBatch(Me) /\ timersUnchanged /\ UNCHANGED now

Sleep == CheckPending(Me) /\ timersUnchanged /\ UNCHANGED now

RunTask ==
  /\ ~user
  /\ TakeTask(Me, <<>>)
  /\ user' = TRUE
  /\ ran' = IF Head(task_queue[Me]) = UserTask THEN ran ELSE Append(ran, Head(task_queue[Me]))
  /\ UNCHANGED <<pc, cpu_active, raised, pending_signals, now, timers, armed, seen, deadline>>

TaskReturns ==
  /\ pc[Me] = "tasks" /\ user
  /\ user' = FALSE
  /\ UNCHANGED <<reactorVars, now, timers, armed, seen, deadline, ran>>

-----------------------------------------------------------------------------
(* add_timer and complete_timers.                                          *)

\* Arming for a first timer only.
ArmsOnlyWhenEmpty(d) == Entries = {}

\* The kernel timer is armed for a deadline before all others.
NeedsArming(d) == \A other \in Entries : d < other

\* Deadlines later than Horizon are outside of an instance.
AddTimer(k, i) ==
  LET d == now + i
  IN  /\ pc[Me] = "tasks" /\ user /\ deadline[k] = 0 /\ d \in Deadline
      /\ deadline' = [deadline EXCEPT ![k] = d]
      /\ timers' = [timers EXCEPT ![d] = Append(@, k)]
      /\ IF NeedsArming(d) THEN Goto(Me, "arm") ELSE UNCHANGED pc
      /\ UNCHANGED <<cpu_active, task_queue, budget, raised, pending_signals,
                     now, armed, seen, ran, user>>

\* complete_timers reads the clock once.
ReadClock ==
  /\ pc[Me] = "clock"
  /\ seen' = now
  /\ Goto(Me, "complete")
  /\ UNCHANGED <<cpu_active, task_queue, budget, raised, pending_signals,
                 now, timers, armed, deadline, ran, user>>

\* Timers scheduled one unit too soon.
DueTooSoon(d) == d <= seen + 1

\* Those before upper_bound(now).
Due(d) == d <= seen

\* The entries that are due go to the queue in the order of the map.
CompleteEntry ==
  /\ pc[Me] = "complete"
  /\ \E d \in Entries :
       /\ First(d) /\ Due(d)
       /\ Schedule(Me, timers[d])
       /\ timers' = [timers EXCEPT ![d] = <<>>]
  /\ UNCHANGED <<pc, cpu_active, budget, raised, pending_signals,
                 now, armed, seen, deadline, ran, user>>

\* A completion that leaves the kernel timer disarmed.
NotRearmed == "decide"

\* The kernel timer is armed again if any timer is left.
AfterComplete == IF Entries = {} THEN "decide" ELSE "rearm"

CompleteEnd ==
  /\ pc[Me] = "complete"
  /\ \A d \in Entries : ~Due(d)
  /\ Goto(Me, AfterComplete)
  /\ UNCHANGED <<cpu_active, task_queue, budget, raised, pending_signals,
                 now, timers, armed, seen, deadline, ran, user>>

\* rearm_timer_, called by add_timer and by complete_timers.
Rearm ==
  /\ pc[Me] \in {"arm", "rearm"}
  /\ \E d \in Entries : First(d) /\ armed' = d
  /\ Goto(Me, IF pc[Me] = "arm" THEN "tasks" ELSE "decide")
  /\ UNCHANGED <<cpu_active, task_queue, budget, raised, pending_signals,
                 now, timers, seen, deadline, ran, user>>

-----------------------------------------------------------------------------
Run == \/ Boot \/ PollSignals \/ IdleOrRun \/ NextRound \/ Sleep \/ RunTask \/ TaskReturns
       \/ ReadClock \/ CompleteEntry \/ CompleteEnd \/ Rearm

Next == \/ Run \/ Signal \/ Tick \/ Expire \/ Poke
        \/ \E k \in Timer, i \in Interval : AddTimer(k, i)

Safe == Init /\ [][Next]_vars

\* The thread is scheduled, time passes, the kernel keeps its timer and
\* delivers its signals; nobody else need wake this CPU.
Fairness == WF_vars(Run) /\ WF_vars(Signal) /\ WF_vars(Expire) /\ WF_vars(Tick)

Spec == Safe /\ Fairness

-----------------------------------------------------------------------------
(* Properties.                                                             *)

\* Every variable has its type.
TypeOK ==
  /\ pc \in [Cpu -> {"boot", "signal", "clear", "clock", "complete", "rearm", "decide",
                     "tasks", "arm", "masked", "asleep"}]
  /\ cpu_active \in [Cpu -> BOOLEAN]
  /\ task_queue \in [Cpu -> Seq(Timer \cup {UserTask})]
  /\ budget \in [Cpu -> 0 .. TaskBatch]
  /\ raised \in [Cpu -> BOOLEAN]
  /\ pending_signals \in [Cpu -> BOOLEAN]
  /\ now \in Deadline
  /\ timers \in [Deadline -> Seq(Timer)]
  /\ armed \in 0 .. Horizon
  /\ seen \in 0 .. now
  /\ deadline \in [Timer -> 0 .. Horizon]
  /\ ran \in Seq(Timer)
  /\ user \in BOOLEAN

\* complete_timers will run or is running, or the kernel is about to be armed.
HandlerComing ==
  \/ raised[Me] \/ pending_signals[Me]
  \/ pc[Me] \in {"clear", "clock", "complete", "rearm", "arm"}

\* Whatever the interleaving of the kernel's timer with add_timer and
\* complete_timers, no timer is forgotten: the kernel is armed no later than
\* for the first deadline, or the handler will come.
NoTimerForgotten ==
  Entries # {} => HandlerComing \/ (armed # 0 /\ \A d \in Entries : armed <= d)

\* The CPU sleeps past no timer, wherever it waits: for each one that was added and
\* has not run, a signal is raised or the kernel armed no later than for its deadline.
SleepsUntilDue ==
  pc[Me] = "asleep" =>
    \A k \in Timer : deadline[k] # 0 /\ (\A j \in DOMAIN ran : ran[j] # k)
      => raised[Me] \/ (armed # 0 /\ armed <= deadline[k])

\* Tasks run in the order of their deadlines, each once, although timers are added
\* before and behind those that wait, and none before its deadline
\* (tests/timer.cpp measures it).
RunsInOrder ==
  /\ \A j \in DOMAIN ran : deadline[ran[j]] <= now
  /\ \A i, j \in DOMAIN ran : i < j => ran[i] # ran[j] /\ deadline[ran[i]] <= deadline[ran[j]]

\* Every task handed to schedule_after runs.
EveryTimerRuns == \A k \in Timer : deadline[k] # 0 ~> \E j \in DOMAIN ran : ran[j] = k

\* The map, read in its order, is what waits; what left it is in the CPU's
\* queue or has started, and tasks start in the order of the queue.
TimersOf(t) == IF t = UserTask THEN <<>> ELSE <<t>>

InQueue == LET queue == task_queue[Me]
           IN  Seqs!FlattenSeq([i \in 1 .. Len(queue) |-> TimersOf(queue[i])])

Abstract == INSTANCE Alarms WITH
  waiting <- Seqs!FlattenSeq(timers),
  left <- ran \o InQueue

\* A CPU's timers leave in the order of their deadlines, none too early, each
\* in the end, although one kernel timer and a mergeable signal serve them all.
ImplementsAlarms == Abstract!Spec
=============================================================================
