------------------------------- MODULE FileIo ------------------------------
(***************************************************************************)
(* The File_io of one CPU: reads and writes go to the kernel through an    *)
(* AIO context, a semaphore bounds how many are under way, completions are *)
(* reaped by a poller, and an eventfd that the kernel signals brings the   *)
(* CPU back from epoll_pwait.                                              *)
(*                                                                         *)
(* CPU 0 stands for the CPU; the others only send it SIGALRM.              *)
(***************************************************************************)
EXTENDS Reactor, Semaphore, FiniteSets

CONSTANTS
  Request,        \* the reads and writes user code may submit
  MaxIo,          \* max_io: tokens, and events the context has room for
  Refusals,       \* whether io_submit may fail
  Interruptible   \* whether a signal may interrupt io_getevents

ASSUME FileIoAssumption ==
  /\ MaxIo \in Nat \ {0}
  /\ Refusals \in BOOLEAN
  /\ Interruptible \in BOOLEAN

Me == 0

VARIABLES
  sem,       \* aio_available_
  kernel,    \* the requests the kernel is working on
  events,    \* the completions to be reaped, with their results
  owed,      \* completions whose eventfd signal is still to come
  eventfd,   \* the count of aio_eventfd_ is not zero
  st,        \* how far each request has got
  user       \* user code is on the CPU's stack

ioVars == <<kernel, events, owed, eventfd>>
vars == <<reactorVars, sem, ioVars, st, user>>

UserTask == [kind |-> "user"]
SubmitTask(k) == [kind |-> "submit", request |-> k]
FinishTask(k, ok) == [kind |-> "finish", request |-> k, ok |-> ok]

Init ==
  /\ ReactorInit("boot", <<UserTask>>)
  /\ sem = NewSemaphore(MaxIo)
  /\ kernel = {} /\ events = <<>> /\ owed = {}
  /\ eventfd = FALSE
  /\ st = [k \in Request |-> "new"]
  /\ user = FALSE

-----------------------------------------------------------------------------
(* The loop of the CPU.                                                    *)

othersUnchanged == UNCHANGED <<sem, ioVars, st, user>>

Boot == InitPollers(Me) /\ othersUnchanged

Signal == pc[Me] # "dead" /\ Deliver(Me) /\ othersUnchanged

PollSignals ==
  /\ LoadSignals(Me, "reap") \/ ClearSignals(Me, "reap", <<>>)
  /\ othersUnchanged

IdleOrRun == Decide(Me) /\ othersUnchanged

NextRound == ~user /\ EndBatch(Me) /\ othersUnchanged

\* The eventfd is drained before the wait.
SleepDrained ==
  /\ CheckPending(Me)
  /\ eventfd' = FALSE
  /\ UNCHANGED <<sem, kernel, events, owed, st, user>>

Sleep == CheckPending(Me) /\ othersUnchanged

\* epoll_pwait returns as long as the eventfd is readable, and nobody reads it.
EpollReturns ==
  /\ pc[Me] = "asleep" /\ eventfd
  /\ Goto(Me, "signal")
  /\ UNCHANGED <<cpu_active, task_queue, budget, raised, pending_signals,
                 sem, kernel, events, owed, eventfd, st, user>>

Poke ==
  /\ ~raised[Me]
  /\ Wakeup(Me)
  /\ othersUnchanged
  /\ UNCHANGED <<pc, cpu_active, task_queue, budget, pending_signals>>

RunUser ==
  /\ ~user /\ task_queue[Me] # <<>> /\ Head(task_queue[Me]) = UserTask
  /\ TakeTask(Me, <<>>)
  /\ user' = TRUE
  /\ UNCHANGED <<pc, cpu_active, raised, pending_signals, sem, ioVars, st>>

TaskReturns ==
  /\ pc[Me] = "tasks" /\ user
  /\ user' = FALSE
  /\ UNCHANGED <<reactorVars, sem, ioVars, st>>

-----------------------------------------------------------------------------
(* Submission.                                                             *)

\* submit_io_ waits for a token; the rest is a continuation, a task even if
\* the token was there.
Submit(k) ==
  /\ pc[Me] = "tasks" /\ user /\ st[k] = "new"
  /\ sem' = AfterWait(sem, 1, k)
  /\ IF Admits(sem, 1)
       THEN Schedule(Me, <<SubmitTask(k)>>) /\ st' = [st EXCEPT ![k] = "granted"]
       ELSE UNCHANGED task_queue /\ st' = [st EXCEPT ![k] = "waiting"]
  /\ UNCHANGED <<pc, cpu_active, budget, raised, pending_signals, ioVars, user>>

\* submit_io_impl_: the kernel takes the request ...
RunSubmit(k) ==
  /\ ~user /\ task_queue[Me] # <<>> /\ Head(task_queue[Me]) = SubmitTask(k)
  /\ TakeTask(Me, <<>>)
  /\ kernel' = kernel \cup {k}
  /\ st' = [st EXCEPT ![k] = "submitted"]
  /\ UNCHANGED <<pc, cpu_active, raised, pending_signals, sem,
                 events, owed, eventfd, user>>

\* ... or refuses it: the exception goes to the next continuation of the chain,
\* and nobody gives the token back.
RunRefused(k) ==
  /\ Refusals
  /\ ~user /\ task_queue[Me] # <<>> /\ Head(task_queue[Me]) = SubmitTask(k)
  /\ TakeTask(Me, <<FinishTask(k, FALSE)>>)
  /\ st' = [st EXCEPT ![k] = "refused"]
  /\ UNCHANGED <<pc, cpu_active, raised, pending_signals, sem, ioVars, user>>

\* The continuation of submit_read and submit_write: a negative result becomes
\* an exception; either way the user's future is resolved.
RunFinish(k, ok) ==
  /\ ~user /\ task_queue[Me] # <<>> /\ Head(task_queue[Me]) = FinishTask(k, ok)
  /\ TakeTask(Me, <<UserTask>>)
  /\ st' = [st EXCEPT ![k] =
              IF ok THEN "value" ELSE IF @ = "refused" THEN "rejected" ELSE "exception"]
  /\ UNCHANGED <<pc, cpu_active, raised, pending_signals, sem, ioVars, user>>

-----------------------------------------------------------------------------
(* The kernel.                                                             *)

cpuUnchanged == UNCHANGED <<reactorVars, sem, user>>

\* Requests end in any order; the event is there before the eventfd is signalled.
KernelCompletes(k) ==
  /\ k \in kernel
  /\ kernel' = kernel \ {k}
  /\ \E ok \in BOOLEAN : events' = Append(events, [request |-> k, ok |-> ok])
  /\ owed' = owed \cup {k}
  /\ st' = [st EXCEPT ![k] = "done"]
  /\ cpuUnchanged /\ UNCHANGED eventfd

KernelSignals(k) ==
  /\ k \in owed
  /\ owed' = owed \ {k}
  /\ eventfd' = TRUE
  /\ cpuUnchanged /\ UNCHANGED <<kernel, events, st>>

-----------------------------------------------------------------------------
(* reap_io.                                                                *)

\* A release of no tokens that is left out.
ReleaseSome(n) == IF n = 0 THEN sem ELSE AfterRelease(sem, n)

\* release() is called whatever the number of completions, none included.
Released(n) == AfterRelease(sem, n)

\* All completions there are resolve their promises; then release() gives the
\* tokens back and lets at most one waiting request in.
Reap ==
  LET n == Len(events)
      after == Released(n)
      granted == IF after.waiting = sem.waiting THEN {} ELSE {Head(sem.waiting).who}
  IN  /\ pc[Me] = "reap"
      /\ events' = <<>>
      /\ sem' = after
      /\ st' = [k \in Request |->
                  CASE k \in granted -> "granted"
                    [] \E i \in 1 .. n : events[i].request = k -> "reaped"
                    [] OTHER -> st[k]]
      /\ Schedule(Me, [i \in 1 .. n |-> FinishTask(events[i].request, events[i].ok)]
                        \o [i \in 1 .. Cardinality(granted) |-> SubmitTask(Head(sem.waiting).who)])
      /\ SetActive(Me, n > 0)
      /\ Goto(Me, "decide")
      /\ UNCHANGED <<budget, raised, pending_signals, kernel, owed, eventfd, user>>

\* io_getevents finds nothing and a signal is pending: EINTR, which reap_io
\* throws and CPU::run does not catch.
ReapInterrupted ==
  /\ Interruptible
  /\ pc[Me] = "reap" /\ events = <<>> /\ raised[Me]
  /\ Goto(Me, "dead")
  /\ othersUnchanged
  /\ UNCHANGED <<cpu_active, task_queue, budget, raised, pending_signals>>

-----------------------------------------------------------------------------
Run == \/ Boot \/ PollSignals \/ IdleOrRun \/ NextRound \/ Sleep \/ EpollReturns
       \/ RunUser \/ TaskReturns \/ Reap \/ ReapInterrupted
       \/ \E k \in Request : RunSubmit(k) \/ RunRefused(k) \/ \E ok \in BOOLEAN : RunFinish(k, ok)

Kernel(k) == KernelCompletes(k) \/ KernelSignals(k)

Next == Run \/ Signal \/ Poke \/ \E k \in Request : Submit(k) \/ Kernel(k)

Safe == Init /\ [][Next]_vars

\* The thread is scheduled, signals are delivered and the kernel completes what
\* it took; nobody else need wake this CPU.
Fairness == WF_vars(Run) /\ WF_vars(Signal) /\ \A k \in Request : WF_vars(Kernel(k))

Spec == Safe /\ Fairness

-----------------------------------------------------------------------------
(* Properties.                                                             *)

Having(stages) == {k \in Request : st[k] \in stages}

Task == {UserTask} \cup {SubmitTask(k) : k \in Request}
          \cup {FinishTask(k, ok) : k \in Request, ok \in BOOLEAN}

\* Every variable has its type.
TypeOK ==
  /\ pc[Me] \in {"boot", "signal", "clear", "reap", "decide", "tasks", "masked", "asleep", "dead"}
  /\ task_queue[Me] \in Seq(Task)
  /\ budget[Me] \in 0 .. TaskBatch
  /\ sem.tokens \in 0 .. MaxIo
  /\ kernel \subseteq Request /\ owed \subseteq Request
  /\ events \in Seq([request : Request, ok : BOOLEAN])
  /\ eventfd \in BOOLEAN
  /\ st \in [Request -> {"new", "waiting", "granted", "submitted", "done", "reaped", "refused",
                         "rejected", "value", "exception"}]
  /\ user \in BOOLEAN

\* Tokens lost: each refused request keeps its own.
Leaked == Cardinality(Having({"refused", "rejected"}))

\* Each token is free, held by one request from the moment it is let in until
\* its completion is reaped, or lost with a request the kernel refused: the
\* context, set up for max_io events, has room for every request that is let in.
TokensMatchRequests ==
  sem.tokens + Cardinality(Having({"granted", "submitted", "done"})) + Leaked = MaxIo

\* The CPU does not sleep on a completion unless the eventfd is readable, or
\* the kernel has still to signal it.
NoCompletionForgotten ==
  pc[Me] = "asleep" /\ events # <<>> => eventfd \/ owed # {}

\* The CPU does not sleep with a request waiting that a token could let in.
NoAdmissibleWaiterSleeps ==
  pc[Me] = "asleep" /\ sem.waiting # <<>> => sem.tokens = 0

Resolved(k) == st[k] \in {"value", "exception", "rejected"}

\* While the CPU sleeps, somebody attends to each request that user code made: the
\* kernel has it, its completion makes the eventfd readable, or every token is taken.
\* So when all is quiet all requests have been resolved, but for those that wait for
\* tokens that were lost.
EveryRequestIsAttended ==
  pc[Me] = "asleep" =>
    \A k \in Request :
      \/ st[k] = "new" \/ Resolved(k)
      \/ st[k] = "waiting" /\ sem.tokens = 0
      \/ st[k] = "submitted" /\ k \in kernel
      \/ st[k] = "done" /\ (eventfd \/ owed # {})

\* Each request that is submitted resolves its future, with a value or an
\* exception: "allows the future to be eventually resolved" (future.h:77-78).
EveryRequestResolves == \A k \in Request : st[k] # "new" ~> Resolved(k)

\* It does, whatever the kernel refuses, as long as a token is left and no signal
\* has ended the thread in io_getevents.
ResolvesWhileTokensLast ==
  \A k \in Request :
    st[k] # "new" ~> Resolved(k) \/ Leaked = MaxIo \/ pc[Me] = "dead"
=============================================================================
