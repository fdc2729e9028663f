------------------------------ MODULE Syscalls -----------------------------
(***************************************************************************)
(* The Syscall_runner of one CPU: system calls are handed to a worker      *)
(* thread through call_queue_, their results come back through             *)
(* result_queue_, a semaphore bounds how many are under way, an eventfd    *)
(* wakes the worker and SIGALRM wakes the CPU.                             *)
(*                                                                         *)
(* CPU 0 stands for the CPU; the others only send it SIGALRM.              *)
(***************************************************************************)
EXTENDS Reactor, Semaphore, Flattening, FiniteSets

CONSTANTS
  Call,        \* the system calls user code may submit
  QueueSize,   \* queue_size of Syscall_runner: tokens and slots of each ring
  Wrapped,     \* calls that return wrap_syscall(result, extra)
  Failing,     \* calls that the operating system may fail
  Errno        \* the errno of a system call that fails

ASSUME SyscallsAssumption ==
  /\ QueueSize \in Nat \ {0}
  /\ Wrapped \subseteq Call
  /\ Failing \subseteq Call
  /\ Errno \in Nat \ {0}

Me == 0

VARIABLES
  sem,        \* queue_has_room_
  calls,      \* call_queue_: the slots in use, run or not
  results,    \* result_queue_
  interrupt,  \* the count of interrupter_ is not zero
  worker,     \* where the worker thread is
  taken,      \* how many calls its consume_all has found
  done,       \* how many of those it has run
  st,         \* how far each call has got
  failed,     \* the system call itself failed
  outcome,    \* what ret_ holds
  user        \* user code is on the CPU's stack

workerVars == <<calls, results, interrupt, worker, taken, done, failed, outcome>>
vars == <<reactorVars, sem, workerVars, st, user>>

Task == [kind : {"user"}] \cup [kind : {"push"}, call : Call]
UserTask == [kind |-> "user"]
PushTask(k) == [kind |-> "push", call |-> k]

Init ==
  /\ ReactorInit("boot", <<UserTask>>)
  /\ sem = NewSemaphore(QueueSize)
  /\ calls = <<>> /\ results = <<>>
  /\ interrupt = FALSE
  /\ worker = "wait" /\ taken = 0 /\ done = 0
  /\ st = [k \in Call |-> "new"]
  /\ failed = [k \in Call |-> FALSE]
  /\ outcome = [k \in Call |-> "none"]
  /\ user = FALSE

-----------------------------------------------------------------------------
(* The loop of the CPU.                                                    *)

othersUnchanged == UNCHANGED <<sem, workerVars, st, user>>

Boot == InitPollers(Me) /\ othersUnchanged

Signal == Deliver(Me) /\ othersUnchanged

PollSignals ==
  /\ LoadSignals(Me, "results") \/ ClearSignals(Me, "results", <<>>)
  /\ othersUnchanged

IdleOrRun == Decide(Me) /\ othersUnchanged

NextRound == ~user /\ EndBatch(Me) /\ othersUnchanged

Sleep == CheckPending(Me) /\ othersUnchanged

\* Another CPU, or a timer, sends SIGALRM.
Poke == ~raised[Me] /\ Wakeup(Me) /\ othersUnchanged
        /\ UNCHANGED <<pc, cpu_active, task_queue, budget, pending_signals>>

-----------------------------------------------------------------------------
(* submit_ and poll_results, on the CPU.                                   *)

RunUser ==
  /\ ~user /\ task_queue[Me] # <<>> /\ Head(task_queue[Me]) = UserTask
  /\ TakeTask(Me, <<>>)
  /\ user' = TRUE
  /\ UNCHANGED <<pc, cpu_active, raised, pending_signals, sem, workerVars, st>>

TaskReturns ==
  /\ pc[Me] = "tasks" /\ user
  /\ user' = FALSE
  /\ UNCHANGED <<reactorVars, sem, workerVars, st>>

\* submit_ waits for room; a future that is ready still runs its continuation
\* as a task.
Submit(k) ==
  /\ user /\ st[k] = "new"
  /\ sem' = AfterWait(sem, 1, k)
  /\ IF Admits(sem, 1)
       THEN Schedule(Me, <<PushTask(k)>>) /\ st' = [st EXCEPT ![k] = "granted"]
       ELSE UNCHANGED task_queue /\ st' = [st EXCEPT ![k] = "waiting"]
  /\ UNCHANGED <<pc, cpu_active, budget, raised, pending_signals, workerVars, user>>

\* The continuation of submit_ pushes the call; a full ring refuses it, and
\* nobody looks.
RunPush ==
  LET k == Head(task_queue[Me]).call
  IN  /\ ~user /\ task_queue[Me] # <<>> /\ Head(task_queue[Me]).kind = "push"
      /\ TakeTask(Me, <<>>)
      /\ IF Len(calls) < QueueSize
           THEN calls' = Append(calls, k) /\ st' = [st EXCEPT ![k] = "queued"]
           ELSE UNCHANGED calls /\ st' = [st EXCEPT ![k] = "lost"]
      /\ Goto(Me, "interrupt")
      /\ UNCHANGED <<cpu_active, raised, pending_signals, sem, results, interrupt,
                     worker, taken, done, failed, outcome, user>>

\* Signals saved until the ring is full.
InterruptWhenFull ==
  /\ pc[Me] = "interrupt"
  /\ interrupt' = (interrupt \/ Len(calls) = QueueSize)
  /\ Goto(Me, "tasks")
  /\ UNCHANGED <<cpu_active, task_queue, budget, raised, pending_signals, sem,
                 calls, results, worker, taken, done, failed, outcome, st, user>>

\* The interrupter's signal comes after the push.
Interrupt ==
  /\ pc[Me] = "interrupt"
  /\ interrupt' = TRUE
  /\ Goto(Me, "tasks")
  /\ UNCHANGED <<cpu_active, task_queue, budget, raised, pending_signals, sem,
                 calls, results, worker, taken, done, failed, outcome, st, user>>

\* A release of no tokens that is left out.
ReleaseSome(n) == IF n = 0 THEN sem ELSE AfterRelease(sem, n)

\* release() is called whatever the number of results, none included.
Released(n) == AfterRelease(sem, n)

\* poll_results: every result there is resolves its future; then release()
\* lets at most one waiting call in.
PollResults ==
  LET n == Len(results)
      granted == IF Released(n).waiting = sem.waiting THEN {} ELSE {Head(sem.waiting).who}
  IN  /\ pc[Me] = "results"
      /\ results' = <<>>
      /\ sem' = Released(n)
      /\ st' = [k \in Call |->
                  CASE k \in granted -> "granted"
                    [] \E i \in 1 .. n : results[i] = k -> "completed"
                    [] OTHER -> st[k]]
      /\ Schedule(Me, [i \in 1 .. n |-> UserTask]
                        \o [i \in 1 .. Cardinality(granted) |-> PushTask(Head(sem.waiting).who)])
      /\ SetActive(Me, n > 0)
      /\ Goto(Me, "decide")
      /\ UNCHANGED <<budget, raised, pending_signals,
                     calls, interrupt, worker, taken, done, failed, outcome, user>>

-----------------------------------------------------------------------------
(* worker_run_, on the worker thread.                                      *)

cpuUnchanged == UNCHANGED <<pc, cpu_active, task_queue, budget, pending_signals, sem, user>>

WorkerWakes ==
  /\ worker = "wait" /\ interrupt
  /\ interrupt' = FALSE
  /\ worker' = "consume"
  /\ cpuUnchanged /\ UNCHANGED <<raised, calls, results, taken, done, failed, outcome, st>>

\* consume_all takes the calls that are in the ring when it starts.
Consume ==
  /\ worker = "consume"
  /\ taken' = Len(calls)
  /\ worker' = IF calls = <<>> THEN "wait" ELSE "process"
  /\ cpuUnchanged /\ UNCHANGED <<raised, calls, results, interrupt, done, failed, outcome, st>>

\* process(): the system call is made ...
StartCall ==
  LET k == calls[done + 1]
  IN  /\ worker = "process" /\ done < taken
      /\ st' = [st EXCEPT ![k] = "executing"]
      /\ worker' = "respond"
      /\ cpuUnchanged
      /\ UNCHANGED <<raised, calls, results, interrupt, taken, done, failed, outcome>>

\* wrap_syscall(result, extra) puts errno, which is positive, into the result's
\* error; an int, or a throw, is a failure as it is.
ErrorOf(k, fails) == IF ~fails THEN 0 ELSE IF k \in Wrapped THEN Errno ELSE -1

\* ... and ret_ holds an exception if the error is negative, else a value.
OutcomeOf(k, fails) == IF ErrorOf(k, fails) < 0 THEN "exception" ELSE "value"

\* respond_ pushes, and a full ring would refuse.
Respond ==
  LET k == calls[done + 1]
  IN  /\ worker = "respond"
      /\ \E fails \in BOOLEAN :
           /\ fails => k \in Failing
           /\ failed' = [failed EXCEPT ![k] = fails]
           /\ outcome' = [outcome EXCEPT ![k] = OutcomeOf(k, fails)]
      /\ IF Len(results) < QueueSize
           THEN results' = Append(results, k) /\ st' = [st EXCEPT ![k] = "answered"]
           ELSE UNCHANGED results /\ st' = [st EXCEPT ![k] = "lost"]
      /\ done' = done + 1
      /\ worker' = "process"
      /\ cpuUnchanged /\ UNCHANGED <<raised, calls, interrupt, taken>>

\* The slots are freed at once, when all calls of the batch have run.
FreeBatch ==
  /\ worker = "process" /\ done = taken
  /\ calls' = SubSeq(calls, taken + 1, Len(calls))
  /\ taken' = 0 /\ done' = 0
  /\ worker' = "wake"
  /\ cpuUnchanged /\ UNCHANGED <<raised, results, interrupt, failed, outcome, st>>

\* After a batch, and its wakeup, the worker looks for more before it waits.
WakeCpu ==
  /\ worker = "wake"
  /\ Wakeup(Me)
  /\ worker' = "consume"
  /\ cpuUnchanged
  /\ UNCHANGED <<calls, results, interrupt, taken, done, failed, outcome, st>>

-----------------------------------------------------------------------------
Run == \/ Boot \/ PollSignals \/ IdleOrRun \/ NextRound \/ Sleep
       \/ RunUser \/ TaskReturns \/ RunPush \/ Interrupt \/ PollResults

Work == WorkerWakes \/ Consume \/ StartCall \/ Respond \/ FreeBatch \/ WakeCpu

Next == Run \/ Signal \/ Work \/ Poke \/ \E k \in Call : Submit(k)

Safe == Init /\ [][Next]_vars

\* Both threads are scheduled, signals are delivered, system calls return;
\* nobody else need ever wake this CPU.
Fairness == WF_vars(Run) /\ WF_vars(Signal) /\ WF_vars(Work)

Spec == Safe /\ Fairness

-----------------------------------------------------------------------------
(* Properties.                                                             *)

InFlight == {k \in Call : st[k] \in {"granted", "queued", "executing", "answered", "lost"}}

\* Every variable has its type; neither ring holds more than QueueSize.
TypeOK ==
  /\ pc[Me] \in {"boot", "signal", "clear", "results", "decide", "tasks", "interrupt",
                 "masked", "asleep"}
  /\ \A i \in DOMAIN task_queue[Me] : task_queue[Me][i] \in Task
  /\ sem.tokens \in 0 .. QueueSize
  /\ calls \in Seq(Call) /\ Len(calls) <= QueueSize
  /\ results \in Seq(Call) /\ Len(results) <= QueueSize
  /\ interrupt \in BOOLEAN
  /\ worker \in {"wait", "consume", "process", "respond", "wake"}
  /\ 0 <= done /\ done <= taken /\ taken <= Len(calls)
  /\ st \in [Call -> {"new", "waiting", "granted", "queued", "executing", "answered",
                      "completed", "lost"}]
  /\ failed \in [Call -> BOOLEAN]
  /\ outcome \in [Call -> {"none", "value", "exception"}]
  /\ user \in BOOLEAN

\* A token is held by each call from the moment it is let in until its result
\* is polled, and by nothing else: release(nr) returns as many as were taken.
TokensMatchCalls == sem.tokens + Cardinality(InFlight) = QueueSize

\* respond_ ignores a refused push (syscall.cpp:42): the tokens see to it that
\* the ring of the results has room for every call the worker runs.
ResultsHaveRoom == worker = "respond" => Len(results) < QueueSize

\* The worker does not wait with calls in its ring, unless its eventfd is, or
\* is about to be, signalled.
NoCallForgotten ==
  calls # <<>> /\ worker = "wait" => interrupt \/ pc[Me] = "interrupt"

\* The CPU does not sleep with results in its ring, unless it is signalled or
\* the worker, still inside its batch, will signal it.
NoResultForgotten ==
  results # <<>> /\ pc[Me] = "asleep"
    => raised[Me] \/ worker \in {"process", "respond", "wake"}

\* The CPU does not sleep with a call waiting that a token could let in: that
\* needs the release() that poll_results makes for no results (syscall.cpp:29).
NoAdmissibleWaiterSleeps ==
  pc[Me] = "asleep" /\ sem.waiting # <<>> => sem.tokens = 0

\* While the CPU sleeps somebody attends to each call that user code made: the worker
\* has it or will be interrupted for it, its result comes with a signal, or every
\* token is taken.  So when all is quiet all calls have completed, those aside that
\* a full ring refused and those that wait for the tokens of these.
EveryCallIsAttended ==
  pc[Me] = "asleep" =>
    \A k \in Call :
      \/ st[k] \in {"new", "completed", "lost"}
      \/ st[k] = "waiting" /\ sem.tokens = 0
      \/ st[k] \in {"queued", "executing"} /\ (interrupt \/ worker # "wait")
      \/ st[k] = "answered" /\ (raised[Me] \/ worker \in {"process", "respond", "wake"})

\* The calls are run, once each, in the order they were submitted: what the queues
\* between two CPUs promise, the worker being the other end, but for the calls a
\* full ring refuses (syscall.cpp:37).  Every call that is not refused completes,
\* unless those that were hold every token: a refused call keeps its own, so
\* what waits for a token then waits forever.
StageOf(k) == IF st[k] \in {"waiting", "granted", "queued"} THEN "submitted" ELSE st[k]

Unrun == SubSeq(calls, done + (IF worker = "respond" THEN 2 ELSE 1), Len(calls))

CallsOf(t) == IF t = UserTask THEN <<>> ELSE <<t.call>>

Pushes == LET queue == task_queue[Me]
          IN  Seqs!FlattenSeq([i \in 1 .. Len(queue) |-> CallsOf(queue[i])])

Waiters == [i \in 1 .. Len(sem.waiting) |-> sem.waiting[i].who]

ToDo == Unrun \o Pushes \o Waiters

Abstract == INSTANCE RemoteCalls WITH
  Cpus <- {"cpu", "worker"},
  Losable <- Call,
  MaxLost <- QueueSize,
  Origin <- [k \in Call |-> "cpu"],
  Target <- [k \in Call |-> "worker"],
  stage <- [k \in Call |-> StageOf(k)],
  inbox <- [o \in {"cpu", "worker"} |-> [t \in {"cpu", "worker"} |->
              IF o = "cpu" /\ t = "worker" THEN ToDo ELSE <<>>]]

ImplementsFairRemoteCalls == Abstract!Spec

\* Every system call that is submitted completes: "run syscall in background
\* thread" (syscall.h:76).
EverySyscallCompletes ==
  \A k \in Call : st[k] # "new" ~> st[k] = "completed"

\* A system call that fails resolves its future with an exception, as
\* process() means to: "throw_system_error_if(r.error < 0)" (syscall.h:110).
FailuresAreReported ==
  \A k \in Call : st[k] \in {"answered", "completed"} /\ failed[k] => outcome[k] = "exception"
=============================================================================
