------------------------------ MODULE Reactor ------------------------------
(***************************************************************************)
(* The thread of one CPU: the poll / run-a-batch / go-idle loop of         *)
(* CPU::run (lib/cpu.cpp), the bit SIGALRM sets in pending_signals_, and   *)
(* the idle procedure that blocks in epoll_pwait.                          *)
(*                                                                         *)
(* The module holds what every CPU does whatever its pollers are; the      *)
(* modules that EXTEND it add the pollers' own steps between "signal" and  *)
(* "decide" and the bodies of the tasks.  A step of this module is one     *)
(* access to state another thread or the kernel can change.                *)
(***************************************************************************)
EXTENDS Integers, Sequences

CONSTANTS N,          \* Configuration::cpu_count
          TaskBatch   \* batch_size of CPU::run, 8 in the code

ASSUME ReactorAssumption ==
  /\ N \in Nat \ {0}
  /\ TaskBatch \in Nat \ {0}

Cpu == 0 .. N - 1

VARIABLES
  pc,               \* where each CPU's thread is
  cpu_active,       \* the local flag of CPU::run: some poller found work
  task_queue,       \* CPU::task_queue_
  budget,           \* tasks the current batch may still run
  raised,           \* SIGALRM is pending for the thread in the kernel
  pending_signals   \* CPU::pending_signals_ has the SIGALRM bit

reactorVars == <<pc, cpu_active, task_queue, budget, raised, pending_signals>>

ReactorInit(label, tasks) ==
  /\ pc = [c \in Cpu |-> label]
  /\ cpu_active = [c \in Cpu |-> FALSE]
  /\ task_queue = [c \in Cpu |-> tasks]
  /\ budget = [c \in Cpu |-> 0]
  /\ raised = [c \in Cpu |-> FALSE]
  /\ pending_signals = [c \in Cpu |-> FALSE]

Goto(c, label) == pc' = [pc EXCEPT ![c] = label]

Schedule(c, tasks) == task_queue' = [task_queue EXCEPT ![c] = @ \o tasks]

SetActive(c, b) == cpu_active' = [cpu_active EXCEPT ![c] = @ \/ b]

\* A wakeup that is forgotten.
ForgottenWakeup(c) == UNCHANGED raised

\* pthread_kill(SIGALRM): a standard signal, so a second one is merged.
Wakeup(c) == raised' = [raised EXCEPT ![c] = TRUE]

-----------------------------------------------------------------------------
\* init_pollers_: SIGALRM was blocked since the constructor of Timer_service;
\* one raised meanwhile is still pending when it is unblocked here.
InitPollers(c) ==
  /\ pc[c] = "boot"
  /\ Goto(c, "signal")
  /\ UNCHANGED <<cpu_active, task_queue, budget, raised, pending_signals>>

\* dispatch_signal runs on the thread as soon as SIGALRM is not blocked; it is
\* blocked before init_pollers_ and from the first line of run_idle_proc_ to
\* epoll_pwait, which unblocks it for the duration of the wait and returns
\* EINTR once a handler has run.
Deliver(c) ==
  /\ raised[c]
  /\ pc[c] \notin {"boot", "masked"}
  /\ raised' = [raised EXCEPT ![c] = FALSE]
  /\ pending_signals' = [pending_signals EXCEPT ![c] = TRUE]
  /\ pc' = [pc EXCEPT ![c] = IF @ = "asleep" THEN "signal" ELSE @]
  /\ UNCHANGED <<cpu_active, task_queue, budget>>

\* Signal_poller::poll up to the load of the pending signals.
LoadSignals(c, rest) ==
  /\ pc[c] = "signal"
  /\ Goto(c, IF pending_signals[c] THEN "clear" ELSE rest)
  /\ UNCHANGED <<cpu_active, task_queue, budget, raised, pending_signals>>

\* The rest of Signal_poller::poll: the bits that were read are cleared, then
\* their handlers run; tasks is what the SIGALRM handler schedules.
ClearSignals(c, rest, tasks) ==
  /\ pc[c] = "clear"
  /\ pending_signals' = [pending_signals EXCEPT ![c] = FALSE]
  /\ SetActive(c, TRUE)
  /\ Schedule(c, tasks)
  /\ Goto(c, rest)
  /\ UNCHANGED <<budget, raised>>

\* The test of CPU::run with the answer of the pollers forgotten.
IdleIgnoringPollers(c) == task_queue[c] = <<>>

\* After the pollers: go idle when there is nothing to run and no poller was
\* active, else run a batch; cpu_active is not read again.
Idle(c) == task_queue[c] = <<>> /\ ~cpu_active[c]

Decide(c) ==
  /\ pc[c] = "decide"
  /\ IF Idle(c)
       THEN Goto(c, "masked") /\ UNCHANGED budget
       ELSE Goto(c, "tasks") /\ budget' = [budget EXCEPT ![c] = TaskBatch]
  /\ cpu_active' = [cpu_active EXCEPT ![c] = FALSE]
  /\ UNCHANGED <<task_queue, raised, pending_signals>>

\* A batch of one task too many.
TakeOneMore(c, tasks) ==
  /\ pc[c] = "tasks"
  /\ budget[c] >= 0 /\ task_queue[c] # <<>>
  /\ task_queue' = [task_queue EXCEPT ![c] = Tail(@) \o tasks]
  /\ budget' = [budget EXCEPT ![c] = @ - 1]

\* The head of the queue is taken out and counted against the batch.
TakeTask(c, tasks) ==
  /\ pc[c] = "tasks"
  /\ budget[c] > 0 /\ task_queue[c] # <<>>
  /\ task_queue' = [task_queue EXCEPT ![c] = Tail(@) \o tasks]
  /\ budget' = [budget EXCEPT ![c] = @ - 1]

\* The batch is used up or the queue is empty: back to the top of the loop.
EndBatch(c) ==
  /\ pc[c] = "tasks"
  /\ budget[c] = 0 \/ task_queue[c] = <<>>
  /\ budget' = [budget EXCEPT ![c] = 0]
  /\ Goto(c, "signal")
  /\ UNCHANGED <<cpu_active, task_queue, raised, pending_signals>>

\* The idle procedure without its check of pending_signals_.
UncheckedSleep(c) ==
  /\ pc[c] = "masked"
  /\ Goto(c, "asleep")
  /\ UNCHANGED <<cpu_active, task_queue, budget, raised, pending_signals>>

\* run_idle_proc_ once all signals are blocked: return at once if a signal was
\* handled before they were, else wait in epoll_pwait.
CheckPending(c) ==
  /\ pc[c] = "masked"
  /\ Goto(c, IF pending_signals[c] THEN "signal" ELSE "asleep")
  /\ UNCHANGED <<cpu_active, task_queue, budget, raised, pending_signals>>
=============================================================================
