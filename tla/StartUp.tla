------------------------------ MODULE StartUp ------------------------------
(***************************************************************************)
(* OS::init: a thread per CPU constructs its CPU; once all are there the   *)
(* thread of CPU 0 builds the matrix of Cross_cpu_queue, which refers to   *)
(* every CPU; once it is built all enter CPU::run.  Three latches hold the *)
(* threads back, and App::run schedules the program on CPU 0 behind them.  *)
(*                                                                         *)
(* A latch is the set of the CPUs that have arrived at it.                 *)
(***************************************************************************)
EXTENDS Reactor

Latch == {"cpu_constructed", "queue_constructed", "started"}
Starting == Latch \cup {"construct", "build"}

VARIABLES
  constructed,   \* CPUs whose entry of cpus_ is set
  arrived,       \* per latch
  built          \* queues_ is there

startVars == <<constructed, arrived, built>>

StartInit ==
  /\ constructed = {}
  /\ arrived = [latch \in Latch |-> {}]
  /\ built = FALSE

\* start_cpu_.
Construct(c) ==
  /\ pc[c] = "construct"
  /\ constructed' = constructed \cup {c}
  /\ Goto(c, "cpu_constructed")
  /\ UNCHANGED <<task_queue, arrived, built>>

\* arrive_and_wait counts the latch down ...
Arrive(c) ==
  /\ pc[c] \in Latch /\ c \notin arrived[pc[c]]
  /\ arrived' = [arrived EXCEPT ![pc[c]] = @ \cup {c}]
  /\ UNCHANGED <<pc, task_queue, constructed, built>>

\* A latch that the first thread opens.
OpensAtOnce(latch) == arrived[latch] # {}

\* ... and lets nobody through before all have arrived.
Open(latch) == arrived[latch] = Cpu

WaitOver(c, latch) == pc[c] = latch /\ c \in arrived[latch] /\ Open(latch)

Proceed(c) ==
  /\ \/ /\ WaitOver(c, "cpu_constructed")
        /\ Goto(c, IF c = 0 THEN "build" ELSE "queue_constructed")
     \/ /\ WaitOver(c, "queue_constructed")
        /\ Goto(c, "started")
  /\ UNCHANGED <<task_queue, startVars>>

\* Building the queues without arriving at their latch.
BuildOnly(c) ==
  /\ pc[c] = "build"
  /\ built' = TRUE
  /\ Goto(c, "started")
  /\ UNCHANGED <<task_queue, constructed, arrived>>

Build(c) ==
  /\ pc[c] = "build"
  /\ built' = TRUE
  /\ Goto(c, "queue_constructed")
  /\ UNCHANGED <<task_queue, constructed, arrived>>

\* To CPU::run; tasks is what App::run schedules.
Started(c, tasks) ==
  /\ WaitOver(c, "started")
  /\ Schedule(c, tasks)
  /\ Goto(c, "boot")
  /\ UNCHANGED startVars

StartUp(c, tasks) ==
  /\ Construct(c) \/ Arrive(c) \/ Proceed(c) \/ Build(c) \/ Started(c, tasks)
  /\ UNCHANGED <<cpu_active, budget, raised, pending_signals>>

StartTypeOK ==
  /\ constructed \subseteq Cpu
  /\ arrived \in [Latch -> SUBSET Cpu]
  /\ built \in BOOLEAN

\* A CPU polls the queues only when they are built, and they are built on CPUs
\* that are all there, so "assert(cpus_[i])" (os.cpp:35) holds.
StartsInOrder ==
  /\ \A c \in Cpu : pc[c] \notin Starting => built
  /\ built \/ (\E c \in Cpu : pc[c] = "build") => constructed = Cpu
=============================================================================
