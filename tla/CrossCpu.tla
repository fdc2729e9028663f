------------------------------ MODULE CrossCpu -----------------------------
(***************************************************************************)
(* Function calls between CPUs: OS::submit_to, the matrix of               *)
(* Cross_cpu_queue, the poll of all the queues a CPU shares with its peers *)
(* (OS::poll_queues) and the reactor loop that decides when a CPU sleeps.  *)
(*                                                                         *)
(* queues_[f][t] has a lane per direction: "tx" carries the calls from f   *)
(* to t, "rx" carries them back once they are answered.  A lane is a       *)
(* private deque of its producer (queue_buffer) and a lock-free ring.      *)
(*                                                                         *)
(* User code runs in three places: a task, the function of a call, and the *)
(* continuation of a completed call; it submits what it likes and returns. *)
(***************************************************************************)
EXTENDS StartUp, FiniteSets

CONSTANTS
  Call,            \* the calls user code may submit
  Origin, Target,  \* the CPU each call is made on and the one it is made to
  RingCapacity,    \* capacity<1024> of Unbounded_spsc_queue::queue
  FlushThreshold,  \* the 8 of Unbounded_spsc_queue::push
  PopBatch,        \* the 8 of Unbounded_spsc_queue::process
  Timed,           \* calls whose function may return the future of a timer
  NoCall, NoLane

ASSUME CrossCpuAssumption ==
  /\ Origin \in [Call -> Cpu]
  /\ Target \in [Call -> Cpu]
  /\ RingCapacity \in Nat \ {0}
  /\ FlushThreshold \in Nat \ {0}
  /\ PopBatch \in Nat \ {0}
  /\ Timed \subseteq Call
  /\ NoCall \notin Call

\* queues_[i][i] is constructed too; only the others are used.
Lane == {"tx", "rx"} \X Cpu \X Cpu
Link == {l \in Lane : l[2] # l[3]}

Producer(l) == IF l[1] = "tx" THEN l[2] ELSE l[3]
Consumer(l) == IF l[1] = "tx" THEN l[3] ELSE l[2]

ASSUME NoLaneAssumption == NoLane \notin Lane

VARIABLES
  peer,       \* the i of OS::poll_queues
  buf,        \* queue_buffer of each lane, its producer's own
  ring,       \* the ring of each lane
  flushing,   \* the lane whose flush() is under way on a CPU, after its first push
  handling,   \* calls popped by poll_tx whose process() has not returned yet
  user,       \* user code is on the CPU's stack
  last,       \* the call that user code submitted last
  st,         \* how far each call has got
  cont,       \* the call whose process() chained itself to this call's future
  parked,     \* calls whose function returned the future of a timer
  expired     \* timers that expired, per CPU, for the SIGALRM handler to find

crossVars == <<peer, buf, ring, flushing, handling, user, last, st, cont, parked, expired>>
vars == <<reactorVars, startVars, crossVars>>

\* Tasks: user code, a timer's task, and the two continuations poll_tx chains
\* to the future of a call (store the result, then respond_).
UserTask == [kind |-> "user", call |-> NoCall]
Task == {UserTask} \cup [kind : {"timer", "store", "respond"}, call : Call]
TaskOf(kind, k) == [kind |-> kind, call |-> k]
TasksOf(kind, calls) == [i \in 1 .. Len(calls) |-> TaskOf(kind, calls[i])]

Labels == Starting \cup
          {"boot", "signal", "clear", "flush_tx", "poll_rx", "flush_rx", "poll_tx",
           "handle", "decide", "tasks", "masked", "asleep"}

\* The loop of poll_queues: the first peer not below i, skipping c itself.
PeerFrom(c, i) == IF i = c THEN i + 1 ELSE i
PollLabel(c, i) == IF PeerFrom(c, i) < N THEN "flush_tx" ELSE "decide"

\* The four steps of an iteration, each on one lane shared with the peer.
PolledLane(c) ==
  CASE pc[c] = "flush_tx" -> <<"tx", c, peer[c]>>
    [] pc[c] = "poll_rx"  -> <<"rx", c, peer[c]>>
    [] pc[c] = "flush_rx" -> <<"rx", peer[c], c>>
    [] pc[c] = "poll_tx"  -> <<"tx", peer[c], c>>

Init ==
  /\ ReactorInit("construct", <<>>)
  /\ StartInit
  /\ peer = [c \in Cpu |-> 0]
  /\ buf = [l \in Lane |-> <<>>]
  /\ ring = [l \in Lane |-> <<>>]
  /\ flushing = [c \in Cpu |-> NoLane]
  /\ handling = [c \in Cpu |-> <<>>]
  /\ user = [c \in Cpu |-> FALSE]
  /\ last = [c \in Cpu |-> NoCall]
  /\ st = [k \in Call |-> "new"]
  /\ cont = [k \in Call |-> NoCall]
  /\ parked = {}
  /\ expired = [c \in Cpu |-> <<>>]

-----------------------------------------------------------------------------
(* Unbounded_spsc_queue.                                                   *)

\* A ring that takes one item too many.
HasRoomOffByOne(l) == Len(ring[l]) <= RingCapacity

HasRoom(l) == Len(ring[l]) < RingCapacity

\* A flush that takes the newest item first.
MoveLast(l, q) ==
  /\ ring' = [ring EXCEPT ![l] = Append(@, q[Len(q)])]
  /\ buf' = [buf EXCEPT ![l] = SubSeq(q, 1, Len(q) - 1)]

\* One turn of flush()'s loop with q in the deque.
MoveOne(l, q) ==
  /\ ring' = [ring EXCEPT ![l] = Append(@, Head(q))]
  /\ buf' = [buf EXCEPT ![l] = Tail(q)]

\* A flush that waits for FlushThreshold items, as push() does.
BeginFullFlush(c, l, q) ==
  IF Len(q) >= FlushThreshold /\ HasRoom(l)
    THEN MoveOne(l, q) /\ flushing' = [flushing EXCEPT ![c] = l]
    ELSE buf' = [buf EXCEPT ![l] = q] /\ UNCHANGED <<ring, flushing>>

\* flush() is called with q in the deque: if it moves nothing it returns false.
BeginFlush(c, l, q) ==
  IF q # <<>> /\ HasRoom(l)
    THEN MoveOne(l, q) /\ flushing' = [flushing EXCEPT ![c] = l]
    ELSE buf' = [buf EXCEPT ![l] = q] /\ UNCHANGED <<ring, flushing>>

\* push(): the deque is flushed once it holds FlushThreshold items.
Push(c, l, k) ==
  LET q == Append(buf[l], k)
  IN  IF Len(q) < FlushThreshold
        THEN buf' = [buf EXCEPT ![l] = q] /\ UNCHANGED <<ring, flushing>>
        ELSE BeginFlush(c, l, q)

FlushMore(c) ==
  /\ flushing[c] # NoLane
  /\ buf[flushing[c]] # <<>> /\ HasRoom(flushing[c])
  /\ MoveOne(flushing[c], buf[flushing[c]])
  /\ UNCHANGED <<reactorVars, peer, flushing, handling, user, last, st, cont, parked, expired>>

\* flush() returned true: flush_tx, flush_rx, submit_ and respond_ all wake the
\* consumer; the two that poll_queues called count as activity.
FlushEnd(c) ==
  /\ flushing[c] # NoLane
  /\ buf[flushing[c]] = <<>> \/ ~HasRoom(flushing[c])
  /\ Wakeup(Consumer(flushing[c]))
  /\ SetActive(c, pc[c] \in {"poll_rx", "poll_tx"})
  /\ flushing' = [flushing EXCEPT ![c] = NoLane]
  /\ UNCHANGED <<pc, task_queue, budget, pending_signals,
                 peer, buf, ring, handling, user, last, st, cont, parked, expired>>

\* process(): at most PopBatch items leave the ring at once.
Popped(l) == SubSeq(ring[l], 1, IF Len(ring[l]) < PopBatch THEN Len(ring[l]) ELSE PopBatch)

\* The items are read and stay in the ring.
PopWithoutRemoving(l) == UNCHANGED ring

Pop(l) == ring' = [ring EXCEPT ![l] = SubSeq(@, Len(Popped(l)) + 1, Len(@))]

-----------------------------------------------------------------------------
(* The reactor's own steps.  No step of a CPU happens inside a flush().    *)

NotFlushing(c) == flushing[c] = NoLane
otherVars == <<buf, ring, flushing, handling, user, last, st, cont, parked>>

\* App::run schedules the program on CPU 0.
Start(c) == StartUp(c, IF c = 0 THEN <<UserTask>> ELSE <<>>) /\ UNCHANGED crossVars

Boot(c) == InitPollers(c) /\ UNCHANGED crossVars

\* No CPU is signalled before all have started.
Signal(c) == pc[c] \notin Starting /\ Deliver(c) /\ UNCHANGED crossVars

\* Signal_poller::poll, after which poll_queues starts with the first peer.
PollSignals(c) ==
  /\ \/ LoadSignals(c, PollLabel(c, 0)) /\ UNCHANGED expired
     \/ /\ ClearSignals(c, PollLabel(c, 0), TasksOf("timer", expired[c]))
        /\ expired' = [expired EXCEPT ![c] = <<>>]
  /\ peer' = [peer EXCEPT ![c] = PeerFrom(c, 0)]
  /\ UNCHANGED otherVars

IdleOrRun(c) == Decide(c) /\ UNCHANGED crossVars

NextRound(c) == NotFlushing(c) /\ ~user[c] /\ EndBatch(c) /\ UNCHANGED crossVars

Sleep(c) == CheckPending(c) /\ UNCHANGED crossVars

-----------------------------------------------------------------------------
(* One iteration of OS::poll_queues.                                       *)

\* flush_tx of the lane to the peer, flush_rx of the lane it calls me on.
PollFlush(c) ==
  /\ pc[c] \in {"flush_tx", "flush_rx"} /\ NotFlushing(c)
  /\ BeginFlush(c, PolledLane(c), buf[PolledLane(c)])
  /\ Goto(c, IF pc[c] = "flush_tx" THEN "poll_rx" ELSE "poll_tx")
  /\ UNCHANGED <<cpu_active, task_queue, budget, raised, pending_signals,
                 peer, handling, user, last, st, cont, parked, expired>>

\* The completion of a nested call that nobody is told of.
LostContinuation(k) == UserTask

\* What a completed call schedules: the continuation user code attached to its
\* future, or the storing of the result of the call that returned that future.
Continuation(k) == IF cont[k] = NoCall THEN UserTask ELSE TaskOf("store", cont[k])

\* poll_rx: the answers that were popped resolve the futures of their calls.
PollRx(c) ==
  LET l == PolledLane(c)
      done == Popped(l)
  IN  /\ pc[c] = "poll_rx" /\ NotFlushing(c)
      /\ Pop(l)
      /\ st' = [k \in Call |->
                  IF \E i \in DOMAIN done : done[i] = k THEN "completed" ELSE st[k]]
      /\ Schedule(c, [i \in 1 .. Len(done) |-> Continuation(done[i])])
      /\ SetActive(c, done # <<>>)
      /\ Goto(c, "flush_rx")
      /\ UNCHANGED <<budget, raised, pending_signals,
                     peer, buf, flushing, handling, user, last, cont, parked, expired>>

\* poll_tx: the calls are popped together, then processed one by one.
PollTx(c) ==
  LET l == PolledLane(c)
  IN  /\ pc[c] = "poll_tx" /\ NotFlushing(c)
      /\ Pop(l)
      /\ handling' = [handling EXCEPT ![c] = Popped(l)]
      /\ SetActive(c, Popped(l) # <<>>)
      /\ Goto(c, "handle")
      /\ UNCHANGED <<task_queue, budget, raised, pending_signals,
                     peer, buf, flushing, user, last, st, cont, parked, expired>>

\* process() calls the function, which is user code ...
StartFn(c) ==
  /\ pc[c] = "handle" /\ ~user[c] /\ handling[c] # <<>>
  /\ st' = [st EXCEPT ![Head(handling[c])] = "executing"]
  /\ user' = [user EXCEPT ![c] = TRUE]
  /\ last' = [last EXCEPT ![c] = NoCall]
  /\ UNCHANGED <<reactorVars, peer, buf, ring, flushing, handling, cont, parked, expired>>

\* The function's future is taken for ready while the inner call is under way.
StoreAtOnce(c, k) ==
  /\ last[c] # NoCall
  /\ cont' = [cont EXCEPT ![last[c]] = k]
  /\ Schedule(c, <<TaskOf("store", k)>>)
  /\ UNCHANGED parked

\* The function returns the future of the call it submitted last.
AwaitInner(c, k) ==
  /\ last[c] # NoCall
  /\ cont' = [cont EXCEPT ![last[c]] = k]
  /\ UNCHANGED <<task_queue, parked>>

\* ... and chains the storing of the result to the future it returns: one that
\* is ready, an inner call's, or a timer's.
FnReturns(c) ==
  LET k == Head(handling[c])
  IN  /\ pc[c] = "handle" /\ user[c] /\ NotFlushing(c)
      /\ handling' = [handling EXCEPT ![c] = Tail(@)]
      /\ user' = [user EXCEPT ![c] = FALSE]
      /\ \/ Schedule(c, <<TaskOf("store", k)>>) /\ UNCHANGED <<cont, parked>>
         \/ AwaitInner(c, k)
         \/ /\ k \in Timed
            /\ parked' = parked \cup {k}
            /\ UNCHANGED <<task_queue, cont>>
      /\ UNCHANGED <<pc, cpu_active, budget, raised, pending_signals,
                     peer, buf, ring, flushing, last, st, expired>>

\* All calls of the batch are under way: the next peer, or out of poll_queues.
NextPeer(c) ==
  /\ pc[c] = "handle" /\ ~user[c] /\ handling[c] = <<>>
  /\ Goto(c, PollLabel(c, peer[c] + 1))
  /\ peer' = [peer EXCEPT ![c] = PeerFrom(c, @ + 1)]
  /\ UNCHANGED <<cpu_active, task_queue, budget, raised, pending_signals,
                 otherVars, expired>>

-----------------------------------------------------------------------------
(* OS::submit_to, and the tasks.                                           *)

Submit(c, k) ==
  /\ user[c] /\ NotFlushing(c)
  /\ st[k] = "new" /\ Origin[k] = c

\* Cross_cpu_queue::submit: into the queue to the target.
SubmitRemote(c, k) ==
  /\ Submit(c, k) /\ Target[k] # c
  /\ st' = [st EXCEPT ![k] = "submitted"]
  /\ last' = [last EXCEPT ![c] = k]
  /\ Push(c, <<"tx", c, Target[k]>>, k)
  /\ UNCHANGED <<reactorVars, peer, handling, user, cont, parked, expired>>

\* A call to this CPU is made at once, as a plain function call.
SubmitLocal(c, k) ==
  /\ Submit(c, k) /\ Target[k] = c
  /\ st' = [st EXCEPT ![k] = "completed"]
  /\ UNCHANGED <<reactorVars, peer, buf, ring, flushing, handling, user, last,
                 cont, parked, expired>>

RunUser(c) ==
  /\ TakeTask(c, <<>>) /\ Head(task_queue[c]).kind = "user"
  /\ user' = [user EXCEPT ![c] = TRUE]
  /\ last' = [last EXCEPT ![c] = NoCall]
  /\ UNCHANGED <<buf, ring, flushing, st>>

\* The timer's promise is fulfilled: its future has the storing chained to it.
RunTimer(c) ==
  /\ Head(task_queue[c]).kind = "timer"
  /\ TakeTask(c, <<TaskOf("store", Head(task_queue[c]).call)>>)
  /\ UNCHANGED <<user, last, buf, ring, flushing, st>>

\* Work_item_impl stores the result; the future process() returned resolves.
RunStore(c) ==
  LET k == Head(task_queue[c]).call
  IN  /\ Head(task_queue[c]).kind = "store"
      /\ TakeTask(c, <<TaskOf("respond", k)>>)
      /\ st' = [st EXCEPT ![k] = "stored"]
      /\ UNCHANGED <<user, last, buf, ring, flushing>>

\* Cross_cpu_queue::respond_: into the queue back to the origin.
RunRespond(c) ==
  LET k == Head(task_queue[c]).call
  IN  /\ Head(task_queue[c]).kind = "respond"
      /\ TakeTask(c, <<>>)
      /\ st' = [st EXCEPT ![k] = "responded"]
      /\ Push(c, <<"rx", Origin[k], c>>, k)
      /\ UNCHANGED <<user, last>>

RunTask(c) ==
  /\ NotFlushing(c) /\ ~user[c] /\ task_queue[c] # <<>>
  /\ RunUser(c) \/ RunTimer(c) \/ RunStore(c) \/ RunRespond(c)
  /\ UNCHANGED <<pc, cpu_active, raised, pending_signals,
                 peer, handling, cont, parked, expired>>

TaskReturns(c) ==
  /\ pc[c] = "tasks" /\ user[c] /\ NotFlushing(c)
  /\ user' = [user EXCEPT ![c] = FALSE]
  /\ UNCHANGED <<reactorVars, peer, buf, ring, flushing, handling, last, st,
                 cont, parked, expired>>

\* A timer's deadline passes: the kernel raises SIGALRM for the thread.
Expire(k) ==
  /\ k \in parked
  /\ parked' = parked \ {k}
  /\ expired' = [expired EXCEPT ![Target[k]] = Append(@, k)]
  /\ Wakeup(Target[k])
  /\ UNCHANGED <<pc, cpu_active, task_queue, budget, pending_signals,
                 peer, buf, ring, flushing, handling, user, last, st, cont>>

-----------------------------------------------------------------------------
\* What the thread of CPU c does of its own accord.
Running(c) ==
  \/ Boot(c) \/ PollSignals(c) \/ IdleOrRun(c) \/ NextRound(c) \/ Sleep(c)
  \/ FlushMore(c) \/ FlushEnd(c)
  \/ PollFlush(c) \/ PollRx(c) \/ PollTx(c) \/ StartFn(c) \/ FnReturns(c) \/ NextPeer(c)
  \/ RunTask(c) \/ TaskReturns(c)

Run(c) == Start(c) \/ (Running(c) /\ UNCHANGED startVars)

\* What it is made to do.
Event(c) == Signal(c) \/ \E k \in Call : SubmitRemote(c, k) \/ SubmitLocal(c, k)

Next ==
  \/ \E c \in Cpu : Run(c) \/ (Event(c) /\ UNCHANGED startVars)
  \/ \E k \in Call : Expire(k) /\ UNCHANGED startVars

Safe == Init /\ [][Next]_vars

\* The operating system schedules every thread and delivers signals, user code
\* returns, timers expire; user code need not submit anything.
Fairness ==
  /\ \A c \in Cpu : WF_vars(Run(c)) /\ WF_vars(Signal(c) /\ UNCHANGED startVars)
  /\ \A k \in Call : WF_vars(Expire(k) /\ UNCHANGED startVars)

Spec == Safe /\ Fairness

-----------------------------------------------------------------------------
(* Properties.                                                             *)

\* Every variable has its type; the rings hold no more than their capacity
\* (queue.push in flush() ignores a refusal: unbounded_spsc_queue.cpp:19).
TypeOK ==
  /\ pc \in [Cpu -> Labels]
  /\ cpu_active \in [Cpu -> BOOLEAN]
  /\ task_queue \in [Cpu -> Seq(Task)]
  /\ budget \in [Cpu -> 0 .. TaskBatch]
  /\ raised \in [Cpu -> BOOLEAN]
  /\ pending_signals \in [Cpu -> BOOLEAN]
  /\ peer \in [Cpu -> 0 .. N]
  /\ buf \in [Lane -> Seq(Call)]
  /\ ring \in [Lane -> Seq(Call)]
  /\ \A l \in Lane : Len(ring[l]) <= RingCapacity
  /\ flushing \in [Cpu -> Lane \cup {NoLane}]
  /\ handling \in [Cpu -> Seq(Call)]
  /\ user \in [Cpu -> BOOLEAN]
  /\ last \in [Cpu -> Call \cup {NoCall}]
  /\ st \in [Call -> {"new", "submitted", "executing", "stored", "responded", "completed"}]
  /\ cont \in [Call -> Call \cup {NoCall}]
  /\ parked \subseteq Call
  /\ expired \in [Cpu -> Seq(Call)]

\* Start-up ends on every CPU, and the program is run: no latch waits for a
\* thread that waits for another one.
ProgramStarts == (\A c \in Cpu : <>(pc[c] = "signal")) /\ <>user[0]

\* A CPU asleep in epoll_pwait with items waiting for it in a ring has been
\* signalled, or the producer is still inside the flush() that will signal it:
\* the comment "@fixme atomicty" of run_idle_proc_ (cpu.cpp:129) notwithstanding,
\* no wakeup is lost between the last poll and the wait.
NoLostWakeup ==
  \A l \in Link :
    ring[l] # <<>> /\ pc[Consumer(l)] = "asleep"
      => raised[Consumer(l)] \/ flushing[Producer(l)] = l

\* Nor is an expired timer slept through, and no runnable task is.
NothingRunnableAsleep ==
  \A c \in Cpu : pc[c] = "asleep" =>
    /\ task_queue[c] = <<>>
    /\ expired[c] # <<>> => raised[c]

InFlight(k) == st[k] \notin {"new", "completed"}

\* A CPU goes to sleep with calls left in a queue_buffer, the ring being full
\* (os.cpp:66, cpu.cpp:61).  The calls are not forgotten: the target still owes
\* an answer to an earlier call of this CPU, and its delivery wakes it.
StrandedCallsHaveForerunner ==
  \A l \in Lane :
    l[1] = "tx" /\ buf[l] # <<>> /\ pc[Producer(l)] = "asleep" /\ ~raised[Producer(l)]
      => \E k \in Call : /\ InFlight(k) /\ Origin[k] = l[2] /\ Target[k] = l[3]
                         /\ \A i \in DOMAIN buf[l] : buf[l][i] # k

\* When every CPU sleeps, no signal is under way and no timer is set, each call
\* that was submitted has completed, but for the answers that a full ring left
\* in their producer's queue_buffer, and the calls that wait for those.
Quiescent == /\ \A c \in Cpu : pc[c] = "asleep" /\ ~raised[c]
             /\ parked = {}

NoStrandedAnswer == \A l \in Lane : l[1] = "rx" => buf[l] = <<>>

QuietMeansDone ==
  Quiescent /\ NoStrandedAnswer => \A k \in Call : ~InFlight(k)

\* The answer of a call whose function returned the future of another call is
\* not produced before that other call has completed.
NestedAnswersAfterInner ==
  \A k \in Call : cont[k] # NoCall /\ st[cont[k]] \in {"stored", "responded", "completed"}
    => st[k] = "completed"

\* Where each call is on its way is one place only, and the stage it is at: no
\* call is lost, none is in two queues, none is run, answered or deleted twice.
Times(s, x) == Cardinality({i \in DOMAIN s : s[i] = x})
Unrun(c) == IF handling[c] # <<>> /\ user[c] THEN Tail(handling[c]) ELSE handling[c]
Route(k) == <<"tx", Origin[k], Target[k]>>
Back(k) == <<"rx", Origin[k], Target[k]>>

EachCallInOnePlace ==
  \A k \in Call : Origin[k] # Target[k] =>
    /\ Times(buf[Route(k)], k) + Times(ring[Route(k)], k) + Times(Unrun(Target[k]), k)
         = IF st[k] = "submitted" THEN 1 ELSE 0
    /\ Times(buf[Back(k)], k) + Times(ring[Back(k)], k)
         = IF st[k] = "responded" THEN 1 ELSE 0
    /\ Times(task_queue[Target[k]], TaskOf("respond", k))
         = IF st[k] = "stored" THEN 1 ELSE 0

\* The promise of submit_to: RemoteCalls is what the queues implement.
StageOf(k) == IF st[k] \in {"stored", "responded"} THEN "answered" ELSE st[k]

InboxOf(o, t) ==
  IF o = t THEN <<>>
  ELSE (IF peer[t] = o THEN Unrun(t) ELSE <<>>) \o ring[<<"tx", o, t>>] \o buf[<<"tx", o, t>>]

Abstract == INSTANCE RemoteCalls WITH
  Cpus <- Cpu,
  Losable <- {},
  MaxLost <- 1,
  stage <- [k \in Call |-> StageOf(k)],
  inbox <- [o \in Cpu |-> [t \in Cpu |-> InboxOf(o, t)]]

ImplementsRemoteCalls == Abstract!Safe
ImplementsFairRemoteCalls == Abstract!Spec

\* The future submit_to returns is eventually resolved: "the result of a
\* function that is executed on another cpu. A promise object allows the future
\* to be eventually resolved" (future.h:76-78).
EveryCallCompletes == \A k \in Call : InFlight(k) ~> st[k] = "completed"
=============================================================================
