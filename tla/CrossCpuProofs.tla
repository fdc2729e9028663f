--------------------------- MODULE CrossCpuProofs --------------------------
(***************************************************************************)
(* Type correctness of CrossCpu, and the proof that no CPU sleeps through  *)
(* a wakeup, for any number of CPUs and calls and any size of the queues.  *)
(***************************************************************************)
EXTENDS CrossCpu, SequenceTheorems, TLAPS

\* While poll_queues is under way its peer is another CPU.
Polling == {"flush_tx", "poll_rx", "flush_rx", "poll_tx", "handle"}

PeerOK == \A c \in Cpu : pc[c] \in Polling => peer[c] \in Cpu \ {c}

\* User code runs inside a task or inside the process() of a popped call.
UserOK == \A c \in Cpu : user[c] => \/ pc[c] = "tasks"
                                    \/ pc[c] = "handle" /\ handling[c] # <<>>

Typing == TypeOK /\ StartTypeOK /\ PeerOK /\ UserOK

-----------------------------------------------------------------------------
(* The steps there are, and what those of the start-up change.             *)

LEMMA Steps ==
  ASSUME [Next]_vars
  PROVE  \/ UNCHANGED vars
         \/ \E c \in Cpu : Start(c)
         \/ /\ UNCHANGED startVars
            /\ \/ \E c \in Cpu : Running(c) \/ Signal(c)
               \/ \E c \in Cpu, k \in Call : SubmitRemote(c, k) \/ SubmitLocal(c, k)
               \/ \E k \in Call : Expire(k)
BY DEF Next, Run, Event

\* A step of start-up moves one CPU, from a label of start-up to another or out
\* of it, and may put a task into its queue.
LEMMA StartFacts ==
  ASSUME TypeOK, NEW c \in Cpu, Start(c)
  PROVE  /\ UNCHANGED <<cpu_active, budget, raised, pending_signals, crossVars>>
         /\ pc[c] \in Starting
         /\ pc' \in [Cpu -> Labels]
         /\ pc'[c] \in Starting \cup {"boot"}
         /\ \A p \in Cpu : p # c => pc'[p] = pc[p] /\ task_queue'[p] = task_queue[p]
         /\ task_queue' \in [Cpu -> Seq(Task)]
<1>1. pc \in [Cpu -> Labels] /\ task_queue \in [Cpu -> Seq(Task)]
  BY DEF TypeOK
<1>2. UNCHANGED <<cpu_active, budget, raised, pending_signals, crossVars>>
  BY DEF Start, StartUp
<1> DEFINE t == IF c = 0 THEN <<UserTask>> ELSE <<>>
<1>3. CASE Construct(c) \/ Arrive(c) \/ Proceed(c) \/ Build(c)
  BY <1>1, <1>2, <1>3
     DEF Construct, Arrive, Proceed, Build, WaitOver, Goto, Starting, Latch, Labels
<1>4. CASE Started(c, t)
  <2>1. t \in Seq(Task)
    <3>1. <<>> \in Seq(Task)
      BY EmptySeq
    <3>2. <<UserTask>> \in Seq(Task)
      BY DEF Task
    <3> QED BY <3>1, <3>2
  <2> HIDE DEF t
  <2>2. task_queue[c] \o t \in Seq(Task)
    BY <1>1, <2>1, ConcatProperties
  <2> QED BY <1>1, <1>2, <1>4, <2>2
          DEF Started, WaitOver, Schedule, Goto, Starting, Latch, Labels
<1> QED BY <1>3, <1>4 DEF Start, StartUp

-----------------------------------------------------------------------------
(* What the operations on the queues keep and change.                      *)

\* A lane's ring after Pop is a part of it; what was popped are calls.
LEMMA PopFacts ==
  ASSUME TypeOK, NEW l \in Lane, Pop(l)
  PROVE  /\ Popped(l) \in Seq(Call)
         /\ ring' \in [Lane -> Seq(Call)]
         /\ \A m \in Lane : Len(ring'[m]) <= RingCapacity
         /\ \A m \in Lane : m # l => ring'[m] = ring[m]
         /\ ring'[l] # <<>> => Popped(l) # <<>>
<1> DEFINE s == ring[l]
           n == IF Len(s) < PopBatch THEN Len(s) ELSE PopBatch
           r == SubSeq(s, Len(Popped(l)) + 1, Len(s))
<1>1. s \in Seq(Call) /\ Len(s) <= RingCapacity
  BY DEF TypeOK
<1>2. /\ Len(s) \in Nat
      /\ \A i \in 1 .. Len(s) : s[i] \in Call
  BY <1>1, LenProperties
<1>3. n \in Nat /\ n <= Len(s) /\ (Len(s) > 0 => n > 0)
  BY <1>2, CrossCpuAssumption
<1>4. Popped(l) \in Seq(Call) /\ Len(Popped(l)) = n
  <2>1. Popped(l) = SubSeq(s, 1, n)
    BY DEF Popped
  <2>2. \A i \in 1 .. n : s[i] \in Call
    BY <1>2, <1>3
  <2> HIDE DEF n, s
  <2>3. SubSeq(s, 1, n) \in Seq(Call)
        /\ Len(SubSeq(s, 1, n)) = IF 1 <= n THEN n - 1 + 1 ELSE 0
    BY <1>3, <2>2, SubSeqProperties
  <2> QED BY <1>3, <2>1, <2>3
<1>5. r \in Seq(Call) /\ Len(r) = Len(s) - n
  <2>1. \A i \in n + 1 .. Len(s) : s[i] \in Call
    BY <1>2, <1>3
  <2> HIDE DEF n, s
  <2>2. SubSeq(s, n + 1, Len(s)) \in Seq(Call)
        /\ Len(SubSeq(s, n + 1, Len(s))) = IF n + 1 <= Len(s) THEN Len(s) - (n + 1) + 1 ELSE 0
    BY <1>2, <1>3, <2>1, SubSeqProperties
  <2> QED BY <1>2, <1>3, <1>4, <2>2
<1> HIDE DEF n
<1>6. ring' = [ring EXCEPT ![l] = r]
  BY DEF Pop
<1>7. r # <<>> => Len(s) > 0
  BY <1>2, <1>3, <1>5, EmptySeq
<1>8. n > 0 => Popped(l) # <<>>
  BY <1>4, EmptySeq
<1>9. Len(r) <= RingCapacity
  BY <1>1, <1>2, <1>3, <1>5, CrossCpuAssumption
<1> HIDE DEF r, s
<1> QED BY <1>3, <1>4, <1>5, <1>6, <1>7, <1>8, <1>9 DEF TypeOK

\* flush() moves the deque's items to its own lane's ring, and when it moves
\* one the CPU is inside that flush.
LEMMA MoveFacts ==
  ASSUME TypeOK, NEW l \in Lane, NEW q \in Seq(Call), q # <<>>, HasRoom(l), MoveOne(l, q)
  PROVE  /\ buf' \in [Lane -> Seq(Call)]
         /\ ring' \in [Lane -> Seq(Call)]
         /\ \A m \in Lane : Len(ring'[m]) <= RingCapacity
         /\ \A m \in Lane : m # l => ring'[m] = ring[m]
<1>1. Head(q) \in Call /\ Tail(q) \in Seq(Call)
  BY HeadTailProperties
<1>2. ring[l] \in Seq(Call) /\ Len(ring[l]) \in Nat
  BY LenProperties DEF TypeOK
<1>3. Append(ring[l], Head(q)) \in Seq(Call)
      /\ Len(Append(ring[l], Head(q))) = Len(ring[l]) + 1
  BY <1>1, <1>2, AppendProperties
<1>4. Len(ring[l]) + 1 <= RingCapacity
  BY <1>2, CrossCpuAssumption DEF HasRoom
<1> QED BY <1>1, <1>3, <1>4 DEF TypeOK, MoveOne

LEMMA FlushFacts ==
  ASSUME TypeOK, NEW c \in Cpu, NEW l \in Lane, NEW q \in Seq(Call), BeginFlush(c, l, q)
  PROVE  /\ buf' \in [Lane -> Seq(Call)]
         /\ ring' \in [Lane -> Seq(Call)]
         /\ \A m \in Lane : Len(ring'[m]) <= RingCapacity
         /\ flushing' \in [Cpu -> Lane \cup {NoLane}]
         /\ \A m \in Lane : ring'[m] = ring[m] \/ (m = l /\ flushing'[c] = l)
         /\ \A p \in Cpu : p # c => flushing'[p] = flushing[p]
         /\ flushing'[c] \in {flushing[c], l}
<1>1. CASE q # <<>> /\ HasRoom(l)
  <2>1. MoveOne(l, q) /\ flushing' = [flushing EXCEPT ![c] = l]
    BY <1>1 DEF BeginFlush
  <2>2. /\ buf' \in [Lane -> Seq(Call)]
        /\ ring' \in [Lane -> Seq(Call)]
        /\ \A m \in Lane : Len(ring'[m]) <= RingCapacity
        /\ \A m \in Lane : m # l => ring'[m] = ring[m]
    BY <1>1, <2>1, MoveFacts
  <2> QED BY <2>1, <2>2 DEF TypeOK
<1>2. CASE ~(q # <<>> /\ HasRoom(l))
  BY <1>2 DEF BeginFlush, TypeOK
<1> QED BY <1>1, <1>2

LEMMA PushFacts ==
  ASSUME TypeOK, NEW c \in Cpu, NEW l \in Lane, NEW k \in Call, Push(c, l, k)
  PROVE  /\ buf' \in [Lane -> Seq(Call)]
         /\ ring' \in [Lane -> Seq(Call)]
         /\ \A m \in Lane : Len(ring'[m]) <= RingCapacity
         /\ flushing' \in [Cpu -> Lane \cup {NoLane}]
         /\ \A m \in Lane : ring'[m] = ring[m] \/ (m = l /\ flushing'[c] = l)
         /\ \A p \in Cpu : p # c => flushing'[p] = flushing[p]
         /\ flushing'[c] \in {flushing[c], l}
<1> DEFINE q == Append(buf[l], k)
<1>1. q \in Seq(Call)
  BY AppendProperties DEF TypeOK
<1>2. CASE Len(q) < FlushThreshold
  BY <1>1, <1>2 DEF Push, TypeOK
<1>3. CASE ~(Len(q) < FlushThreshold)
  <2>1. BeginFlush(c, l, q)
    BY <1>3 DEF Push
  <2> HIDE DEF q
  <2> QED BY <1>1, <2>1, FlushFacts
<1> QED BY <1>2, <1>3

\* Putting tasks at the end of a CPU's queue.
LEMMA ScheduleFacts ==
  ASSUME TypeOK, NEW c \in Cpu, NEW t \in Seq(Task), Schedule(c, t)
  PROVE  task_queue' \in [Cpu -> Seq(Task)]
<1>1. task_queue[c] \o t \in Seq(Task)
  BY ConcatProperties DEF TypeOK
<1> QED BY <1>1 DEF Schedule, TypeOK

\* Taking its head and putting tasks at the end.
LEMMA TakeFacts ==
  ASSUME TypeOK, NEW c \in Cpu, NEW t \in Seq(Task), TakeTask(c, t)
  PROVE  /\ task_queue' \in [Cpu -> Seq(Task)]
         /\ budget' \in [Cpu -> 0 .. TaskBatch]
         /\ Head(task_queue[c]) \in Task
         /\ pc[c] = "tasks"
<1>1. task_queue[c] \in Seq(Task) /\ task_queue[c] # <<>>
  BY DEF TypeOK, TakeTask
<1>2. Head(task_queue[c]) \in Task /\ Tail(task_queue[c]) \in Seq(Task)
  BY <1>1, HeadTailProperties
<1>3. Tail(task_queue[c]) \o t \in Seq(Task)
  BY <1>2, ConcatProperties
<1>4. budget[c] - 1 \in 0 .. TaskBatch
  BY ReactorAssumption DEF TypeOK, TakeTask
<1> QED BY <1>2, <1>3, <1>4 DEF TakeTask, TypeOK

LEMMA TasksOfType ==
  ASSUME NEW s \in Seq(Call), NEW kind \in {"timer", "store", "respond"}
  PROVE  TasksOf(kind, s) \in Seq(Task)
<1>1. Len(s) \in Nat /\ \A i \in 1 .. Len(s) : s[i] \in Call
  BY LenProperties
<1>2. \A i \in 1 .. Len(s) : TaskOf(kind, s[i]) \in Task
  BY <1>1 DEF Task, TaskOf
<1> DEFINE f == [i \in 1 .. Len(s) |-> TaskOf(kind, s[i])]
<1>3. f \in [1 .. Len(s) -> Task]
  BY <1>2
<1> HIDE DEF f
<1>4. f \in Seq(Task)
  BY <1>1, <1>3
<1> QED BY <1>4 DEF TasksOf, f

\* The continuation of a completed call is a task.
LEMMA ContinuationsType ==
  ASSUME TypeOK, NEW s \in Seq(Call)
  PROVE  [i \in 1 .. Len(s) |-> Continuation(s[i])] \in Seq(Task)
<1>1. Len(s) \in Nat /\ \A i \in 1 .. Len(s) : s[i] \in Call
  BY LenProperties
<1>2. \A k \in Call : Continuation(k) \in Task
  BY DEF TypeOK, Continuation, Task, TaskOf
<1> DEFINE f == [i \in 1 .. Len(s) |-> Continuation(s[i])]
<1>3. f \in [1 .. Len(s) -> Task]
  BY <1>1, <1>2
<1> HIDE DEF f
<1>4. f \in Seq(Task)
  BY <1>1, <1>3
<1> QED BY <1>4 DEF f

-----------------------------------------------------------------------------
(* Where poll_queues goes next.                                            *)

LEMMA PeerFacts ==
  ASSUME NEW c \in Cpu, NEW i \in 0 .. N
  PROVE  /\ PeerFrom(c, i) \in 0 .. N
         /\ PollLabel(c, i) = "flush_tx" => PeerFrom(c, i) \in Cpu \ {c}
         /\ PollLabel(c, i) \in {"flush_tx", "decide"}
         /\ \A p \in Cpu : p # c /\ p >= i => p >= PeerFrom(c, i)
         /\ PollLabel(c, i) = "decide" => \A p \in Cpu : p # c => p < i
BY ReactorAssumption DEF PeerFrom, PollLabel, Cpu

LEMMA PolledLaneType ==
  ASSUME Typing, NEW c \in Cpu, pc[c] \in {"flush_tx", "poll_rx", "flush_rx", "poll_tx"}
  PROVE  /\ PolledLane(c) \in Lane
         /\ peer[c] \in Cpu \ {c}
         /\ pc[c] = "flush_tx" => PolledLane(c) = <<"tx", c, peer[c]>>
         /\ pc[c] = "poll_rx" => PolledLane(c) = <<"rx", c, peer[c]>>
         /\ pc[c] = "flush_rx" => PolledLane(c) = <<"rx", peer[c], c>>
         /\ pc[c] = "poll_tx" => PolledLane(c) = <<"tx", peer[c], c>>
<1>1. peer[c] \in Cpu \ {c}
  BY DEF Typing, PeerOK, Polling
<1> QED BY <1>1 DEF PolledLane, Lane

-----------------------------------------------------------------------------
(* Type correctness.                                                       *)

LEMMA TypingInit == Init => Typing
<1> SUFFICES ASSUME Init PROVE Typing
  OBVIOUS
<1>1. 0 \in Cpu /\ N \in Nat
  BY ReactorAssumption DEF Cpu
<1>2. <<>> \in Seq(Call) /\ <<>> \in Seq(Task) /\ Len(<<>>) = 0
  BY EmptySeq
<1>4. \A l \in Lane : Len(ring[l]) <= RingCapacity
  BY <1>2, CrossCpuAssumption DEF Init
<1>5. PeerOK
  BY DEF Init, ReactorInit, PeerOK, Polling
<1>6. UserOK
  BY DEF Init, UserOK
<1>7. TypeOK
  BY <1>1, <1>2, <1>4, ReactorAssumption DEF Init, ReactorInit, TypeOK, Labels, Starting
<1>8. StartTypeOK
  BY DEF Init, StartInit, StartTypeOK
<1> QED BY <1>5, <1>6, <1>7, <1>8 DEF Typing

LEMMA TypingStart ==
  ASSUME Typing, NEW c \in Cpu, Start(c)
  PROVE  Typing'
<1>1. TypeOK'
  BY StartFacts DEF Typing, TypeOK, crossVars
<1>2. PeerOK'
  BY StartFacts DEF Typing, PeerOK, Polling, Starting, Latch, crossVars
<1>3. UserOK'
  <2>1. ~user[c]
    BY StartFacts DEF Typing, UserOK, Starting, Latch
  <2> QED BY <2>1, StartFacts DEF Typing, UserOK, crossVars
<1>4. StartTypeOK'
  BY DEF Typing, Start, StartUp, Construct, Arrive, Proceed, Build, Started, startVars, StartTypeOK
<1> QED BY <1>1, <1>2, <1>3, <1>4 DEF Typing

LEMMA TypingReactor ==
  ASSUME Typing, NEW c \in Cpu,
         Boot(c) \/ Signal(c) \/ PollSignals(c) \/ IdleOrRun(c) \/ NextRound(c) \/ Sleep(c)
  PROVE  TypeOK' /\ PeerOK'
<1> USE DEF Typing
<1>1. CASE Boot(c)
  BY <1>1 DEF Boot, InitPollers, Goto, crossVars, TypeOK, PeerOK, Polling, Labels
<1>2. CASE Signal(c)
  BY <1>2 DEF Signal, Deliver, crossVars, TypeOK, PeerOK, Polling, Labels
<1>3. CASE PollSignals(c)
  <2>1. /\ PeerFrom(c, 0) \in 0 .. N
        /\ PollLabel(c, 0) \in Labels
        /\ PollLabel(c, 0) \in Polling => PeerFrom(c, 0) \in Cpu \ {c}
    <3>1. 0 \in 0 .. N
      BY ReactorAssumption
    <3> QED BY <3>1, PeerFacts DEF Labels, Polling
  <2>2. /\ peer' = [peer EXCEPT ![c] = PeerFrom(c, 0)]
        /\ UNCHANGED otherVars
    BY <1>3 DEF PollSignals
  <2>3. CASE LoadSignals(c, PollLabel(c, 0)) /\ UNCHANGED expired
    <3>1. /\ pc' = [pc EXCEPT ![c] = IF pending_signals[c] THEN "clear" ELSE PollLabel(c, 0)]
          /\ UNCHANGED <<cpu_active, task_queue, budget, raised, pending_signals, expired>>
      BY <2>3 DEF LoadSignals, Goto
    <3> QED BY <2>1, <2>2, <3>1 DEF otherVars, TypeOK, PeerOK, Polling, Labels
  <2>4. CASE /\ ClearSignals(c, PollLabel(c, 0), TasksOf("timer", expired[c]))
             /\ expired' = [expired EXCEPT ![c] = <<>>]
    <3>1. /\ pc' = [pc EXCEPT ![c] = PollLabel(c, 0)]
          /\ pending_signals' = [pending_signals EXCEPT ![c] = FALSE]
          /\ cpu_active' = [cpu_active EXCEPT ![c] = @ \/ TRUE]
          /\ Schedule(c, TasksOf("timer", expired[c]))
          /\ UNCHANGED <<budget, raised>>
      BY <2>4 DEF ClearSignals, Goto, SetActive
    <3>2. TasksOf("timer", expired[c]) \in Seq(Task)
      BY TasksOfType DEF TypeOK
    <3>3. task_queue' \in [Cpu -> Seq(Task)]
      BY <3>1, <3>2, ScheduleFacts
    <3>4. expired' \in [Cpu -> Seq(Call)]
      BY <2>4, EmptySeq DEF TypeOK
    <3> QED BY <2>1, <2>2, <3>1, <3>3, <3>4 DEF otherVars, TypeOK, PeerOK, Polling, Labels
  <2> QED BY <1>3, <2>3, <2>4 DEF PollSignals
<1>4. CASE IdleOrRun(c)
  <2>1. /\ cpu_active' = [cpu_active EXCEPT ![c] = FALSE]
        /\ UNCHANGED <<task_queue, raised, pending_signals, crossVars>>
    BY <1>4 DEF IdleOrRun, Decide
  <2>2. /\ budget' \in [Cpu -> 0 .. TaskBatch]
        /\ \/ pc' = [pc EXCEPT ![c] = "masked"]
           \/ pc' = [pc EXCEPT ![c] = "tasks"]
    <3>1. CASE Idle(c)
      BY <1>4, <3>1 DEF IdleOrRun, Decide, Idle, Goto, TypeOK
    <3>2. CASE ~Idle(c)
      <4>1. pc' = [pc EXCEPT ![c] = "tasks"] /\ budget' = [budget EXCEPT ![c] = TaskBatch]
        BY <1>4, <3>2 DEF IdleOrRun, Decide, Goto
      <4> QED BY <4>1, ReactorAssumption DEF TypeOK
    <3> QED BY <3>1, <3>2
  <2> QED BY <2>1, <2>2 DEF crossVars, TypeOK, PeerOK, Polling, Labels
<1>5. CASE NextRound(c)
  BY <1>5, ReactorAssumption
     DEF NextRound, EndBatch, Goto, crossVars, TypeOK, PeerOK, Polling, Labels
<1>6. CASE Sleep(c)
  BY <1>6 DEF Sleep, CheckPending, Goto, crossVars, TypeOK, PeerOK, Polling, Labels
<1> QED BY <1>1, <1>2, <1>3, <1>4, <1>5, <1>6

LEMMA TypingPoll ==
  ASSUME Typing, NEW c \in Cpu,
         FlushMore(c) \/ FlushEnd(c) \/ PollFlush(c) \/ PollRx(c) \/ PollTx(c) \/ NextPeer(c)
  PROVE  TypeOK' /\ PeerOK'
<1> USE DEF Typing
<1>1. CASE FlushMore(c)
  <2> DEFINE l == flushing[c]
  <2>1. l \in Lane /\ buf[l] \in Seq(Call) /\ buf[l] # <<>>
    BY <1>1 DEF FlushMore, TypeOK
  <2>2. /\ buf' \in [Lane -> Seq(Call)]
        /\ ring' \in [Lane -> Seq(Call)]
        /\ \A m \in Lane : Len(ring'[m]) <= RingCapacity
    BY <1>1, <2>1, MoveFacts DEF FlushMore
  <2> QED BY <1>1, <2>2 DEF FlushMore, reactorVars, TypeOK, PeerOK
<1>2. CASE FlushEnd(c)
  <2>1. Consumer(flushing[c]) \in Cpu
    BY <1>2 DEF FlushEnd, TypeOK, Lane, Consumer
  <2> QED BY <1>2, <2>1 DEF FlushEnd, Wakeup, SetActive, TypeOK, PeerOK
<1>3. CASE PollFlush(c)
  <2>1. PolledLane(c) \in Lane /\ peer[c] \in Cpu \ {c}
    BY <1>3, PolledLaneType DEF PollFlush
  <2>2. buf[PolledLane(c)] \in Seq(Call)
    BY <2>1 DEF TypeOK
  <2>3. /\ buf' \in [Lane -> Seq(Call)]
        /\ ring' \in [Lane -> Seq(Call)]
        /\ \A m \in Lane : Len(ring'[m]) <= RingCapacity
        /\ flushing' \in [Cpu -> Lane \cup {NoLane}]
    BY <1>3, <2>1, <2>2, FlushFacts DEF PollFlush
  <2> QED BY <1>3, <2>1, <2>3 DEF PollFlush, Goto, TypeOK, PeerOK, Polling, Labels
<1>4. CASE PollRx(c)
  <2> DEFINE l == PolledLane(c)
             done == Popped(l)
             tasks == [i \in 1 .. Len(done) |-> Continuation(done[i])]
  <2>1. l \in Lane /\ peer[c] \in Cpu \ {c}
    BY <1>4, PolledLaneType DEF PollRx
  <2>2. /\ Pop(l)
        /\ st' = [k \in Call |->
                    IF \E i \in DOMAIN done : done[i] = k THEN "completed" ELSE st[k]]
        /\ Schedule(c, tasks)
        /\ SetActive(c, done # <<>>)
        /\ Goto(c, "flush_rx")
        /\ UNCHANGED <<budget, raised, pending_signals,
                       peer, buf, flushing, handling, user, last, cont, parked, expired>>
    BY <1>4 DEF PollRx
  <2> HIDE DEF l
  <2>3. /\ done \in Seq(Call)
        /\ ring' \in [Lane -> Seq(Call)]
        /\ \A m \in Lane : Len(ring'[m]) <= RingCapacity
    BY <2>1, <2>2, PopFacts
  <2>4. task_queue' \in [Cpu -> Seq(Task)]
    <3>1. tasks \in Seq(Task)
      BY <2>3, ContinuationsType
    <3> QED BY <2>2, <3>1, ScheduleFacts
  <2> HIDE DEF tasks
  <2>5. st' \in [Call -> {"new", "submitted", "executing", "stored", "responded", "completed"}]
    BY <2>2 DEF TypeOK
  <2> HIDE DEF done
  <2>6. cpu_active' \in [Cpu -> BOOLEAN]
    BY <2>2 DEF SetActive, TypeOK
  <2> QED BY <2>1, <2>2, <2>3, <2>4, <2>5, <2>6 DEF Goto, TypeOK, PeerOK, Polling, Labels
<1>5. CASE PollTx(c)
  <2> DEFINE l == PolledLane(c)
             s == Popped(l)
  <2>1. l \in Lane /\ peer[c] \in Cpu \ {c}
    BY <1>5, PolledLaneType DEF PollTx
  <2>2. /\ Pop(l)
        /\ handling' = [handling EXCEPT ![c] = s]
        /\ SetActive(c, s # <<>>)
        /\ Goto(c, "handle")
        /\ UNCHANGED <<task_queue, budget, raised, pending_signals,
                       peer, buf, flushing, user, last, st, cont, parked, expired>>
    BY <1>5 DEF PollTx
  <2> HIDE DEF l
  <2>3. /\ s \in Seq(Call)
        /\ ring' \in [Lane -> Seq(Call)]
        /\ \A m \in Lane : Len(ring'[m]) <= RingCapacity
    BY <2>1, <2>2, PopFacts
  <2> HIDE DEF s
  <2> QED BY <2>1, <2>2, <2>3 DEF Goto, SetActive, TypeOK, PeerOK, Polling, Labels
<1>6. CASE NextPeer(c)
  <2>1. peer[c] \in Cpu /\ peer[c] + 1 \in 0 .. N
    BY <1>6, ReactorAssumption DEF NextPeer, PeerOK, Polling, Cpu
  <2>2. /\ PeerFrom(c, peer[c] + 1) \in 0 .. N
        /\ PollLabel(c, peer[c] + 1) \in Labels
        /\ PollLabel(c, peer[c] + 1) \in Polling => PeerFrom(c, peer[c] + 1) \in Cpu \ {c}
    BY <2>1, PeerFacts DEF Labels, Polling
  <2>3. /\ pc' = [pc EXCEPT ![c] = PollLabel(c, peer[c] + 1)]
        /\ peer' = [peer EXCEPT ![c] = PeerFrom(c, peer[c] + 1)]
        /\ UNCHANGED <<cpu_active, task_queue, budget, raised, pending_signals, otherVars, expired>>
    BY <1>6 DEF NextPeer, Goto, TypeOK
  <2> QED BY <2>2, <2>3 DEF otherVars, TypeOK, PeerOK, Polling, Labels
<1> QED BY <1>1, <1>2, <1>3, <1>4, <1>5, <1>6

LEMMA TypingFn ==
  ASSUME Typing, NEW c \in Cpu, StartFn(c) \/ FnReturns(c) \/ TaskReturns(c)
  PROVE  TypeOK' /\ PeerOK'
<1> USE DEF Typing
<1>1. CASE StartFn(c)
  BY <1>1 DEF StartFn, reactorVars, TypeOK, PeerOK
<1>2. CASE FnReturns(c)
  <2> DEFINE j == Head(handling[c])
  <2>1. /\ handling' = [handling EXCEPT ![c] = Tail(@)]
        /\ user' = [user EXCEPT ![c] = FALSE]
        /\ UNCHANGED <<pc, cpu_active, budget, raised, pending_signals,
                       peer, buf, ring, flushing, last, st, expired>>
        /\ pc[c] = "handle" /\ handling[c] # <<>>
    BY <1>2 DEF FnReturns, UserOK
  <2>2. j \in Call /\ handling' \in [Cpu -> Seq(Call)]
    BY <2>1, HeadTailProperties DEF TypeOK
  <2>3. /\ task_queue' \in [Cpu -> Seq(Task)]
        /\ cont' \in [Call -> Call \cup {NoCall}]
        /\ parked' \subseteq Call
    <3> HIDE DEF j
    <3>1. CASE Schedule(c, <<TaskOf("store", j)>>) /\ UNCHANGED <<cont, parked>>
      <4>1. <<TaskOf("store", j)>> \in Seq(Task)
        BY <2>2 DEF Task, TaskOf
      <4> QED BY <3>1, <4>1, ScheduleFacts DEF TypeOK
    <3>2. CASE AwaitInner(c, j)
      BY <2>2, <3>2 DEF AwaitInner, TypeOK
    <3>3. CASE parked' = parked \cup {j} /\ UNCHANGED <<task_queue, cont>>
      BY <2>2, <3>3 DEF TypeOK
    <3> QED BY <1>2, <3>1, <3>2, <3>3 DEF FnReturns, j
  <2> HIDE DEF j
  <2> QED BY <2>1, <2>2, <2>3 DEF TypeOK, PeerOK
<1>3. CASE TaskReturns(c)
  BY <1>3 DEF TaskReturns, reactorVars, TypeOK, PeerOK
<1> QED BY <1>1, <1>2, <1>3

LEMMA TypingSubmit ==
  ASSUME Typing, NEW c \in Cpu, NEW k \in Call, SubmitRemote(c, k) \/ SubmitLocal(c, k)
  PROVE  TypeOK' /\ PeerOK'
<1> USE DEF Typing
<1>1. CASE SubmitRemote(c, k)
  <2>1. <<"tx", c, Target[k]>> \in Lane
    BY CrossCpuAssumption DEF Lane
  <2>2. /\ buf' \in [Lane -> Seq(Call)]
        /\ ring' \in [Lane -> Seq(Call)]
        /\ \A m \in Lane : Len(ring'[m]) <= RingCapacity
        /\ flushing' \in [Cpu -> Lane \cup {NoLane}]
    BY <1>1, <2>1, PushFacts DEF SubmitRemote
  <2> QED BY <1>1, <2>2 DEF SubmitRemote, reactorVars, TypeOK, PeerOK
<1>2. CASE SubmitLocal(c, k)
  BY <1>2 DEF SubmitLocal, reactorVars, TypeOK, PeerOK
<1> QED BY <1>1, <1>2

LEMMA TypingExpire ==
  ASSUME Typing, NEW k \in Call, Expire(k)
  PROVE  TypeOK' /\ PeerOK'
<1> USE DEF Typing
<1>1. Target[k] \in Cpu
  BY CrossCpuAssumption
<1>2. Append(expired[Target[k]], k) \in Seq(Call)
  BY <1>1, AppendProperties DEF TypeOK
<1> QED BY <1>1, <1>2 DEF Expire, Wakeup, TypeOK, PeerOK

LEMMA TypingTask ==
  ASSUME Typing, NEW c \in Cpu, RunTask(c)
  PROVE  TypeOK' /\ PeerOK'
<1> USE DEF Typing
<1> DEFINE k == Head(task_queue[c]).call
<1>1. /\ ~user[c]
      /\ UNCHANGED <<pc, cpu_active, raised, pending_signals,
                     peer, handling, cont, parked, expired>>
  BY DEF RunTask
<1>2. \A j \in Call : TaskOf("respond", j) \in Task /\ TaskOf("store", j) \in Task
  BY DEF Task, TaskOf
<1>3. CASE RunUser(c)
  <2>1. <<>> \in Seq(Task)
    BY EmptySeq
  <2>2. /\ task_queue' \in [Cpu -> Seq(Task)]
        /\ budget' \in [Cpu -> 0 .. TaskBatch]
        /\ pc[c] = "tasks"
    BY <1>3, <2>1, TakeFacts DEF RunUser
  <2> QED BY <1>1, <1>3, <2>2 DEF RunUser, TypeOK, PeerOK
<1>4. CASE RunTimer(c) \/ RunStore(c) \/ RunRespond(c)
  <2>0. task_queue[c] \in Seq(Task) /\ task_queue[c] # <<>>
    BY DEF RunTask, TypeOK
  <2>1. Head(task_queue[c]) \in Task /\ Head(task_queue[c]).kind \in {"timer", "store", "respond"}
    BY <1>4, <2>0, HeadTailProperties DEF RunTimer, RunStore, RunRespond
  <2>2. k \in Call
    BY <2>1 DEF Task, UserTask
  <2>3. CASE RunTimer(c)
    <3>1. <<TaskOf("store", k)>> \in Seq(Task)
      BY <1>2, <2>2
    <3>2. /\ task_queue' \in [Cpu -> Seq(Task)]
          /\ budget' \in [Cpu -> 0 .. TaskBatch]
      BY <2>3, <3>1, TakeFacts DEF RunTimer
    <3> QED BY <1>1, <2>3, <3>2 DEF RunTimer, TypeOK, PeerOK
  <2>4. CASE RunStore(c)
    <3>1. <<TaskOf("respond", k)>> \in Seq(Task)
      BY <1>2, <2>2
    <3>2. /\ task_queue' \in [Cpu -> Seq(Task)]
          /\ budget' \in [Cpu -> 0 .. TaskBatch]
      BY <2>4, <3>1, TakeFacts DEF RunStore
    <3> QED BY <1>1, <2>4, <3>2 DEF RunStore, TypeOK, PeerOK
  <2>5. CASE RunRespond(c)
    <3>1. <<"rx", Origin[k], c>> \in Lane
      BY <2>2, CrossCpuAssumption DEF Lane
    <3>2. /\ buf' \in [Lane -> Seq(Call)]
          /\ ring' \in [Lane -> Seq(Call)]
          /\ \A m \in Lane : Len(ring'[m]) <= RingCapacity
          /\ flushing' \in [Cpu -> Lane \cup {NoLane}]
      BY <2>2, <2>5, <3>1, PushFacts DEF RunRespond
    <3>3. <<>> \in Seq(Task)
      BY EmptySeq
    <3>4. /\ task_queue' \in [Cpu -> Seq(Task)]
          /\ budget' \in [Cpu -> 0 .. TaskBatch]
      BY <2>5, <3>3, TakeFacts DEF RunRespond
    <3> QED BY <1>1, <2>5, <3>2, <3>4 DEF RunRespond, TypeOK, PeerOK
  <2> QED BY <1>4, <2>3, <2>4, <2>5
<1> QED BY <1>3, <1>4 DEF RunTask

\* User code is entered and left where UserOK says; nothing else moves the CPU
\* out of those places.
LEMMA UserStep ==
  ASSUME Typing, [Next]_vars, ~(\E c \in Cpu : Start(c))
  PROVE  UserOK'
<1> USE DEF Typing
<1> SUFFICES ASSUME NEW p \in Cpu, user[p]'
             PROVE  (pc[p] = "tasks" \/ (pc[p] = "handle" /\ handling[p] # <<>>))'
  BY DEF UserOK
<1>0. /\ user[p] => pc[p] = "tasks" \/ (pc[p] = "handle" /\ handling[p] # <<>>)
      /\ user \in [Cpu -> BOOLEAN] /\ pc \in [Cpu -> Labels] /\ handling \in [Cpu -> Seq(Call)]
  BY DEF UserOK, TypeOK
<1> HIDE DEF Typing
<1>1. CASE UNCHANGED <<pc, user, handling>>
  BY <1>0, <1>1
<1>2. ASSUME NEW c \in Cpu, Boot(c) \/ Signal(c) \/ PollSignals(c) \/ IdleOrRun(c) \/ NextRound(c) \/ Sleep(c)
      PROVE  pc'[p] = "tasks" \/ (pc'[p] = "handle" /\ handling'[p] # <<>>)
  <2>1. UNCHANGED <<user, handling>>
    BY <1>2 DEF Boot, Signal, PollSignals, IdleOrRun, NextRound, Sleep, crossVars, otherVars
  <2>2. p # c => pc'[p] = pc[p]
    BY <1>0, <1>2 DEF Boot, Signal, PollSignals, IdleOrRun, NextRound, Sleep, InitPollers, Deliver,
      LoadSignals, ClearSignals, Decide, EndBatch, CheckPending, Goto
  <2>3. user[c] => pc'[c] = pc[c]
    <3> SUFFICES ASSUME user[c] PROVE pc'[c] = pc[c]
      OBVIOUS
    <3>1. pc[c] \in {"tasks", "handle"}
      BY DEF Typing, UserOK
    <3>2. Signal(c)
      BY <1>2, <3>1 DEF Boot, PollSignals, IdleOrRun, NextRound, Sleep, InitPollers,
        LoadSignals, ClearSignals, Decide, EndBatch, CheckPending
    <3> QED BY <1>0, <3>1, <3>2 DEF Signal, Deliver
  <2> QED BY <1>0, <2>1, <2>2, <2>3
<1>3. ASSUME NEW c \in Cpu, PollFlush(c) \/ PollRx(c) \/ PollTx(c) \/ NextPeer(c)
      PROVE  pc'[p] = "tasks" \/ (pc'[p] = "handle" /\ handling'[p] # <<>>)
  <2>1. UNCHANGED user /\ ~user[c]
    BY <1>3 DEF Typing, UserOK, PollFlush, PollRx, PollTx, NextPeer, otherVars
  <2>2. p # c => pc'[p] = pc[p] /\ handling'[p] = handling[p]
    BY <1>0, <1>3 DEF PollFlush, PollRx, PollTx, NextPeer, otherVars, Goto
  <2> QED BY <1>0, <2>1, <2>2
<1>4. ASSUME NEW c \in Cpu, StartFn(c) \/ FnReturns(c)
      PROVE  pc'[p] = "tasks" \/ (pc'[p] = "handle" /\ handling'[p] # <<>>)
  BY <1>0, <1>4 DEF StartFn, FnReturns, reactorVars
<1>5. ASSUME NEW c \in Cpu, FlushMore(c) \/ FlushEnd(c) \/ TaskReturns(c)
      PROVE  pc'[p] = "tasks" \/ (pc'[p] = "handle" /\ handling'[p] # <<>>)
  BY <1>0, <1>5 DEF FlushMore, FlushEnd, TaskReturns, reactorVars
<1>6. ASSUME NEW c \in Cpu, RunTask(c)
      PROVE  pc'[p] = "tasks" \/ (pc'[p] = "handle" /\ handling'[p] # <<>>)
  <2>1. pc[c] = "tasks" /\ UNCHANGED <<pc, handling>>
    BY <1>6 DEF RunTask, RunUser, RunTimer, RunStore, RunRespond, TakeTask
  <2>2. p # c => user'[p] = user[p]
    BY <1>0, <1>6 DEF RunTask, RunUser, RunTimer, RunStore, RunRespond
  <2> QED BY <1>0, <2>1, <2>2
<1>7. ASSUME NEW k \in Call, Expire(k) \/ \E c \in Cpu : SubmitRemote(c, k) \/ SubmitLocal(c, k)
      PROVE  UNCHANGED <<pc, user, handling>>
  BY <1>7 DEF Expire, SubmitRemote, SubmitLocal, reactorVars
<1> QED BY <1>1, <1>2, <1>3, <1>4, <1>5, <1>6, <1>7, Steps
        DEF Running, vars, reactorVars, crossVars

LEMMA TypingStutter == Typing /\ UNCHANGED vars => Typing'
BY DEF Typing, vars, reactorVars, startVars, crossVars, TypeOK, StartTypeOK, PeerOK, UserOK

\* The type invariant holds throughout: no step of any CPU, of the kernel or of
\* user code takes a variable out of its type, puts a ring over its capacity or
\* makes poll_queues touch a queue of a CPU with itself.
LEMMA TypingStep == Typing /\ [Next]_vars => Typing'
<1> SUFFICES ASSUME Typing, [Next]_vars PROVE Typing'
  OBVIOUS
<1>1. CASE UNCHANGED vars
  BY <1>1, TypingStutter
<1>2. CASE \E c \in Cpu : Start(c)
  BY <1>2, TypingStart
<1>3. ASSUME NEW c \in Cpu, Running(c) \/ Signal(c) PROVE TypeOK' /\ PeerOK'
  <2>1. CASE RunTask(c)
    BY <2>1, TypingTask
  <2>2. CASE Boot(c) \/ Signal(c) \/ PollSignals(c) \/ IdleOrRun(c) \/ NextRound(c) \/ Sleep(c)
    BY <2>2, TypingReactor
  <2>3. CASE FlushMore(c) \/ FlushEnd(c) \/ PollFlush(c) \/ PollRx(c) \/ PollTx(c) \/ NextPeer(c)
    BY <2>3, TypingPoll
  <2>4. CASE StartFn(c) \/ FnReturns(c) \/ TaskReturns(c)
    BY <2>4, TypingFn
  <2> QED BY <1>3, <2>1, <2>2, <2>3, <2>4 DEF Running
<1>4. ASSUME NEW c \in Cpu, NEW k \in Call, SubmitRemote(c, k) \/ SubmitLocal(c, k)
      PROVE TypeOK' /\ PeerOK'
  BY <1>4, TypingSubmit
<1>5. ASSUME NEW k \in Call, Expire(k) PROVE TypeOK' /\ PeerOK'
  BY <1>5, TypingExpire
<1>6. UNCHANGED startVars => StartTypeOK'
  BY DEF Typing, StartTypeOK, startVars
<1> QED BY <1>1, <1>2, <1>3, <1>4, <1>5, <1>6, UserStep, Steps DEF Typing

THEOREM TypeCorrect == Safe => []TypeOK
<1>1. Typing => TypeOK
  BY DEF Typing
<1> QED BY <1>1, TypingInit, TypingStep, PTL DEF Safe

-----------------------------------------------------------------------------
(* No CPU sleeps through a wakeup.                                         *)

\* The other end of a lane, seen from its consumer.
Far(l) == Producer(l)

\* Before it next decides whether to sleep, CPU c polls lane l, it being its
\* consumer: the round of polls has yet to start, or has not got to l.
WillPoll(c, l) ==
  \/ pc[c] \in Starting \cup {"boot", "signal", "clear", "tasks"}
  \/ pc[c] \in Polling /\ peer[c] < Far(l)
  \/ peer[c] = Far(l) /\ l[1] = "rx" /\ pc[c] \in {"flush_tx", "poll_rx"}
  \/ peer[c] = Far(l) /\ l[1] = "tx" /\ pc[c] \in {"flush_tx", "poll_rx", "flush_rx", "poll_tx"}

\* What keeps the consumer of a ring that is not empty from sleeping on it.
Awaited(l) ==
  ring[l] # <<>> =>
    \/ WillPoll(Consumer(l), l)
    \/ cpu_active[Consumer(l)]
    \/ raised[Consumer(l)] \/ pending_signals[Consumer(l)]
    \/ flushing[Producer(l)] = l

\* The same for the timers that have expired.
TimersAwaited == \A c \in Cpu : expired[c] # <<>> => raised[c] \/ pending_signals[c]

\* On its way to sleep a CPU has nothing to run, and asleep no pending signal.
IdleOK ==
  \A c \in Cpu :
    /\ pc[c] \in {"masked", "asleep"} => ~cpu_active[c] /\ task_queue[c] = <<>>
    /\ pc[c] = "asleep" => ~pending_signals[c]

\* A CPU flushes only lanes it produces into.
FlushOwn == \A c \in Cpu : flushing[c] # NoLane => Producer(flushing[c]) = c

WakeInv == TimersAwaited /\ IdleOK /\ FlushOwn /\ \A l \in Link : Awaited(l)

LEMMA LinkFacts ==
  ASSUME NEW l \in Link
  PROVE  /\ l \in Lane
         /\ Producer(l) \in Cpu /\ Consumer(l) \in Cpu /\ Producer(l) # Consumer(l)
         /\ l[1] \in {"tx", "rx"}
         /\ l[1] = "tx" => l = <<"tx", Producer(l), Consumer(l)>>
         /\ l[1] = "rx" => l = <<"rx", Consumer(l), Producer(l)>>
  BY DEF Link, Lane, Producer, Consumer

LEMMA WakeInvSafe ==
  ASSUME Typing, WakeInv
  PROVE  NoLostWakeup /\ NothingRunnableAsleep
<1>1. NothingRunnableAsleep
  BY DEF WakeInv, TimersAwaited, IdleOK, NothingRunnableAsleep
<1>2. ASSUME NEW l \in Link, ring[l] # <<>>, pc[Consumer(l)] = "asleep"
      PROVE  raised[Consumer(l)] \/ flushing[Producer(l)] = l
  <2>1. Consumer(l) \in Cpu
    BY LinkFacts
  <2>2. ~WillPoll(Consumer(l), l)
    BY <1>2 DEF WillPoll, Polling, Starting, Latch
  <2>3. ~cpu_active[Consumer(l)] /\ ~pending_signals[Consumer(l)]
    BY <1>2, <2>1 DEF WakeInv, IdleOK
  <2> QED BY <1>2, <2>2, <2>3 DEF WakeInv, Awaited
<1> QED BY <1>1, <1>2 DEF NoLostWakeup

LEMMA WakeInit == Init => WakeInv
BY LinkFacts DEF Init, ReactorInit, WakeInv, TimersAwaited, IdleOK, FlushOwn, Awaited, WillPoll,
  Starting

\* TimersAwaited and IdleOK: only Deliver takes a raised signal, into
\* pending_signals_, and only the Signal_poller takes that, with the timers; and
\* a CPU puts tasks into its queue and finds activity only while it is awake.
LEMMA SleepStep ==
  ASSUME Typing, TimersAwaited, IdleOK, [Next]_vars
  PROVE  TimersAwaited' /\ IdleOK'
<1> USE DEF TimersAwaited, IdleOK
<1>0. /\ pc \in [Cpu -> Labels] /\ cpu_active \in [Cpu -> BOOLEAN]
      /\ raised \in [Cpu -> BOOLEAN] /\ pending_signals \in [Cpu -> BOOLEAN]
      /\ task_queue \in [Cpu -> Seq(Task)] /\ expired \in [Cpu -> Seq(Call)]
  BY DEF Typing, TypeOK
<1>1. ASSUME UNCHANGED vars PROVE TimersAwaited' /\ IdleOK'
  BY <1>1 DEF vars, reactorVars, crossVars
<1>2. ASSUME NEW c \in Cpu, Running(c) \/ Signal(c) PROVE TimersAwaited' /\ IdleOK'
  <2>1. CASE Boot(c)
    BY <1>0, <2>1 DEF Boot, InitPollers, Goto, crossVars
  <2>2. CASE Signal(c)
    BY <1>0, <2>2 DEF Signal, Deliver, crossVars
  <2>3. CASE PollSignals(c)
    <3>1. CASE LoadSignals(c, PollLabel(c, 0)) /\ UNCHANGED expired
      <4>1. PollLabel(c, 0) \in {"flush_tx", "decide"}
        BY DEF PollLabel
      <4> QED BY <1>0, <3>1, <4>1 DEF LoadSignals, Goto
    <3>2. CASE /\ ClearSignals(c, PollLabel(c, 0), TasksOf("timer", expired[c]))
               /\ expired' = [expired EXCEPT ![c] = <<>>]
      <4>1. PollLabel(c, 0) \in {"flush_tx", "decide"}
        BY DEF PollLabel
      <4>2. /\ pc' = [pc EXCEPT ![c] = PollLabel(c, 0)]
            /\ pending_signals' = [pending_signals EXCEPT ![c] = FALSE]
            /\ UNCHANGED raised
            /\ \A p \in Cpu : p # c => /\ task_queue'[p] = task_queue[p]
                                       /\ cpu_active'[p] = cpu_active[p]
        BY <1>0, <3>2 DEF ClearSignals, Goto, Schedule, SetActive
      <4> QED BY <1>0, <3>2, <4>1, <4>2
    <3> QED BY <2>3, <3>1, <3>2 DEF PollSignals
  <2>4. CASE IdleOrRun(c)
    BY <1>0, <2>4 DEF IdleOrRun, Decide, Idle, Goto, crossVars
  <2>5. CASE NextRound(c) \/ Sleep(c)
    BY <1>0, <2>5 DEF NextRound, Sleep, EndBatch, CheckPending, Goto, crossVars
  <2>6. CASE FlushMore(c) \/ TaskReturns(c) \/ StartFn(c)
    BY <1>0, <2>6 DEF FlushMore, TaskReturns, StartFn, reactorVars
  <2>7. CASE FlushEnd(c)
    <3>1. Consumer(flushing[c]) \in Cpu
      BY <2>7 DEF FlushEnd, Typing, TypeOK, Lane, Consumer
    <3> QED BY <1>0, <2>7, <3>1 DEF FlushEnd, Wakeup, SetActive
  <2>8. CASE PollFlush(c) \/ PollRx(c) \/ PollTx(c) \/ NextPeer(c)
    <3>1. /\ \A p \in Cpu : p # c => /\ pc'[p] = pc[p] /\ task_queue'[p] = task_queue[p]
                                     /\ cpu_active'[p] = cpu_active[p]
          /\ UNCHANGED <<raised, pending_signals, expired>>
      BY <1>0, <2>8 DEF PollFlush, PollRx, PollTx, NextPeer, Goto, Schedule, SetActive
    <3>2. pc'[c] \notin {"masked", "asleep"}
      BY <1>0, <2>8 DEF PollFlush, PollRx, PollTx, NextPeer, Goto, PollLabel
    <3> QED BY <3>1, <3>2
  <2>9. CASE FnReturns(c) \/ RunTask(c)
    <3>1. /\ \A p \in Cpu : p # c => task_queue'[p] = task_queue[p]
          /\ UNCHANGED <<pc, cpu_active, raised, pending_signals, expired>>
          /\ pc[c] \in {"handle", "tasks"}
      BY <1>0, <2>9 DEF FnReturns, AwaitInner, Schedule,
         RunTask, RunUser, RunTimer, RunStore, RunRespond, TakeTask
    <3> QED BY <3>1
  <2> QED BY <1>2, <2>1, <2>2, <2>3, <2>4, <2>5, <2>6, <2>7, <2>8, <2>9 DEF Running
<1>3. ASSUME NEW c \in Cpu, NEW k \in Call, SubmitRemote(c, k) \/ SubmitLocal(c, k)
      PROVE TimersAwaited' /\ IdleOK'
  BY <1>3 DEF SubmitRemote, SubmitLocal, reactorVars
<1>4. ASSUME NEW k \in Call, Expire(k) PROVE TimersAwaited' /\ IdleOK'
  <2>1. Target[k] \in Cpu
    BY CrossCpuAssumption
  <2>2. /\ raised' = [raised EXCEPT ![Target[k]] = TRUE]
        /\ \A p \in Cpu : p # Target[k] => expired'[p] = expired[p]
        /\ UNCHANGED <<pc, cpu_active, task_queue, pending_signals>>
    BY <1>0, <1>4, <2>1 DEF Expire, Wakeup
  <2> QED BY <1>0, <2>1, <2>2
<1>5. ASSUME NEW c \in Cpu, Start(c) PROVE TimersAwaited' /\ IdleOK'
  <2>1. pc'[c] \notin {"masked", "asleep"}
    BY <1>5, StartFacts DEF Typing, Starting, Latch
  <2> QED BY <1>5, <2>1, StartFacts DEF Typing, crossVars
<1> QED BY <1>1, <1>2, <1>3, <1>4, <1>5, Steps

LEMMA FlushOwnStep ==
  ASSUME Typing, FlushOwn, [Next]_vars
  PROVE  FlushOwn'
<1> USE DEF FlushOwn
<1>0. flushing \in [Cpu -> Lane \cup {NoLane}]
  BY DEF Typing, TypeOK
<1>1. CASE UNCHANGED flushing
  BY <1>1
<1>2. ASSUME NEW c \in Cpu, NEW l \in Lane, Producer(l) = c,
             \A d \in Cpu : d # c => flushing'[d] = flushing[d],
             flushing'[c] \in {flushing[c], l}
      PROVE  FlushOwn'
  BY <1>2
<1>3. ASSUME NEW c \in Cpu, PollFlush(c) PROVE FlushOwn'
  <2>1. PolledLane(c) \in Lane /\ Producer(PolledLane(c)) = c
    BY <1>3, PolledLaneType DEF PollFlush, Producer
  <2>2. buf[PolledLane(c)] \in Seq(Call)
    BY <2>1 DEF Typing, TypeOK
  <2>3. BeginFlush(c, PolledLane(c), buf[PolledLane(c)])
    BY <1>3 DEF PollFlush
  <2> QED BY <1>2, <2>1, <2>2, <2>3, FlushFacts DEF Typing
<1>4. ASSUME NEW c \in Cpu, NEW k \in Call, SubmitRemote(c, k) PROVE FlushOwn'
  <2>1. <<"tx", c, Target[k]>> \in Lane /\ Producer(<<"tx", c, Target[k]>>) = c
    BY CrossCpuAssumption DEF Lane, Producer
  <2>2. Push(c, <<"tx", c, Target[k]>>, k)
    BY <1>4 DEF SubmitRemote
  <2>3. /\ \A d \in Cpu : d # c => flushing'[d] = flushing[d]
        /\ flushing'[c] \in {flushing[c], <<"tx", c, Target[k]>>}
    BY <2>1, <2>2, PushFacts DEF Typing
  <2> QED BY <1>2, <2>1, <2>3
<1>5. ASSUME NEW c \in Cpu, RunRespond(c), RunTask(c) PROVE FlushOwn'
  <2> DEFINE k == Head(task_queue[c]).call
  <2>1. Head(task_queue[c]) \in Task /\ Head(task_queue[c]).kind = "respond"
    <3>1. task_queue[c] \in Seq(Task) /\ task_queue[c] # <<>>
      BY <1>5 DEF RunTask, Typing, TypeOK
    <3> QED BY <1>5, <3>1, HeadTailProperties DEF RunRespond
  <2>2. k \in Call
    BY <2>1 DEF Task, UserTask
  <2>3. <<"rx", Origin[k], c>> \in Lane /\ Producer(<<"rx", Origin[k], c>>) = c
    BY <2>2, CrossCpuAssumption DEF Lane, Producer
  <2>4. Push(c, <<"rx", Origin[k], c>>, k)
    BY <1>5 DEF RunRespond
  <2> QED BY <1>2, <2>2, <2>3, <2>4, PushFacts DEF Typing
<1>6. ASSUME NEW c \in Cpu, FlushEnd(c) PROVE FlushOwn'
  BY <1>0, <1>6 DEF FlushEnd
<1>7. ASSUME NEW c \in Cpu, ~RunRespond(c) \/ ~RunTask(c), ~PollFlush(c), ~FlushEnd(c),
             Running(c) \/ Signal(c)
      PROVE UNCHANGED flushing
  <2>1. RunTask(c) => UNCHANGED flushing
    BY <1>7 DEF RunTask, RunUser, RunTimer, RunStore
  <2>2. FnReturns(c) \/ StartFn(c) \/ TaskReturns(c) \/ FlushMore(c) \/ NextPeer(c)
          => UNCHANGED flushing
    BY DEF FnReturns, StartFn, TaskReturns, FlushMore, NextPeer, otherVars
  <2>3. PollRx(c) \/ PollTx(c) => UNCHANGED flushing
    BY DEF PollRx, PollTx
  <2>4. Boot(c) \/ Signal(c) \/ PollSignals(c) \/ IdleOrRun(c) \/ NextRound(c) \/ Sleep(c)
          => UNCHANGED flushing
    BY DEF Boot, Signal, PollSignals, IdleOrRun, NextRound, Sleep, crossVars, otherVars
  <2> QED BY <1>7, <2>1, <2>2, <2>3, <2>4 DEF Running
<1>8. ASSUME NEW k \in Call, Expire(k) \/ \E c \in Cpu : SubmitLocal(c, k)
      PROVE UNCHANGED flushing
  BY <1>8 DEF Expire, SubmitLocal
<1>9. ASSUME NEW c \in Cpu, Start(c) PROVE UNCHANGED flushing
  BY <1>9 DEF Start, crossVars
<1> QED BY <1>1, <1>3, <1>4, <1>5, <1>6, <1>7, <1>8, <1>9, Steps DEF vars, crossVars

\* A step that leaves a CPU's place, and its signals and rings at least as
\* telling as they were, keeps what is awaited on its lanes.
LEMMA AwaitedFrame ==
  ASSUME Typing, NEW l \in Link, Awaited(l),
         \/ ring'[l] = ring[l]
         \/ ring'[l] = <<>>
         \/ flushing'[Producer(l)] = l,
         pc'[Consumer(l)] = pc[Consumer(l)], peer'[Consumer(l)] = peer[Consumer(l)],
         cpu_active[Consumer(l)] => cpu_active'[Consumer(l)],
         raised[Consumer(l)] \/ pending_signals[Consumer(l)]
           => raised'[Consumer(l)] \/ pending_signals'[Consumer(l)],
         flushing[Producer(l)] = l => \/ flushing'[Producer(l)] = l
                                      \/ raised'[Consumer(l)]
  PROVE  Awaited(l)'
BY DEF Awaited, WillPoll

\* The CPUs' own loop: from "signal" every lane is still to be polled; a batch
\* of signals handled, or any task in the queue, means another round of polls.
LEMMA AwaitedReactor ==
  ASSUME Typing, WakeInv, NEW l \in Link, NEW c \in Cpu,
         Boot(c) \/ Signal(c) \/ PollSignals(c) \/ IdleOrRun(c) \/ NextRound(c) \/ Sleep(c)
  PROVE  Awaited(l)'
<1> DEFINE p == Consumer(l)
<1>0. /\ pc \in [Cpu -> Labels] /\ cpu_active \in [Cpu -> BOOLEAN]
      /\ raised \in [Cpu -> BOOLEAN] /\ pending_signals \in [Cpu -> BOOLEAN]
      /\ peer \in [Cpu -> 0 .. N]
  BY DEF Typing, TypeOK
<1>1. p \in Cpu /\ Producer(l) \in Cpu /\ p # Producer(l) /\ Awaited(l) /\ l[1] \in {"tx", "rx"}
  BY LinkFacts DEF WakeInv
<1> HIDE DEF p
<1>2. CASE c # p
  <2>1. /\ pc'[p] = pc[p] /\ peer'[p] = peer[p] /\ cpu_active'[p] = cpu_active[p]
        /\ raised'[p] = raised[p] /\ pending_signals'[p] = pending_signals[p]
        /\ UNCHANGED <<ring, flushing>>
    BY <1>0, <1>1, <1>2
       DEF Boot, Signal, PollSignals, IdleOrRun, NextRound, Sleep, InitPollers, Deliver, LoadSignals,
           ClearSignals, Decide, EndBatch, CheckPending, Goto, SetActive, crossVars, otherVars
  <2> QED BY <1>1, <2>1, AwaitedFrame DEF p
<1>3. CASE c = p
  <2>0. UNCHANGED <<ring, flushing>>
    BY DEF Boot, Signal, PollSignals, IdleOrRun, NextRound, Sleep, crossVars, otherVars
  <2>1. CASE Boot(p) \/ NextRound(p)
    <3>1. pc'[p] = "signal"
      BY <1>0, <1>1, <2>1 DEF Boot, NextRound, InitPollers, EndBatch, Goto
    <3> QED BY <3>1 DEF Awaited, WillPoll, p
  <2>2. CASE Signal(p)
    BY <1>0, <1>1, <2>2 DEF Signal, Deliver, Awaited, p
  <2>3. CASE PollSignals(p)
    <3>1. CASE pc'[p] = "clear"
      BY <3>1 DEF Awaited, WillPoll, p
    <3>2. CASE ClearSignals(p, PollLabel(p, 0), TasksOf("timer", expired[p]))
      <4>1. cpu_active'[p]
        BY <1>0, <1>1, <3>2 DEF ClearSignals, SetActive
      <4> QED BY <4>1 DEF Awaited, p
    <3>3. CASE LoadSignals(p, PollLabel(p, 0)) /\ pc'[p] # "clear"
      <4>1. /\ pc' = [pc EXCEPT ![p] = PollLabel(p, 0)]
            /\ peer' = [peer EXCEPT ![p] = PeerFrom(p, 0)]
        BY <1>0, <1>1, <2>3, <3>3 DEF PollSignals, LoadSignals, Goto
      <4>2. 0 \in 0 .. N /\ Producer(l) >= 0 /\ ~(Producer(l) < 0)
        BY <1>1, ReactorAssumption DEF Cpu
      <4>3. PollLabel(p, 0) = "flush_tx"
        BY <1>1, <4>2, PeerFacts
      <4>4. Producer(l) >= PeerFrom(p, 0) /\ PeerFrom(p, 0) \in 0 .. N
        BY <1>1, <4>2, PeerFacts
      <4>5. peer'[p] < Producer(l) \/ peer'[p] = Producer(l)
        BY <1>0, <1>1, <4>1, <4>4, ReactorAssumption DEF Cpu
      <4>6. pc'[p] = "flush_tx"
        BY <1>0, <1>1, <4>1, <4>3
      <4> QED BY <1>1, <4>5, <4>6 DEF Awaited, WillPoll, Far, Polling, p
    <3> QED BY <2>3, <3>1, <3>2, <3>3 DEF PollSignals
  <2>4. CASE IdleOrRun(p)
    <3>1. pc[p] = "decide" /\ UNCHANGED <<raised, pending_signals>>
      BY <2>4 DEF IdleOrRun, Decide
    <3>2. CASE Idle(p)
      <4>1. ~cpu_active[p]
        BY <3>2 DEF Idle
      <4>2. ~WillPoll(p, l)
        BY <3>1 DEF WillPoll, Polling, Starting, Latch
      <4> QED BY <1>1, <2>0, <3>1, <4>1, <4>2 DEF Awaited, p
    <3>3. CASE ~Idle(p)
      <4>1. pc' = [pc EXCEPT ![p] = "tasks"]
        BY <2>4, <3>3 DEF IdleOrRun, Decide, Goto
      <4> QED BY <1>0, <1>1, <4>1 DEF Awaited, WillPoll, p
    <3> QED BY <3>2, <3>3
  <2>5. CASE Sleep(p)
    <3>1. pc[p] = "masked" /\ UNCHANGED <<raised, pending_signals>>
      BY <2>5 DEF Sleep, CheckPending
    <3>2. ~cpu_active[p] /\ ~WillPoll(p, l)
      BY <1>1, <3>1 DEF WakeInv, IdleOK, WillPoll, Polling, Starting, Latch
    <3> QED BY <1>1, <2>0, <3>1, <3>2 DEF Awaited, p
  <2> QED BY <1>3, <2>1, <2>2, <2>3, <2>4, <2>5
<1> QED BY <1>2, <1>3

\* The polls: what stays in a ring after its poll was activity, and the lanes of
\* the peers to come are still to be polled.
LEMMA AwaitedPoll ==
  ASSUME Typing, WakeInv, NEW l \in Link, NEW c \in Cpu,
         FlushMore(c) \/ FlushEnd(c) \/ PollFlush(c) \/ PollRx(c) \/ PollTx(c) \/ NextPeer(c)
  PROVE  Awaited(l)'
<1> DEFINE p == Consumer(l)
           q == Producer(l)
<1>0. /\ pc \in [Cpu -> Labels] /\ cpu_active \in [Cpu -> BOOLEAN]
      /\ raised \in [Cpu -> BOOLEAN] /\ pending_signals \in [Cpu -> BOOLEAN]
      /\ peer \in [Cpu -> 0 .. N] /\ flushing \in [Cpu -> Lane \cup {NoLane}]
      /\ ring \in [Lane -> Seq(Call)] /\ buf \in [Lane -> Seq(Call)]
  BY DEF Typing, TypeOK
<1>1. /\ l \in Lane /\ p \in Cpu /\ q \in Cpu /\ p # q
      /\ Awaited(l) /\ l[1] \in {"tx", "rx"}
      /\ l[1] = "tx" => l = <<"tx", q, p>>
      /\ l[1] = "rx" => l = <<"rx", p, q>>
  BY LinkFacts DEF WakeInv
<1>2. CASE FlushMore(c)
  <2>1. /\ flushing[c] \in Lane /\ buf[flushing[c]] # <<>>
        /\ MoveOne(flushing[c], buf[flushing[c]])
        /\ UNCHANGED <<pc, peer, cpu_active, raised, pending_signals, flushing>>
    BY <1>0, <1>2 DEF FlushMore, reactorVars
  <2>2. CASE l = flushing[c]
    <3>1. q = c
      BY <1>1, <2>2, NoLaneAssumption DEF WakeInv, FlushOwn
    <3> QED BY <2>1, <2>2, <3>1 DEF Awaited
  <2>3. CASE l # flushing[c]
    <3>1. ring'[l] = ring[l]
      BY <1>0, <1>1, <2>1, <2>3 DEF MoveOne
    <3> HIDE DEF p, q
    <3> QED BY <1>1, <2>1, <3>1, AwaitedFrame DEF p, q
  <2> QED BY <2>2, <2>3
<1>3. CASE FlushEnd(c)
  <2>1. Consumer(flushing[c]) \in Cpu
    BY <1>3 DEF FlushEnd, Typing, TypeOK, Lane, Consumer
  <2> HIDE DEF p, q
  <2>2. /\ raised'[p] = raised[p] \/ raised'[p]
        /\ cpu_active[p] => cpu_active'[p]
        /\ UNCHANGED <<pc, peer, ring, pending_signals>>
    BY <1>0, <1>1, <1>3, <2>1 DEF FlushEnd, Wakeup, SetActive
  <2>3. flushing[q] = l => flushing'[q] = l \/ raised'[p]
    BY <1>0, <1>1, <1>3, <2>1 DEF FlushEnd, Wakeup, p
  <2> QED BY <1>1, <2>2, <2>3, AwaitedFrame DEF p, q
<1>4. CASE PollFlush(c)
  <2> DEFINE m == PolledLane(c)
  <2>1. m \in Lane /\ buf[m] \in Seq(Call) /\ Producer(m) = c /\ NotFlushing(c)
    BY <1>0, <1>4, PolledLaneType DEF PollFlush, Producer
  <2>2. /\ BeginFlush(c, m, buf[m])
        /\ pc' = [pc EXCEPT ![c] = IF @ = "flush_tx" THEN "poll_rx" ELSE "poll_tx"]
        /\ UNCHANGED <<cpu_active, raised, pending_signals, peer>>
        /\ pc[c] \in {"flush_tx", "flush_rx"}
    BY <1>0, <1>4 DEF PollFlush, Goto
  <2> HIDE DEF m
  <2>3. /\ ring'[l] = ring[l] \/ (l = m /\ flushing'[c] = l)
        /\ \A d \in Cpu : d # c => flushing'[d] = flushing[d]
    BY <1>1, <2>1, <2>2, FlushFacts DEF Typing
  <2>4. flushing[q] = l => flushing'[q] = l
    BY <1>1, <2>1, <2>3, NoLaneAssumption DEF NotFlushing
  <2>5. ring'[l] = ring[l] \/ flushing'[q] = l
    BY <2>1, <2>3
  <2>6. WillPoll(p, l) => WillPoll(p, l)'
    BY <1>0, <1>1, <2>2 DEF WillPoll, Polling, Starting, Latch, Far
  <2> HIDE DEF p, q
  <2> QED BY <1>1, <2>2, <2>4, <2>5, <2>6 DEF Awaited, p, q
<1>5. CASE PollRx(c) \/ PollTx(c)
  <2> DEFINE m == PolledLane(c)
  <2>1. /\ m \in Lane /\ Consumer(m) = c
        /\ peer[c] \in Cpu \ {c}
        /\ PollRx(c) => m = <<"rx", c, peer[c]>>
        /\ PollTx(c) => m = <<"tx", peer[c], c>>
    BY <1>5, PolledLaneType DEF PollRx, PollTx, Consumer
  <2>2. /\ Pop(m) /\ SetActive(c, Popped(m) # <<>>)
        /\ UNCHANGED <<raised, pending_signals, peer, flushing>>
        /\ \/ PollRx(c) /\ pc[c] = "poll_rx" /\ pc' = [pc EXCEPT ![c] = "flush_rx"]
           \/ PollTx(c) /\ pc[c] = "poll_tx" /\ pc' = [pc EXCEPT ![c] = "handle"]
    BY <1>5 DEF PollRx, PollTx, Goto
  <2> HIDE DEF m
  <2>3. /\ \A x \in Lane : x # m => ring'[x] = ring[x]
        /\ ring'[m] # <<>> => Popped(m) # <<>>
    BY <2>1, <2>2, PopFacts DEF Typing
  <2>4. CASE l = m
    <3>1. ring'[l] # <<>> => cpu_active'[p]
      BY <1>0, <1>1, <2>1, <2>2, <2>3, <2>4 DEF SetActive
    <3> QED BY <3>1 DEF Awaited
  <2>5. CASE l # m
    <3>1. cpu_active[p] => cpu_active'[p]
      BY <1>0, <1>1, <2>2 DEF SetActive
    <3>2. WillPoll(p, l) => WillPoll(p, l)'
      <4>1. CASE c # p
        BY <1>0, <1>1, <2>2, <4>1 DEF WillPoll
      <4>2. CASE c = p /\ PollRx(c)
        <5>1. ~(l[1] = "rx" /\ peer[p] = q)
          BY <1>1, <2>1, <2>5, <4>2
        <5>2. pc[p] = "poll_rx" /\ pc'[p] = "flush_rx" /\ peer' = peer
          BY <1>0, <1>1, <2>2, <4>2 DEF PollRx, Goto
        <5> QED BY <1>1, <5>1, <5>2 DEF WillPoll, Polling, Starting, Latch, Far
      <4>3. CASE c = p /\ PollTx(c)
        <5>1. ~(l[1] = "tx" /\ peer[p] = q)
          BY <1>1, <2>1, <2>5, <4>3
        <5>2. pc[p] = "poll_tx" /\ pc'[p] = "handle" /\ peer' = peer
          BY <1>0, <1>1, <2>2, <4>3 DEF PollTx, Goto
        <5> QED BY <1>1, <5>1, <5>2 DEF WillPoll, Polling, Starting, Latch, Far
      <4> QED BY <1>5, <4>1, <4>2, <4>3
    <3> HIDE DEF p, q
    <3> QED BY <1>1, <2>2, <2>3, <2>5, <3>1, <3>2 DEF Awaited, p, q
  <2> QED BY <2>4, <2>5
<1>6. CASE NextPeer(c)
  <2>1. /\ pc[c] = "handle"
        /\ pc' = [pc EXCEPT ![c] = PollLabel(c, peer[c] + 1)]
        /\ peer' = [peer EXCEPT ![c] = PeerFrom(c, peer[c] + 1)]
        /\ UNCHANGED <<cpu_active, raised, pending_signals, ring, flushing>>
    BY <1>0, <1>6 DEF NextPeer, Goto, otherVars
  <2>2. CASE c # p
    <3>1. pc'[p] = pc[p] /\ peer'[p] = peer[p]
      BY <1>0, <1>1, <2>1, <2>2
    <3> QED BY <1>1, <2>1, <3>1 DEF Awaited, WillPoll
  <2>3. CASE c = p /\ WillPoll(p, l)
    <3>1. peer[p] \in Cpu /\ peer[p] < q
      BY <2>1, <2>3 DEF WillPoll, Polling, Starting, Latch, Far, Typing, PeerOK
    <3>2. peer[p] + 1 \in 0 .. N /\ q >= peer[p] + 1 /\ ~(q < peer[p] + 1)
      BY <1>1, <3>1, ReactorAssumption DEF Cpu
    <3> HIDE DEF p, q
    <3>3. /\ PollLabel(p, peer[p] + 1) = "flush_tx"
          /\ PeerFrom(p, peer[p] + 1) \in 0 .. N
          /\ q >= PeerFrom(p, peer[p] + 1)
      BY <1>1, <3>2, PeerFacts
    <3>4. pc'[p] = "flush_tx" /\ peer'[p] = PeerFrom(p, peer[p] + 1)
      BY <1>0, <1>1, <2>1, <2>3, <3>3
    <3>5. peer'[p] < q \/ peer'[p] = q
      BY <1>1, <3>3, <3>4, ReactorAssumption DEF Cpu
    <3> QED BY <1>1, <3>4, <3>5 DEF Awaited, WillPoll, Far, Polling, p, q
  <2>4. CASE ~WillPoll(p, l)
    BY <1>1, <2>1, <2>4 DEF Awaited
  <2> QED BY <2>2, <2>3, <2>4
<1> QED BY <1>2, <1>3, <1>4, <1>5, <1>6

\* A push into l happens inside a flush of l, and nothing else a task, a
\* function or the kernel does takes away what is awaited.
LEMMA AwaitedPush ==
  ASSUME Typing, WakeInv, NEW l \in Link, NEW c \in Cpu, NEW m \in Lane, NEW k \in Call,
         NotFlushing(c), Producer(m) = c, Push(c, m, k),
         UNCHANGED <<pc, peer, cpu_active, raised, pending_signals>>
  PROVE  Awaited(l)'
<1> DEFINE p == Consumer(l)
           q == Producer(l)
<1>1. l \in Lane /\ p \in Cpu /\ q \in Cpu /\ Awaited(l)
  BY LinkFacts DEF WakeInv
<1>2. /\ ring'[l] = ring[l] \/ (l = m /\ flushing'[c] = l)
      /\ \A d \in Cpu : d # c => flushing'[d] = flushing[d]
  BY <1>1, PushFacts DEF Typing
<1>3. flushing[q] = l => flushing'[q] = l
  BY <1>1, <1>2, NoLaneAssumption DEF NotFlushing
<1>4. ring'[l] = ring[l] \/ flushing'[q] = l
  BY <1>2
<1> HIDE DEF p, q
<1> QED BY <1>1, <1>3, <1>4, AwaitedFrame DEF p, q

LEMMA AwaitedTask ==
  ASSUME Typing, WakeInv, NEW l \in Link, NEW c \in Cpu,
         RunTask(c) \/ StartFn(c) \/ FnReturns(c) \/ TaskReturns(c)
  PROVE  Awaited(l)'
<1>1. Awaited(l) /\ UNCHANGED <<pc, peer, cpu_active, raised, pending_signals>>
  BY DEF WakeInv, RunTask, StartFn, FnReturns, TaskReturns, reactorVars
<1>2. CASE UNCHANGED <<ring, flushing>>
  BY <1>1, <1>2, AwaitedFrame
<1>3. CASE RunTask(c) /\ RunRespond(c)
  <2> DEFINE k == Head(task_queue[c]).call
  <2>1. Head(task_queue[c]) \in Task /\ Head(task_queue[c]).kind = "respond"
    <3>1. task_queue[c] \in Seq(Task) /\ task_queue[c] # <<>>
      BY <1>3 DEF RunTask, Typing, TypeOK
    <3> QED BY <1>3, <3>1, HeadTailProperties DEF RunRespond
  <2>2. k \in Call
    BY <2>1 DEF Task, UserTask
  <2>3. <<"rx", Origin[k], c>> \in Lane /\ Producer(<<"rx", Origin[k], c>>) = c
    BY <2>2, CrossCpuAssumption DEF Lane, Producer
  <2>4. Push(c, <<"rx", Origin[k], c>>, k) /\ NotFlushing(c)
    BY <1>3 DEF RunTask, RunRespond
  <2> QED BY <1>1, <2>2, <2>3, <2>4, AwaitedPush
<1> QED BY <1>2, <1>3
        DEF RunTask, RunUser, RunTimer, RunStore, StartFn, FnReturns, TaskReturns

\* A CPU that is starting will poll every lane.
LEMMA AwaitedStart ==
  ASSUME Typing, WakeInv, NEW l \in Link, NEW c \in Cpu, Start(c)
  PROVE  Awaited(l)'
<1>1. Awaited(l) /\ UNCHANGED <<ring, peer, cpu_active, raised, pending_signals, flushing>>
  BY StartFacts DEF WakeInv, Typing, crossVars
<1>2. CASE c = Consumer(l)
  BY <1>2, StartFacts DEF Typing, Awaited, WillPoll
<1>3. CASE c # Consumer(l)
  <2>1. pc'[Consumer(l)] = pc[Consumer(l)]
    BY <1>3, LinkFacts, StartFacts DEF Typing
  <2> QED BY <1>1, <2>1, AwaitedFrame
<1> QED BY <1>2, <1>3

\* The strengthened invariant is kept by every step.
LEMMA WakeStep == Typing /\ WakeInv /\ [Next]_vars => WakeInv'
<1> SUFFICES ASSUME Typing, WakeInv, [Next]_vars PROVE WakeInv'
  OBVIOUS
<1>1. TimersAwaited' /\ IdleOK' /\ FlushOwn'
  BY SleepStep, FlushOwnStep DEF WakeInv
<1>2. ASSUME NEW l \in Link PROVE Awaited(l)'
  <2>0. Awaited(l)
    BY DEF WakeInv
  <2>1. CASE UNCHANGED vars
    BY <2>0, <2>1, AwaitedFrame DEF vars, reactorVars, crossVars
  <2>2. ASSUME NEW c \in Cpu, Running(c) \/ Signal(c) PROVE Awaited(l)'
    BY <2>2, AwaitedReactor, AwaitedPoll, AwaitedTask DEF Running
  <2>3. ASSUME NEW c \in Cpu, NEW k \in Call, SubmitRemote(c, k) PROVE Awaited(l)'
    <3>1. <<"tx", c, Target[k]>> \in Lane /\ Producer(<<"tx", c, Target[k]>>) = c
      BY CrossCpuAssumption DEF Lane, Producer
    <3>2. /\ Push(c, <<"tx", c, Target[k]>>, k) /\ NotFlushing(c)
          /\ UNCHANGED <<pc, peer, cpu_active, raised, pending_signals>>
      BY <2>3 DEF SubmitRemote, Submit, reactorVars
    <3> QED BY <3>1, <3>2, AwaitedPush
  <2>4. ASSUME NEW c \in Cpu, NEW k \in Call, SubmitLocal(c, k) PROVE Awaited(l)'
    BY <2>0, <2>4, AwaitedFrame DEF SubmitLocal, reactorVars
  <2>5. ASSUME NEW k \in Call, Expire(k) PROVE Awaited(l)'
    <3>1. UNCHANGED <<pc, peer, cpu_active, ring, flushing, pending_signals>>
      BY <2>5 DEF Expire
    <3>2. \A d \in Cpu : raised[d] => raised'[d]
      <4>1. raised \in [Cpu -> BOOLEAN]
        BY DEF Typing, TypeOK
      <4>2. raised' = [raised EXCEPT ![Target[k]] = TRUE]
        BY <2>5 DEF Expire, Wakeup
      <4> QED BY <4>1, <4>2
    <3>3. Consumer(l) \in Cpu
      BY LinkFacts
    <3> QED BY <2>0, <3>1, <3>2, <3>3, AwaitedFrame
  <2>6. ASSUME NEW c \in Cpu, Start(c) PROVE Awaited(l)'
    BY <2>6, AwaitedStart
  <2> QED BY <2>1, <2>2, <2>3, <2>4, <2>5, <2>6, Steps
<1> QED BY <1>1, <1>2 DEF WakeInv

\* For any number of CPUs, calls and any ring size: a CPU blocked in epoll_pwait
\* whose ring holds an item has a SIGALRM pending, or the producer of the item
\* is in the flush() that will send it.  What makes it so is WakeInv: until the
\* CPU sleeps it will poll the ring, or found it active, or has the signal.
THEOREM NoWakeupIsLost == Safe => []NoLostWakeup
<1>1. Typing /\ WakeInv => NoLostWakeup
  BY WakeInvSafe
<1> QED BY <1>1, TypingInit, TypingStep, WakeInit, WakeStep, PTL DEF Safe

\* No CPU blocks in epoll_pwait with a task to run or with a timer that has
\* expired and whose signal it has already taken.
THEOREM NoRunnableCpuSleeps == Safe => []NothingRunnableAsleep
<1>1. Typing /\ WakeInv => NothingRunnableAsleep
  BY WakeInvSafe
<1> QED BY <1>1, TypingInit, TypingStep, WakeInit, WakeStep, PTL DEF Safe

-----------------------------------------------------------------------------
(* Start-up.                                                               *)

\* A CPU that has left its constructor is constructed; CPU 0 alone builds the
\* queues, after all the others' constructors and before its own arrival at the
\* second latch, behind which everybody finds them built.
StartInv ==
  /\ \A c \in Cpu : pc[c] # "construct" => c \in constructed
  /\ arrived["cpu_constructed"] \subseteq constructed
  /\ 0 \in arrived["queue_constructed"] => built
  /\ \A c \in Cpu : pc[c] = "build" => c = 0 /\ constructed = Cpu
  /\ pc[0] = "queue_constructed" => built
  /\ built => constructed = Cpu
  /\ \A c \in Cpu : pc[c] = "started" \/ pc[c] \notin Starting => built

\* Once started a CPU does not return to start-up.
LEMMA StaysStarted ==
  ASSUME Typing, NEW c \in Cpu, Running(c) \/ Signal(c)
  PROVE  \A p \in Cpu : \/ pc'[p] = pc[p]
                        \/ pc[p] \notin Starting /\ pc'[p] \notin Starting
<1>1. pc \in [Cpu -> Labels]
  BY DEF Typing, TypeOK
<1>2. CASE Boot(c) \/ Signal(c) \/ PollSignals(c) \/ IdleOrRun(c) \/ NextRound(c) \/ Sleep(c)
  <2>1. PollLabel(c, 0) \notin Starting
    BY DEF PollLabel, Starting, Latch
  <2> QED BY <1>1, <1>2, <2>1
     DEF Boot, Signal, PollSignals, IdleOrRun, NextRound, Sleep, InitPollers, Deliver, LoadSignals,
         ClearSignals, Decide, EndBatch, CheckPending, Goto, Starting, Latch
<1>3. CASE PollFlush(c) \/ PollRx(c) \/ PollTx(c)
  BY <1>1, <1>3 DEF PollFlush, PollRx, PollTx, Goto, Starting, Latch
<1>4. CASE NextPeer(c)
  <2>1. PollLabel(c, peer[c] + 1) \notin Starting
    BY DEF PollLabel, Starting, Latch
  <2> QED BY <1>1, <1>4, <2>1 DEF NextPeer, Goto, Starting, Latch
<1>5. CASE FlushMore(c) \/ FlushEnd(c) \/ StartFn(c) \/ FnReturns(c) \/ RunTask(c) \/ TaskReturns(c)
  BY <1>5 DEF FlushMore, FlushEnd, StartFn, FnReturns, RunTask, TaskReturns, reactorVars
<1> QED BY <1>2, <1>3, <1>4, <1>5 DEF Running

LEMMA StartInvInit == Init => StartInv
BY ReactorAssumption DEF Init, ReactorInit, StartInit, StartInv, Starting, Latch, Cpu

LEMMA StartInvStep == Typing /\ StartInv /\ [Next]_vars => StartInv'
<1> SUFFICES ASSUME Typing, StartInv, [Next]_vars PROVE StartInv'
  OBVIOUS
<1>0. /\ pc \in [Cpu -> Labels] /\ arrived \in [Latch -> SUBSET Cpu]
      /\ constructed \subseteq Cpu /\ 0 \in Cpu
  <2>1. pc \in [Cpu -> Labels]
    BY DEF Typing, TypeOK
  <2>2. arrived \in [Latch -> SUBSET Cpu] /\ constructed \subseteq Cpu
    BY DEF Typing, StartTypeOK
  <2>3. 0 \in Cpu
    BY ReactorAssumption DEF Cpu
  <2> QED BY <2>1, <2>2, <2>3
<1> USE DEF StartInv, Starting, Latch
<1>1. CASE UNCHANGED <<pc, startVars>>
  BY <1>1 DEF startVars
<1>2. ASSUME NEW c \in Cpu, Start(c) PROVE StartInv'
  <2>1. CASE Construct(c)
    BY <1>0, <2>1 DEF Construct, Goto
  <2>2. CASE Arrive(c)
    BY <1>0, <2>2 DEF Arrive
  <2>3. CASE Proceed(c)
    BY <1>0, <2>3 DEF Proceed, WaitOver, Open, Goto, startVars
  <2>4. CASE Build(c)
    BY <1>0, <2>4 DEF Build, Goto
  <2>5. ASSUME NEW t, Started(c, t) PROVE StartInv'
    BY <1>0, <2>5 DEF Started, WaitOver, Goto, startVars
  <2> QED BY <1>2, <2>1, <2>2, <2>3, <2>4, <2>5 DEF Start, StartUp
<1>3. ASSUME NEW c \in Cpu, Running(c) \/ Signal(c), UNCHANGED startVars PROVE StartInv'
  <2>1. \A p \in Cpu : \/ pc'[p] = pc[p]
                       \/ pc[p] \notin Starting /\ pc'[p] \notin Starting
    BY <1>3, StaysStarted
  <2> QED BY <1>0, <1>3, <2>1 DEF startVars
<1>4. ASSUME NEW k \in Call,
             Expire(k) \/ \E c \in Cpu : SubmitRemote(c, k) \/ SubmitLocal(c, k)
      PROVE  UNCHANGED pc
  BY <1>4 DEF Expire, SubmitRemote, SubmitLocal, reactorVars
<1> QED BY <1>1, <1>2, <1>3, <1>4, Steps DEF vars, reactorVars

\* Whatever the number of CPUs and the speed of their threads, nobody polls a
\* queue that is not built, and none is built on a CPU that is not there.
THEOREM StartIsOrdered == Safe => []StartsInOrder
<1>1. StartInv => StartsInOrder
  BY DEF StartInv, StartsInOrder
<1> QED BY <1>1, TypingInit, TypingStep, StartInvInit, StartInvStep, PTL DEF Safe
=============================================================================
