---------------------------- MODULE FileIoProofs ----------------------------
(***************************************************************************)
(* FileIo: every token is free, held by one request or lost with one that  *)
(* the kernel refused, and the CPU sleeps neither on a completion nor with *)
(* a request that could be let in, for any set of requests and any size of *)
(* the AIO context.                                                        *)
(***************************************************************************)
EXTENDS FileIo, QueueLemmas

Places == {"boot", "signal", "clear", "reap", "decide", "tasks", "masked", "asleep", "dead"}

Stages == {"new", "waiting", "granted", "submitted", "done", "reaped", "refused",
           "rejected", "value", "exception"}

Event == [request : Request, ok : BOOLEAN]

\* What TypeOK says, but for the upper bound of the tokens, and the types of the
\* other variables of Reactor.
Typing ==
  /\ pc \in [Cpu -> Places]
  /\ cpu_active \in [Cpu -> BOOLEAN]
  /\ raised \in [Cpu -> BOOLEAN] /\ pending_signals \in [Cpu -> BOOLEAN]
  /\ task_queue \in [Cpu -> Seq(Task)]
  /\ budget \in [Cpu -> 0 .. TaskBatch]
  /\ sem \in [tokens : Nat, waiting : Seq(Clients(Request))]
  /\ kernel \subseteq Request /\ owed \subseteq Request
  /\ events \in Seq(Event)
  /\ eventfd \in BOOLEAN /\ user \in BOOLEAN
  /\ st \in [Request -> Stages]

LEMMA MeIsCpu == Me \in Cpu
BY ReactorAssumption DEF Me, Cpu

-----------------------------------------------------------------------------
(* The tasks and the completions.                                          *)

LEMMA TaskForms ==
  /\ UserTask \in Task
  /\ \A k \in Request : SubmitTask(k) \in Task /\ SubmitTask(k) # UserTask
  /\ \A k \in Request, ok \in BOOLEAN : FinishTask(k, ok) \in Task /\ FinishTask(k, ok) # UserTask
  /\ \A k \in Request : SubmitTask(k).request = k /\ SubmitTask(k).kind = "submit"
  /\ \A k \in Request, ok \in BOOLEAN :
       /\ FinishTask(k, ok).request = k /\ FinishTask(k, ok).ok = ok
       /\ FinishTask(k, ok).kind = "finish"
<1>1. /\ UserTask \in Task
      /\ \A k \in Request : SubmitTask(k) \in Task
      /\ \A k \in Request, ok \in BOOLEAN : FinishTask(k, ok) \in Task
  BY DEF Task
<1>2. \A k \in Request : SubmitTask(k) # UserTask
  BY DEF UserTask, SubmitTask
<1>3. \A k \in Request, ok \in BOOLEAN : FinishTask(k, ok) # UserTask
  BY DEF UserTask, FinishTask
<1> QED BY <1>1, <1>2, <1>3 DEF SubmitTask, FinishTask

\* The request let in by a release of n tokens, and the tasks that reap_io
\* schedules.
Granted(n) == IF Released(n).waiting = sem.waiting THEN {} ELSE {Head(sem.waiting).who}

Finishing == [i \in 1 .. Len(events) |-> FinishTask(events[i].request, events[i].ok)]

Submitting(n) == [i \in 1 .. Cardinality(Granted(n)) |-> SubmitTask(Head(sem.waiting).who)]

LEMMA FinishingTasks ==
  ASSUME Typing
  PROVE  /\ Finishing \in Seq(Task) /\ Len(Finishing) = Len(events) /\ Len(events) \in Nat
         /\ \A i \in 1 .. Len(events) :
              /\ events[i].request \in Request /\ events[i].ok \in BOOLEAN
              /\ Finishing[i] = FinishTask(events[i].request, events[i].ok)
<1>1. Len(events) \in Nat /\ \A i \in 1 .. Len(events) : events[i] \in Event
  BY LenProperties DEF Typing
<1>2. \A i \in 1 .. Len(events) : events[i].request \in Request /\ events[i].ok \in BOOLEAN
  BY <1>1 DEF Event
<1>3. Finishing \in [1 .. Len(events) -> Task]
  BY <1>2, TaskForms DEF Finishing
<1>4. Finishing \in Seq(Task) /\ Len(Finishing) = Len(events)
  BY <1>1, <1>3, SeqDef
<1> QED BY <1>1, <1>2, <1>4 DEF Finishing

LEMMA SubmittingTask ==
  ASSUME Typing, NEW n \in Nat
  PROVE  /\ Granted(n) = IF Grants(sem, n) THEN {Head(sem.waiting).who} ELSE {}
         /\ Submitting(n) = IF Grants(sem, n) THEN <<SubmitTask(Head(sem.waiting).who)>> ELSE <<>>
         /\ Submitting(n) \in Seq(Task)
<1>1. sem \in [tokens : Nat, waiting : Seq(Clients(Request))]
  BY DEF Typing
<1>2. Granted(n) = IF Grants(sem, n) THEN {Head(sem.waiting).who} ELSE {}
  BY <1>1, ReleaseProperties DEF Granted, Released
<1>3. Cardinality(Granted(n)) = IF Grants(sem, n) THEN 1 ELSE 0
  BY <1>2, FS_EmptySet, FS_Singleton
<1>4. CASE Grants(sem, n)
  <2>1. Submitting(n) = [i \in 1 .. 1 |-> SubmitTask(Head(sem.waiting).who)]
    BY <1>3, <1>4 DEF Submitting
  <2>2. Submitting(n) = <<SubmitTask(Head(sem.waiting).who)>>
    BY <2>1
  <2>3. SubmitTask(Head(sem.waiting).who) \in Task
    BY <1>1, <1>4, ReleaseProperties, TaskForms
  <2> QED BY <1>2, <1>4, <2>2, <2>3
<1>5. CASE ~Grants(sem, n)
  <2>1. Submitting(n) = [i \in 1 .. 0 |-> SubmitTask(Head(sem.waiting).who)]
    BY <1>3, <1>5 DEF Submitting
  <2>2. Submitting(n) = <<>>
    BY <2>1
  <2> QED BY <1>2, <1>5, <2>2, EmptySeq
<1> QED BY <1>4, <1>5

\* A task is taken out and others are scheduled.
LEMMA TakenTask ==
  ASSUME Typing, NEW s \in Seq(Task), TakeTask(Me, s)
  PROVE  /\ pc[Me] = "tasks"
         /\ task_queue[Me] \in Seq(Task) /\ task_queue[Me] # <<>>
         /\ Tail(task_queue[Me]) \in Seq(Task)
         /\ task_queue'[Me] = Tail(task_queue[Me]) \o s
         /\ task_queue' \in [Cpu -> Seq(Task)]
         /\ budget' \in [Cpu -> 0 .. TaskBatch]
<1> USE MeIsCpu
<1>1. task_queue[Me] \in Seq(Task) /\ task_queue[Me] # <<>> /\ pc[Me] = "tasks"
  BY DEF Typing, TakeTask
<1>2. Tail(task_queue[Me]) \in Seq(Task)
  BY <1>1, HeadTailProperties
<1>3. Tail(task_queue[Me]) \o s \in Seq(Task)
  BY <1>2, ConcatProperties
<1>4. task_queue' = [task_queue EXCEPT ![Me] = Tail(task_queue[Me]) \o s]
  BY DEF TakeTask
<1>5. task_queue'[Me] = Tail(task_queue[Me]) \o s /\ task_queue' \in [Cpu -> Seq(Task)]
  BY <1>3, <1>4 DEF Typing
<1>6. budget' \in [Cpu -> 0 .. TaskBatch]
  <2>1. budget[Me] - 1 \in 0 .. TaskBatch
    BY ReactorAssumption DEF TakeTask, Typing
  <2> QED BY <2>1 DEF TakeTask, Typing
<1> QED BY <1>1, <1>2, <1>5, <1>6

-----------------------------------------------------------------------------
(* Types.                                                                  *)

LEMMA TypingInit == Init => Typing
<1> SUFFICES ASSUME Init PROVE Typing
  OBVIOUS
<1>1. <<UserTask>> \in Seq(Task)
  BY TaskForms
<1>2. task_queue \in [Cpu -> Seq(Task)]
  BY <1>1 DEF Init, ReactorInit
<1>3. sem \in [tokens : Nat, waiting : Seq(Clients(Request))]
  BY EmptySeq, FileIoAssumption DEF Init, NewSemaphore
<1>4. /\ pc \in [Cpu -> Places] /\ cpu_active \in [Cpu -> BOOLEAN]
      /\ raised \in [Cpu -> BOOLEAN] /\ pending_signals \in [Cpu -> BOOLEAN]
      /\ budget \in [Cpu -> 0 .. TaskBatch]
  BY ReactorAssumption DEF Init, ReactorInit, Places
<1>5. /\ st \in [Request -> Stages] /\ events \in Seq(Event)
      /\ kernel \subseteq Request /\ owed \subseteq Request
      /\ eventfd \in BOOLEAN /\ user \in BOOLEAN
  BY EmptySeq DEF Init, Stages
<1> QED BY <1>2, <1>3, <1>4, <1>5 DEF Typing

\* The steps of the loop.
LEMMA TypingReactor ==
  ASSUME Typing,
         Boot \/ Signal \/ PollSignals \/ IdleOrRun \/ NextRound \/ Sleep \/ EpollReturns
           \/ Poke \/ TaskReturns \/ ReapInterrupted
  PROVE  Typing' /\ UNCHANGED <<task_queue, sem, kernel, events, owed, eventfd, st>>
<1> USE MeIsCpu DEF othersUnchanged, ioVars
<1>1. CASE Boot
  BY <1>1 DEF Boot, InitPollers, Goto, Typing, Places
<1>2. CASE Signal
  BY <1>2 DEF Signal, Deliver, Typing, Places
<1>3. CASE LoadSignals(Me, "reap") /\ othersUnchanged
  BY <1>3 DEF LoadSignals, Goto, Typing, Places
<1>4. CASE ClearSignals(Me, "reap", <<>>) /\ othersUnchanged
  <2>1. task_queue[Me] \o <<>> = task_queue[Me]
    BY ConcatEmptySeq DEF Typing
  <2>2. task_queue' = task_queue
    BY <1>4, <2>1 DEF ClearSignals, Schedule, Typing
  <2> QED BY <1>4, <2>2 DEF ClearSignals, SetActive, Goto, Typing, Places
<1>5. CASE IdleOrRun
  <2>1. pc' \in [Cpu -> Places] /\ cpu_active' \in [Cpu -> BOOLEAN]
    BY <1>5 DEF IdleOrRun, Decide, Goto, Typing, Places
  <2>2. budget' \in [Cpu -> 0 .. TaskBatch]
    <3>1. budget' = budget \/ budget' = [budget EXCEPT ![Me] = TaskBatch]
      BY <1>5 DEF IdleOrRun, Decide
    <3>2. TaskBatch \in 0 .. TaskBatch
      BY ReactorAssumption
    <3> QED BY <3>1, <3>2 DEF Typing
  <2> QED BY <1>5, <2>1, <2>2 DEF IdleOrRun, Decide, Typing
<1>6. CASE NextRound
  BY <1>6, ReactorAssumption DEF NextRound, EndBatch, Goto, Typing, Places
<1>7. CASE Sleep
  BY <1>7 DEF Sleep, CheckPending, Goto, Typing, Places
<1>8. CASE EpollReturns
  BY <1>8 DEF EpollReturns, Goto, Typing, Places
<1>9. CASE Poke
  BY <1>9 DEF Poke, Wakeup, Typing
<1>10. CASE TaskReturns
  BY <1>10 DEF TaskReturns, reactorVars, Typing
<1>11. CASE ReapInterrupted
  BY <1>11 DEF ReapInterrupted, Goto, Typing, Places
<1> QED BY <1>1, <1>2, <1>3, <1>4, <1>5, <1>6, <1>7, <1>8, <1>9, <1>10, <1>11 DEF PollSignals

LEMMA TypingSubmit ==
  ASSUME Typing, NEW k \in Request, Submit(k)
  PROVE  Typing'
<1> USE MeIsCpu DEF ioVars
<1>1. sem' \in [tokens : Nat, waiting : Seq(Clients(Request))]
  BY WaitProperties DEF Submit, Typing
<1>2. task_queue' \in [Cpu -> Seq(Task)]
  <2>1. task_queue[Me] \o <<SubmitTask(k)>> \in Seq(Task)
    <3>1. <<SubmitTask(k)>> \in Seq(Task)
      BY TaskForms
    <3> QED BY <3>1, ConcatProperties DEF Typing
  <2> QED BY <2>1 DEF Submit, Schedule, Typing
<1>3. st' \in [Request -> Stages]
  BY DEF Submit, Typing, Stages
<1> QED BY <1>1, <1>2, <1>3 DEF Submit, Typing

\* The steps that run a task.
LEMMA TypingUser ==
  ASSUME Typing, RunUser
  PROVE  Typing'
<1>1. <<>> \in Seq(Task)
  BY EmptySeq
<1>2. task_queue' \in [Cpu -> Seq(Task)] /\ budget' \in [Cpu -> 0 .. TaskBatch]
  BY <1>1, TakenTask DEF RunUser
<1> QED BY <1>2 DEF RunUser, ioVars, Typing

LEMMA TypingTask ==
  ASSUME Typing, NEW k \in Request, NEW ok \in BOOLEAN,
         RunSubmit(k) \/ RunRefused(k) \/ RunFinish(k, ok)
  PROVE  Typing'
<1> USE MeIsCpu DEF ioVars
<1>1. ASSUME NEW s \in Seq(Task), TakeTask(Me, s)
      PROVE  task_queue' \in [Cpu -> Seq(Task)] /\ budget' \in [Cpu -> 0 .. TaskBatch]
  BY <1>1, TakenTask
<1>2. <<>> \in Seq(Task) /\ <<UserTask>> \in Seq(Task) /\ <<FinishTask(k, FALSE)>> \in Seq(Task)
  <2> DEFINE u == UserTask
             f == FinishTask(k, FALSE)
  <2>1. u \in Task /\ f \in Task
    BY TaskForms
  <2> HIDE DEF u, f
  <2>2. <<u>> \in Seq(Task) /\ <<f>> \in Seq(Task)
    BY <2>1
  <2> QED BY <2>2, EmptySeq DEF u, f
<1>4. CASE RunSubmit(k)
  BY <1>1, <1>2, <1>4 DEF RunSubmit, Typing, Stages
<1>5. CASE RunRefused(k)
  BY <1>1, <1>2, <1>5 DEF RunRefused, Typing, Stages
<1>6. CASE RunFinish(k, ok)
  BY <1>1, <1>2, <1>6 DEF RunFinish, Typing, Stages
<1> QED BY <1>4, <1>5, <1>6

LEMMA TypingKernel ==
  ASSUME Typing, NEW k \in Request, Kernel(k)
  PROVE  Typing'
<1> USE DEF cpuUnchanged, reactorVars
<1>1. CASE KernelCompletes(k)
  <2>1. PICK ok \in BOOLEAN : events' = Append(events, [request |-> k, ok |-> ok])
    BY <1>1 DEF KernelCompletes
  <2>2. events' \in Seq(Event)
    <3>1. [request |-> k, ok |-> ok] \in Event
      BY DEF Event
    <3> QED BY <2>1, <3>1, AppendProperties DEF Typing
  <2> QED BY <1>1, <2>2 DEF KernelCompletes, Typing, Stages
<1>2. CASE KernelSignals(k)
  BY <1>2 DEF KernelSignals, Typing
<1> QED BY <1>1, <1>2 DEF Kernel

\* What reap_io schedules, in the terms of its parts.
LEMMA ReapedQueue ==
  ASSUME Typing, Reap
  PROVE  /\ task_queue'[Me] = task_queue[Me] \o (Finishing \o Submitting(Len(events)))
         /\ task_queue' \in [Cpu -> Seq(Task)]
         /\ Finishing \o Submitting(Len(events)) \in Seq(Task)
<1> USE MeIsCpu
<1>1. Finishing \o Submitting(Len(events)) \in Seq(Task)
  BY FinishingTasks, SubmittingTask, ConcatProperties
<1>2. task_queue' = [task_queue EXCEPT ![Me] = @ \o (Finishing \o Submitting(Len(events)))]
  BY DEF Reap, Schedule, Finishing, Submitting, Granted
<1>3. task_queue[Me] \o (Finishing \o Submitting(Len(events))) \in Seq(Task)
  BY <1>1, ConcatProperties DEF Typing
<1> QED BY <1>1, <1>2, <1>3 DEF Typing

LEMMA TypingReap ==
  ASSUME Typing, Reap
  PROVE  Typing'
<1> USE MeIsCpu
<1>1. sem' \in [tokens : Nat, waiting : Seq(Clients(Request))]
  BY FinishingTasks, ReleaseProperties DEF Reap, Released, Typing
<1>2. st' \in [Request -> Stages]
  BY DEF Reap, Typing, Stages
<1>3. pc' \in [Cpu -> Places] /\ cpu_active' \in [Cpu -> BOOLEAN] /\ events' \in Seq(Event)
  BY EmptySeq DEF Reap, SetActive, Goto, Typing, Places
<1> QED BY <1>1, <1>2, <1>3, ReapedQueue DEF Reap, Typing

LEMMA TypingStep == Typing /\ [Next]_vars => Typing'
<1>1. Typing /\ UNCHANGED vars => Typing'
  BY DEF vars, reactorVars, ioVars, Typing
<1> QED BY <1>1, TypingReactor, TypingUser, TypingSubmit, TypingTask, TypingKernel, TypingReap
        DEF Next, Run

-----------------------------------------------------------------------------
(* Where each request is.                                                  *)

IoTasks == Task \ {UserTask}

RequestOf == [t \in IoTasks |-> t.request]

EventOf == [e \in Event |-> e.request]

\* A request let in has a task that hands it to the kernel; one that is reaped or
\* refused has a task that resolves its future.
Due == {t \in Task :
          /\ t.kind = "submit" => st[t.request] = "granted"
          /\ t.kind = "finish" => \/ st[t.request] = "reaped"
                                  \/ st[t.request] = "refused" /\ t.ok = FALSE}

\* No request is in two tasks.
TasksDue == task_queue[Me] \in Seq(Due) /\ Once(task_queue[Me], IoTasks, RequestOf)

\* A request that waits is in the list of the semaphore once.
WaitersWait ==
  /\ sem.waiting \in Seq(Clients(Having({"waiting"})))
  /\ Once(sem.waiting, Clients(Request), WhoOf(Request))

\* A request that is done is in one completion.
EventsDone ==
  /\ events \in Seq([request : Having({"done"}), ok : BOOLEAN])
  /\ Once(events, Event, EventOf)

KernelWorks == kernel \subseteq Having({"submitted"})

\* Requests that hold a token, and those that lost theirs.
Holders == Having({"granted", "submitted", "done", "refused", "rejected"})

TokensHeld == IsFiniteSet(Holders) /\ sem.tokens + Cardinality(Holders) = MaxIo

InPlace == TasksDue /\ WaitersWait /\ EventsDone /\ KernelWorks

\* A task is of user code or of one request.
LEMMA TaskKinds ==
  ASSUME NEW t \in Task
  PROVE  \/ t = UserTask /\ t.kind = "user"
         \/ /\ t \in IoTasks /\ RequestOf[t] = t.request /\ t.request \in Request
            /\ t.kind = "submit" \/ (t.kind = "finish" /\ t.ok \in BOOLEAN)
<1>1. CASE t = UserTask
  BY <1>1 DEF UserTask
<1>2. CASE t # UserTask
  <2>1. t \in IoTasks /\ RequestOf[t] = t.request
    BY <1>2 DEF IoTasks, RequestOf
  <2>2. \/ \E k \in Request : t = SubmitTask(k)
        \/ \E k \in Request, ok \in BOOLEAN : t = FinishTask(k, ok)
    BY <1>2 DEF Task
  <2> QED BY <2>1, <2>2, TaskForms
<1> QED BY <1>1, <1>2

Tasked == {"granted", "reaped", "refused"}

\* The requests of the tasks.
LEMMA KeysTasked ==
  ASSUME TasksDue, NEW x \in Keys(task_queue[Me], IoTasks, RequestOf)
  PROVE  x \in Request /\ st[x] \in Tasked
<1>1. PICK i \in 1 .. Len(task_queue[Me]) :
        task_queue[Me][i] \in IoTasks /\ x = RequestOf[task_queue[Me][i]]
  BY DEF Keys
<1>2. task_queue[Me][i] \in Due
  BY ElementOfSeq DEF TasksDue
<1> DEFINE t == task_queue[Me][i]
<1> HIDE DEF t
<1>3. t \in IoTasks /\ t \in Due /\ t \in Task /\ x = RequestOf[t]
  BY <1>1, <1>2 DEF t, Due
<1>4. t # UserTask
  BY <1>3 DEF IoTasks
<1> QED BY <1>3, <1>4, TaskKinds DEF Due, Tasked

\* A task stays due as long as its request stays where it is.
LEMMA DueKept ==
  ASSUME NEW t \in Due, t \in IoTasks => st'[t.request] = st[t.request]
  PROVE  t \in Due'
<1>1. t \in Task
  BY DEF Due
<1>2. CASE t = UserTask /\ t.kind = "user"
  BY <1>1, <1>2 DEF Due
<1>3. CASE t \in IoTasks
  BY <1>1, <1>3 DEF Due
<1> QED BY <1>1, <1>2, <1>3, TaskKinds

LEMMA TasksKept ==
  ASSUME TasksDue, UNCHANGED task_queue,
         \A k \in Request : st[k] \in Tasked => st'[k] = st[k]
  PROVE  TasksDue'
<1> DEFINE q == task_queue[Me]
<1>1. ASSUME NEW i \in 1 .. Len(q) PROVE q[i] \in Due'
  <2>1. q[i] \in Due
    BY ElementOfSeq DEF TasksDue
  <2>2. q[i] \in IoTasks => st'[q[i].request] = st[q[i].request]
    <3>1. q[i] \in IoTasks => RequestOf[q[i]] \in Keys(q, IoTasks, RequestOf)
      BY DEF Keys
    <3>2. q[i] \in IoTasks => RequestOf[q[i]] = q[i].request
      BY DEF RequestOf
    <3> HIDE DEF q
    <3> QED BY <3>1, <3>2, KeysTasked DEF q
  <2> QED BY <2>1, <2>2, DueKept
<1>2. q \in Seq(Due')
  BY <1>1, Narrowed DEF TasksDue
<1> QED BY <1>2 DEF TasksDue, Once

LEMMA WaitersKept ==
  ASSUME WaitersWait, UNCHANGED sem,
         \A k \in Request : st[k] = "waiting" => st'[k] = "waiting"
  PROVE  WaitersWait'
<1>1. Clients(Having({"waiting"})) \subseteq Clients(Having({"waiting"})')
  BY DEF Clients, Having
<1>2. sem.waiting \in Seq(Clients(Having({"waiting"})'))
  BY <1>1, SeqMonotonic DEF WaitersWait
<1> QED BY <1>2 DEF WaitersWait, Once, Clients

LEMMA EventsKept ==
  ASSUME EventsDone, UNCHANGED events,
         \A k \in Request : st[k] = "done" => st'[k] = "done"
  PROVE  EventsDone'
<1>1. [request : Having({"done"}), ok : BOOLEAN] \subseteq [request : Having({"done"})', ok : BOOLEAN]
  BY DEF Having
<1>2. events \in Seq([request : Having({"done"})', ok : BOOLEAN])
  BY <1>1, SeqMonotonic DEF EventsDone
<1> QED BY <1>2 DEF EventsDone, Once

LEMMA TokensKept ==
  ASSUME TokensHeld, UNCHANGED sem, Holders' = Holders
  PROVE  TokensHeld'
BY DEF TokensHeld

\* The loop, and the user's code, move no request.
LEMMA NothingMoves ==
  ASSUME InPlace, TokensHeld, UNCHANGED <<task_queue, sem, kernel, events, st>>
  PROVE  InPlace' /\ TokensHeld'
<1>1. Holders' = Holders /\ Having({"submitted"})' = Having({"submitted"})
  BY DEF Holders, Having
<1> QED BY <1>1, TasksKept, WaitersKept, EventsKept, TokensKept DEF InPlace, KernelWorks

LEMMA PlacesInit == Init => InPlace /\ TokensHeld
<1> SUFFICES ASSUME Init PROVE InPlace /\ TokensHeld
  OBVIOUS
<1>1. task_queue[Me] = <<UserTask>>
  BY MeIsCpu DEF Init, ReactorInit
<1>2. UserTask \in Due
  BY TaskForms DEF Due, UserTask
<1>3. TasksDue
  <2>1. <<UserTask>> \in Seq(Due) /\ Once(<<UserTask>>, IoTasks, RequestOf)
    BY <1>2, OnceOne
  <2> QED BY <1>1, <2>1 DEF TasksDue
<1>4. WaitersWait /\ EventsDone /\ KernelWorks
  <2>1. sem.waiting = <<>> /\ events = <<>> /\ kernel = {}
    BY DEF Init, NewSemaphore
  <2> QED BY <2>1, EmptySeq, OnceEmpty DEF WaitersWait, EventsDone, KernelWorks
<1>5. Holders = {}
  BY DEF Init, Holders, Having
<1>6. sem.tokens = MaxIo
  BY DEF Init, NewSemaphore
<1>7. TokensHeld
  BY <1>5, <1>6, FS_EmptySet, FileIoAssumption DEF TokensHeld
<1> QED BY <1>3, <1>4, <1>7 DEF InPlace

\* A task is taken out, and what it schedules is of the request that it was of.
LEMMA TasksTaken ==
  ASSUME Typing, TasksDue, NEW s \in Seq(Due'), TakeTask(Me, s),
         Once(s, IoTasks, RequestOf),
         \A x \in Keys(s, IoTasks, RequestOf) :
           Head(task_queue[Me]) \in IoTasks /\ x = Head(task_queue[Me]).request,
         \A k \in Request : st[k] \in Tasked =>
           \/ st'[k] = st[k]
           \/ Head(task_queue[Me]) \in IoTasks /\ Head(task_queue[Me]).request = k
  PROVE  TasksDue'
<1> DEFINE q == task_queue[Me]
           h == Head(q)
           t == Tail(q)
<1>1. s \in Seq(Task)
  <2>1. Due' \subseteq Task
    BY DEF Due
  <2> QED BY <2>1, SeqMonotonic
<1>2. q \in Seq(Due) /\ q # <<>> /\ Once(q, IoTasks, RequestOf)
  BY <1>1, TakenTask DEF TasksDue
<1>3. /\ h \in Due /\ t \in Seq(Due) /\ Once(t, IoTasks, RequestOf)
      /\ h \in IoTasks => RequestOf[h] \notin Keys(t, IoTasks, RequestOf)
      /\ Keys(t, IoTasks, RequestOf) \subseteq Keys(q, IoTasks, RequestOf)
  BY <1>2, OnceTail
<1>4. h \in IoTasks => RequestOf[h] = h.request
  BY DEF RequestOf
<1>5. task_queue'[Me] = t \o s
  BY <1>1, TakenTask
<1>6. \A x \in Keys(t, IoTasks, RequestOf) :
        x \in Request /\ st[x] \in Tasked /\ ~(h \in IoTasks /\ h.request = x)
  BY <1>3, <1>4, KeysTasked
<1>7. \A x \in Keys(t, IoTasks, RequestOf) : st'[x] = st[x]
  BY <1>6
<1>8. Keys(t, IoTasks, RequestOf) \cap Keys(s, IoTasks, RequestOf) = {}
  BY <1>6
<1> HIDE DEF t, h
<1>9. ASSUME NEW i \in 1 .. Len(t) PROVE t[i] \in Due'
  <2>1. t[i] \in Due
    BY <1>3, ElementOfSeq
  <2>2. t[i] \in IoTasks => RequestOf[t[i]] \in Keys(t, IoTasks, RequestOf)
    BY DEF Keys
  <2>3. t[i] \in IoTasks => RequestOf[t[i]] = t[i].request
    BY DEF RequestOf
  <2> QED BY <1>7, <2>1, <2>2, <2>3, DueKept
<1>10. t \in Seq(Due')
  BY <1>3, <1>9, Narrowed
<1>11. t \o s \in Seq(Due') /\ Once(t \o s, IoTasks, RequestOf)
  BY <1>3, <1>8, <1>10, OnceConcat
<1> QED BY <1>5, <1>11 DEF TasksDue, Once

\* What submit_io_impl_ and the user's code leave of the queue.
LEMMA PlacesUser ==
  ASSUME Typing, InPlace, TokensHeld, RunUser
  PROVE  InPlace' /\ TokensHeld'
<1>1. TakeTask(Me, <<>>) /\ UNCHANGED <<sem, kernel, events, st>>
  BY DEF RunUser, ioVars
<1>2. Holders' = Holders /\ Having({"submitted"})' = Having({"submitted"})
  BY <1>1 DEF Holders, Having
<1>3. <<>> \in Seq(Due') /\ Once(<<>>, IoTasks, RequestOf) /\ Keys(<<>>, IoTasks, RequestOf) = {}
  BY EmptySeq, OnceEmpty
<1>4. TasksDue'
  BY <1>1, <1>3, TasksTaken DEF InPlace
<1> QED BY <1>1, <1>2, <1>4, WaitersKept, EventsKept, TokensKept DEF InPlace, KernelWorks

\* The task at the head is due.
LEMMA HeadDue ==
  ASSUME TasksDue, task_queue[Me] # <<>>, NEW k \in Request, NEW ok \in BOOLEAN
  PROVE  /\ Head(task_queue[Me]) = SubmitTask(k) => st[k] = "granted"
         /\ Head(task_queue[Me]) = FinishTask(k, ok) =>
              st[k] = "reaped" \/ (st[k] = "refused" /\ ok = FALSE)
<1>1. Head(task_queue[Me]) \in Due
  BY HeadTailProperties DEF TasksDue
<1> QED BY <1>1, TaskForms DEF Due

\* io_submit: the request goes from its task to the kernel.
LEMMA PlacesRunSubmit ==
  ASSUME Typing, InPlace, TokensHeld, NEW k \in Request, RunSubmit(k)
  PROVE  InPlace' /\ TokensHeld'
<1>1. /\ TakeTask(Me, <<>>) /\ Head(task_queue[Me]) = SubmitTask(k) /\ task_queue[Me] # <<>>
      /\ kernel' = kernel \cup {k} /\ UNCHANGED <<sem, events>>
      /\ st' = [st EXCEPT ![k] = "submitted"]
  BY DEF RunSubmit
<1>2. st[k] = "granted"
  BY <1>1, HeadDue DEF InPlace
<1>3. st'[k] = "submitted" /\ \A x \in Request : x # k => st'[x] = st[x]
  BY <1>1 DEF Typing
<1>4. Head(task_queue[Me]) \in IoTasks /\ Head(task_queue[Me]).request = k
  BY <1>1, TaskForms DEF IoTasks
<1>5. <<>> \in Seq(Due') /\ Once(<<>>, IoTasks, RequestOf) /\ Keys(<<>>, IoTasks, RequestOf) = {}
  BY EmptySeq, OnceEmpty
<1>6. TasksDue'
  BY <1>1, <1>3, <1>4, <1>5, TasksTaken DEF InPlace
<1>7. KernelWorks'
  BY <1>1, <1>2, <1>3 DEF InPlace, KernelWorks, Having
<1>8. Holders' = Holders
  BY <1>2, <1>3 DEF Holders, Having
<1> QED BY <1>1, <1>2, <1>3, <1>6, <1>7, <1>8, WaitersKept, EventsKept, TokensKept DEF InPlace

\* io_submit refuses the request: its chain ends with its token.
LEMMA PlacesRefused ==
  ASSUME Typing, InPlace, TokensHeld, NEW k \in Request, RunRefused(k)
  PROVE  InPlace' /\ TokensHeld'
<1> DEFINE f == FinishTask(k, FALSE)
<1>1. /\ TakeTask(Me, <<f>>) /\ Head(task_queue[Me]) = SubmitTask(k) /\ task_queue[Me] # <<>>
      /\ UNCHANGED <<sem, events, kernel>>
      /\ st' = [st EXCEPT ![k] = "refused"]
  BY DEF RunRefused, ioVars
<1>2. st[k] = "granted"
  BY <1>1, HeadDue DEF InPlace
<1>3. st'[k] = "refused" /\ \A x \in Request : x # k => st'[x] = st[x]
  BY <1>1 DEF Typing
<1>4. Head(task_queue[Me]) \in IoTasks /\ Head(task_queue[Me]).request = k
  BY <1>1, TaskForms DEF IoTasks
<1>5. f \in IoTasks /\ RequestOf[f] = k /\ f \in Due'
  <2>1. f \in Task /\ f # UserTask /\ f.request = k /\ f.ok = FALSE /\ f.kind = "finish"
    BY TaskForms
  <2> HIDE DEF f
  <2>2. f \in IoTasks /\ RequestOf[f] = k
    BY <2>1 DEF IoTasks, RequestOf
  <2> QED BY <1>3, <2>1, <2>2 DEF Due
<1> HIDE DEF f
<1>6. <<f>> \in Seq(Due') /\ Once(<<f>>, IoTasks, RequestOf) /\ Keys(<<f>>, IoTasks, RequestOf) = {k}
  BY <1>5, OnceOne
<1>7. TasksDue'
  BY <1>1, <1>3, <1>4, <1>6, TasksTaken DEF InPlace
<1>8. KernelWorks'
  BY <1>1, <1>2, <1>3 DEF InPlace, KernelWorks, Having
<1>9. Holders' = Holders
  BY <1>2, <1>3 DEF Holders, Having
<1> QED BY <1>1, <1>2, <1>3, <1>7, <1>8, <1>9, WaitersKept, EventsKept, TokensKept DEF InPlace

\* The future of the user is resolved.
LEMMA PlacesFinish ==
  ASSUME Typing, InPlace, TokensHeld, NEW k \in Request, NEW ok \in BOOLEAN, RunFinish(k, ok)
  PROVE  InPlace' /\ TokensHeld'
<1>1. /\ TakeTask(Me, <<UserTask>>) /\ Head(task_queue[Me]) = FinishTask(k, ok)
      /\ task_queue[Me] # <<>>
      /\ UNCHANGED <<sem, events, kernel>>
      /\ st' = [st EXCEPT ![k] = IF ok THEN "value" ELSE IF @ = "refused" THEN "rejected"
                                 ELSE "exception"]
  BY DEF RunFinish, ioVars
<1>2. st[k] = "reaped" \/ (st[k] = "refused" /\ ok = FALSE)
  BY <1>1, HeadDue DEF InPlace
<1>3. /\ st'[k] = IF st[k] = "refused" THEN "rejected" ELSE IF ok THEN "value" ELSE "exception"
      /\ \A x \in Request : x # k => st'[x] = st[x]
  BY <1>1, <1>2 DEF Typing
<1>4. Head(task_queue[Me]) \in IoTasks /\ Head(task_queue[Me]).request = k
  BY <1>1, TaskForms DEF IoTasks
<1>5. UserTask \in Due' /\ UserTask \notin IoTasks
  BY TaskForms DEF Due, UserTask, IoTasks
<1>6. /\ <<UserTask>> \in Seq(Due') /\ Once(<<UserTask>>, IoTasks, RequestOf)
      /\ Keys(<<UserTask>>, IoTasks, RequestOf) = {}
  BY <1>5, OnceOne
<1>7. TasksDue'
  BY <1>1, <1>3, <1>4, <1>6, TasksTaken DEF InPlace
<1>8. KernelWorks'
  BY <1>1, <1>2, <1>3 DEF InPlace, KernelWorks, Having
<1>9. Holders' = Holders
  BY <1>2, <1>3 DEF Holders, Having
<1> QED BY <1>1, <1>2, <1>3, <1>7, <1>8, <1>9, WaitersKept, EventsKept, TokensKept DEF InPlace

\* The kernel: the request goes into a completion.
LEMMA PlacesKernel ==
  ASSUME Typing, InPlace, TokensHeld, NEW k \in Request, Kernel(k)
  PROVE  InPlace' /\ TokensHeld'
<1> USE DEF cpuUnchanged, reactorVars
<1>1. CASE KernelSignals(k)
  BY <1>1, NothingMoves DEF KernelSignals
<1>2. CASE KernelCompletes(k)
  <2>1. PICK ok \in BOOLEAN : events' = Append(events, [request |-> k, ok |-> ok])
    BY <1>2 DEF KernelCompletes
  <2>2. /\ k \in kernel /\ kernel' = kernel \ {k} /\ UNCHANGED <<task_queue, sem>>
        /\ st' = [st EXCEPT ![k] = "done"]
    BY <1>2 DEF KernelCompletes
  <2>3. st[k] = "submitted"
    BY <2>2 DEF InPlace, KernelWorks, Having
  <2>4. st'[k] = "done" /\ \A x \in Request : x # k => st'[x] = st[x]
    BY <2>2 DEF Typing
  <2>5. EventsDone'
    <3> DEFINE e == [request |-> k, ok |-> ok]
               D == [request : Having({"done"})', ok : BOOLEAN]
    <3>1. e \in D /\ e \in Event /\ EventOf[e] = k
      BY <2>4 DEF Having, Event, EventOf
    <3>2. [request : Having({"done"}), ok : BOOLEAN] \subseteq D
      BY <2>3, <2>4 DEF Having
    <3>3. events \in Seq(D)
      BY <3>2, SeqMonotonic DEF InPlace, EventsDone
    <3>4. k \notin Keys(events, Event, EventOf)
      <4>1. ASSUME NEW i \in 1 .. Len(events) PROVE EventOf[events[i]] # k
        <5>1. events[i] \in [request : Having({"done"}), ok : BOOLEAN]
          BY ElementOfSeq DEF InPlace, EventsDone
        <5>2. events[i] \in Event /\ events[i].request # k
          BY <2>3, <5>1 DEF Event, Having
        <5> QED BY <5>2 DEF EventOf
      <4> QED BY <4>1 DEF Keys
    <3> HIDE DEF e, D
    <3>5. Append(events, e) \in Seq(D) /\ Once(Append(events, e), Event, EventOf)
      BY <3>1, <3>3, <3>4, OnceAppend DEF InPlace, EventsDone
    <3> QED BY <2>1, <3>5 DEF EventsDone, Once, e, D
  <2>6. KernelWorks'
    BY <2>2, <2>4 DEF InPlace, KernelWorks, Having
  <2>7. Holders' = Holders
    BY <2>3, <2>4 DEF Holders, Having
  <2> QED BY <2>2, <2>3, <2>4, <2>5, <2>6, <2>7, TasksKept, WaitersKept, TokensKept
          DEF InPlace, Tasked
<1> QED BY <1>1, <1>2 DEF Kernel

\* What is scheduled joins the queue.
LEMMA TasksScheduled ==
  ASSUME TasksDue, NEW s \in Seq(Due'), task_queue'[Me] = task_queue[Me] \o s,
         Once(s, IoTasks, RequestOf),
         \A x \in Keys(s, IoTasks, RequestOf) : st[x] \notin Tasked,
         \A k \in Request : st[k] \in Tasked => st'[k] = st[k]
  PROVE  TasksDue'
<1> DEFINE q == task_queue[Me]
<1>1. \A x \in Keys(q, IoTasks, RequestOf) : x \in Request /\ st[x] \in Tasked
  BY KeysTasked
<1>2. Keys(q, IoTasks, RequestOf) \cap Keys(s, IoTasks, RequestOf) = {}
  BY <1>1
<1>3. ASSUME NEW i \in 1 .. Len(q) PROVE q[i] \in Due'
  <2>1. q[i] \in Due
    BY ElementOfSeq DEF TasksDue
  <2>2. q[i] \in IoTasks => RequestOf[q[i]] \in Keys(q, IoTasks, RequestOf)
    BY DEF Keys
  <2>3. q[i] \in IoTasks => RequestOf[q[i]] = q[i].request
    BY DEF RequestOf
  <2> HIDE DEF q
  <2> QED BY <1>1, <2>1, <2>2, <2>3, DueKept
<1>4. q \in Seq(Due')
  BY <1>3, Narrowed DEF TasksDue
<1>5. q \o s \in Seq(Due') /\ Once(q \o s, IoTasks, RequestOf)
  BY <1>2, <1>4, OnceConcat DEF TasksDue
<1> QED BY <1>5 DEF TasksDue, Once

\* submit_io_: a new request takes a token and gets a task, or waits.
LEMMA PlacesSubmit ==
  ASSUME Typing, InPlace, TokensHeld, NEW k \in Request, Submit(k)
  PROVE  InPlace' /\ TokensHeld'
<1> USE MeIsCpu
<1>1. /\ st[k] = "new" /\ \A x \in Request : x # k => st'[x] = st[x]
      /\ st'[k] = IF Admits(sem, 1) THEN "granted" ELSE "waiting"
      /\ UNCHANGED <<kernel, events>> /\ sem' = AfterWait(sem, 1, k)
  BY DEF Submit, ioVars, Typing
<1>2. sem \in [tokens : Nat, waiting : Seq(Clients(Request))]
  BY DEF Typing
<1>3. /\ Admits(sem, 1) => sem'.tokens = sem.tokens - 1 /\ sem'.waiting = sem.waiting
      /\ ~Admits(sem, 1) => sem'.tokens = sem.tokens
  BY <1>1, <1>2 DEF AfterWait
<1>4. EventsDone' /\ KernelWorks'
  BY <1>1, EventsKept DEF InPlace, KernelWorks, Having
<1>5. CASE Admits(sem, 1)
  <2> DEFINE s == <<SubmitTask(k)>>
  <2> HIDE DEF s
  <2>1. SubmitTask(k) \in IoTasks /\ RequestOf[SubmitTask(k)] = k /\ SubmitTask(k) \in Due'
    <3> DEFINE f == SubmitTask(k)
    <3>1. f \in Task /\ f # UserTask /\ f.request = k /\ f.kind = "submit"
      BY TaskForms
    <3> HIDE DEF f
    <3>2. f \in IoTasks /\ RequestOf[f] = k
      BY <3>1 DEF IoTasks, RequestOf
    <3>3. f \in Due'
      BY <1>1, <1>5, <3>1 DEF Due
    <3> QED BY <3>2, <3>3 DEF f
  <2>2. s \in Seq(Due') /\ Once(s, IoTasks, RequestOf) /\ Keys(s, IoTasks, RequestOf) = {k}
    <3> DEFINE f == SubmitTask(k)
    <3>1. f \in IoTasks /\ RequestOf[f] = k /\ f \in Due'
      BY <2>1
    <3> HIDE DEF f
    <3>2. /\ <<f>> \in Seq(Due') /\ Once(<<f>>, IoTasks, RequestOf)
          /\ Keys(<<f>>, IoTasks, RequestOf) = IF f \in IoTasks THEN {RequestOf[f]} ELSE {}
      BY <3>1, OnceOne
    <3>3. Keys(<<f>>, IoTasks, RequestOf) = {k}
      BY <3>1, <3>2
    <3> QED BY <3>2, <3>3 DEF f, s
  <2>3. task_queue'[Me] = task_queue[Me] \o s
    BY <1>5 DEF Submit, Schedule, Typing, s
  <2>4. TasksDue'
    <3>1. \A x \in Keys(s, IoTasks, RequestOf) : st[x] \notin Tasked
      BY <1>1, <2>2 DEF Tasked
    <3>2. \A x \in Request : st[x] \in Tasked => st'[x] = st[x]
      BY <1>1 DEF Tasked
    <3> QED BY <2>2, <2>3, <3>1, <3>2, TasksScheduled DEF InPlace
  <2>5. WaitersWait'
    <3>1. sem'.waiting = sem.waiting
      BY <1>5, <1>3
    <3>2. Clients(Having({"waiting"})) \subseteq Clients(Having({"waiting"})')
      BY <1>1 DEF Clients, Having
    <3>3. sem.waiting \in Seq(Clients(Having({"waiting"})'))
      BY <3>2, SeqMonotonic DEF InPlace, WaitersWait
    <3> QED BY <3>1, <3>3 DEF InPlace, WaitersWait, Once, Clients
  <2>6. TokensHeld'
    <3>1. Holders' = Holders \cup {k} /\ k \notin Holders
      BY <1>1, <1>5 DEF Holders, Having
    <3>2. sem'.tokens = sem.tokens - 1 /\ sem.tokens \in Nat
      BY <1>2, <1>5, <1>3
    <3>3. /\ IsFiniteSet(Holders') /\ Cardinality(Holders') = Cardinality(Holders) + 1
          /\ Cardinality(Holders) \in Nat
      BY <3>1, FS_AddElement, FS_CardinalityType DEF TokensHeld
    <3> QED BY <3>2, <3>3, FileIoAssumption DEF TokensHeld
  <2> QED BY <1>4, <2>4, <2>5, <2>6 DEF InPlace
<1>6. CASE ~Admits(sem, 1)
  <2>1. UNCHANGED task_queue
    BY <1>6 DEF Submit
  <2>2. TasksDue'
    BY <1>1, <2>1, TasksKept DEF InPlace, Tasked
  <2>3. WaitersWait'
    <3> DEFINE e == [tokens |-> 1, who |-> k]
               C == Clients(Having({"waiting"})')
    <3>1. e \in C /\ e \in Clients(Request) /\ WhoOf(Request)[e] = k
      BY <1>1, <1>6 DEF Clients, Having, WhoOf
    <3>2. Clients(Having({"waiting"})) \subseteq C
      BY <1>1 DEF Clients, Having
    <3>3. sem.waiting \in Seq(C)
      BY <3>2, SeqMonotonic DEF InPlace, WaitersWait
    <3>4. k \notin Keys(sem.waiting, Clients(Request), WhoOf(Request))
      <4>1. ASSUME NEW i \in 1 .. Len(sem.waiting) PROVE WhoOf(Request)[sem.waiting[i]] # k
        <5>1. sem.waiting[i] \in Clients(Having({"waiting"}))
          BY ElementOfSeq DEF InPlace, WaitersWait
        <5>2. sem.waiting[i] \in Clients(Request) /\ sem.waiting[i].who # k
          BY <1>1, <5>1 DEF Clients, Having
        <5> QED BY <5>2 DEF WhoOf
      <4> QED BY <4>1 DEF Keys
    <3>5. sem'.waiting = Append(sem.waiting, e)
      BY <1>1, <1>2, <1>6, WaitProperties
    <3> HIDE DEF e, C
    <3>6. /\ Append(sem.waiting, e) \in Seq(C)
          /\ Once(Append(sem.waiting, e), Clients(Request), WhoOf(Request))
      BY <3>1, <3>3, <3>4, OnceAppend DEF InPlace, WaitersWait
    <3> QED BY <3>5, <3>6 DEF WaitersWait, Once, C, Clients
  <2>4. TokensHeld'
    <3>1. Holders' = Holders
      BY <1>1, <1>6 DEF Holders, Having
    <3>2. sem'.tokens = sem.tokens
      BY <1>6, <1>3
    <3> QED BY <3>1, <3>2 DEF TokensHeld
  <2> QED BY <1>4, <2>2, <2>3, <2>4 DEF InPlace
<1> QED BY <1>5, <1>6

-----------------------------------------------------------------------------
(* reap_io.                                                                *)

\* The requests that are reaped.
Reaped == {events[i].request : i \in 1 .. Len(events)}

LEMMA ReapedRequests ==
  ASSUME Typing, InPlace
  PROVE  /\ Reaped \subseteq Having({"done"})
         /\ IsFiniteSet(Reaped) /\ Cardinality(Reaped) = Len(events)
<1>1. ASSUME NEW i \in 1 .. Len(events)
      PROVE  events[i] \in Event /\ events[i].request \in Having({"done"})
                /\ EventOf[events[i]] = events[i].request
  <2>1. events[i] \in [request : Having({"done"}), ok : BOOLEAN] /\ events[i] \in Event
    BY ElementOfSeq DEF InPlace, EventsDone, Typing
  <2> QED BY <2>1 DEF EventOf
<1>2. /\ IsFiniteSet(Keys(events, Event, EventOf))
      /\ Cardinality(Keys(events, Event, EventOf)) = Len(events)
      /\ Keys(events, Event, EventOf) = {EventOf[events[i]] : i \in 1 .. Len(events)}
  BY OnceCounts DEF Typing, InPlace, EventsDone
<1>3. Reaped = Keys(events, Event, EventOf)
  BY <1>1, <1>2 DEF Reaped
<1> QED BY <1>1, <1>2, <1>3 DEF Reaped

\* Where reap_io takes each request.
LEMMA ReapedStages ==
  ASSUME Typing, InPlace, Reap, NEW x \in Request
  PROVE  /\ x \in Granted(Len(events)) => st[x] = "waiting" /\ st'[x] = "granted"
         /\ x \in Reaped => st[x] = "done" /\ st'[x] = "reaped"
         /\ x \notin Granted(Len(events)) \cup Reaped => st'[x] = st[x]
<1> DEFINE n == Len(events)
           r == \E i \in 1 .. n : events[i].request = x
<1>1. st'[x] = CASE x \in Granted(n) -> "granted" [] r -> "reaped" [] OTHER -> st[x]
  BY DEF Reap, Granted
<1>2. r <=> x \in Reaped
  BY DEF Reaped
<1>3. x \in Reaped => st[x] = "done"
  BY ReapedRequests DEF Having
<1>4. x \in Granted(n) => st[x] = "waiting"
  <2> SUFFICES ASSUME x \in Granted(n) PROVE st[x] = "waiting"
    OBVIOUS
  <2>1. n \in Nat
    BY FinishingTasks
  <2>2. x = Head(sem.waiting).who /\ Grants(sem, n)
    BY <2>1, SubmittingTask
  <2>3. Head(sem.waiting) \in Clients(Having({"waiting"}))
    BY <2>2, HeadTailProperties DEF Grants, InPlace, WaitersWait
  <2> QED BY <2>2, <2>3 DEF Clients, Having
<1> HIDE DEF r, n
<1> QED BY <1>1, <1>2, <1>3, <1>4 DEF n

\* The tasks that reap_io schedules are due once it is done, one for each request.
LEMMA ReapedTasks ==
  ASSUME Typing, InPlace, Reap
  PROVE  LET s == Finishing \o Submitting(Len(events))
         IN  /\ s \in Seq(Due') /\ Once(s, IoTasks, RequestOf)
             /\ \A x \in Keys(s, IoTasks, RequestOf) : st[x] \in {"done", "waiting"}
<1> DEFINE n == Len(events)
           a == Finishing
           b == Submitting(n)
           w == Head(sem.waiting).who
<1>1. /\ a \in Seq(Task) /\ Len(a) = n /\ n \in Nat
      /\ \A i \in 1 .. n : /\ events[i].request \in Request /\ events[i].ok \in BOOLEAN
                           /\ a[i] = FinishTask(events[i].request, events[i].ok)
  BY FinishingTasks
<1>2. /\ b = IF Grants(sem, n) THEN <<SubmitTask(w)>> ELSE <<>>
      /\ Grants(sem, n) => Granted(n) = {w} /\ w \in Request
  <2>1. n \in Nat
    BY <1>1
  <2> QED BY <2>1, SubmittingTask, ReleaseProperties DEF Typing
<1>3. ASSUME NEW i \in 1 .. n
      PROVE  /\ a[i] \in Due' /\ a[i] \in IoTasks /\ RequestOf[a[i]] = events[i].request
             /\ st[events[i].request] = "done"
  <2>1. events[i].request \in Reaped
    BY DEF Reaped
  <2>2. st[events[i].request] = "done" /\ st'[events[i].request] = "reaped"
    BY <1>1, <2>1, ReapedStages
  <2> DEFINE f == a[i]
  <2>3. /\ f \in Task /\ f # UserTask /\ f.kind = "finish" /\ f.request = events[i].request
        /\ f = FinishTask(events[i].request, events[i].ok)
    BY <1>1, TaskForms
  <2> HIDE DEF f
  <2>4. f \in IoTasks /\ RequestOf[f] = f.request
    BY <2>3 DEF IoTasks, RequestOf
  <2>5. f \in Due'
    BY <2>2, <2>3 DEF Due
  <2> QED BY <2>2, <2>3, <2>4, <2>5 DEF f
<1> HIDE DEF a, b, n
<1>4. a \in Seq(Due')
  BY <1>1, <1>3, Narrowed
<1>5. Once(a, IoTasks, RequestOf)
  <2>1. ASSUME NEW i \in 1 .. n, NEW j \in 1 .. n, events[i].request = events[j].request
        PROVE  i = j
    <3>1. \A m \in 1 .. n : events[m] \in Event
      BY ElementOfSeq DEF Typing, n
    <3>2. \A m \in 1 .. n : EventOf[events[m]] = events[m].request
      BY <3>1 DEF EventOf
    <3> QED BY <2>1, <3>1, <3>2 DEF InPlace, EventsDone, Once, n
  <2> QED BY <1>1, <1>3, <2>1 DEF Once
<1>6. \A x \in Keys(a, IoTasks, RequestOf) : st[x] = "done"
  BY <1>1, <1>3 DEF Keys
<1>7. /\ b \in Seq(Due') /\ Once(b, IoTasks, RequestOf)
      /\ \A x \in Keys(b, IoTasks, RequestOf) : st[x] = "waiting"
  <2>1. CASE ~Grants(sem, n)
    BY <1>2, <2>1, EmptySeq, OnceEmpty
  <2>2. CASE Grants(sem, n)
    <3> DEFINE f == SubmitTask(w)
    <3>1. st[w] = "waiting" /\ st'[w] = "granted"
      BY <1>2, <2>2, ReapedStages DEF n
    <3>2. f \in Task /\ f # UserTask /\ f.kind = "submit" /\ f.request = w
      BY <1>2, <2>2, TaskForms
    <3>3. b = <<f>>
      BY <1>2, <2>2
    <3> HIDE DEF f, w
    <3>4. f \in IoTasks /\ RequestOf[f] = w
      BY <3>2 DEF IoTasks, RequestOf
    <3>5. f \in Due'
      BY <3>1, <3>2 DEF Due
    <3>6. /\ <<f>> \in Seq(Due') /\ Once(<<f>>, IoTasks, RequestOf)
          /\ Keys(<<f>>, IoTasks, RequestOf) = IF f \in IoTasks THEN {RequestOf[f]} ELSE {}
      BY <3>5, OnceOne
    <3> QED BY <3>1, <3>3, <3>4, <3>6
  <2> QED BY <2>1, <2>2
<1>8. Keys(a, IoTasks, RequestOf) \cap Keys(b, IoTasks, RequestOf) = {}
  BY <1>6, <1>7
<1>9. a \o b \in Seq(Due') /\ Once(a \o b, IoTasks, RequestOf)
  BY <1>4, <1>5, <1>7, <1>8, OnceConcat
<1>10. \A x \in Keys(a \o b, IoTasks, RequestOf) : st[x] \in {"done", "waiting"}
  <2>1. Keys(a \o b, IoTasks, RequestOf)
          \subseteq Keys(a, IoTasks, RequestOf) \cup Keys(b, IoTasks, RequestOf)
    BY <1>4, <1>7, KeysConcat
  <2> QED BY <1>6, <1>7, <2>1
<1> QED BY <1>9, <1>10 DEF a, b, n

\* reap_io: each completion gives a token back, and the request let in takes one.
LEMMA PlacesReap ==
  ASSUME Typing, InPlace, TokensHeld, Reap
  PROVE  InPlace' /\ TokensHeld'
<1> DEFINE n == Len(events)
           g == Grants(sem, n)
           w == Head(sem.waiting).who
<1>1. /\ n \in Nat /\ sem \in [tokens : Nat, waiting : Seq(Clients(Request))]
      /\ events' = <<>> /\ kernel' = kernel /\ sem' = AfterRelease(sem, n)
  BY FinishingTasks DEF Reap, Released, Typing
<1>2. Granted(n) = IF g THEN {w} ELSE {}
  BY <1>1, SubmittingTask
<1>3. /\ g => /\ sem'.tokens = sem.tokens + n - 1 /\ sem'.waiting = Tail(sem.waiting)
              /\ w \in Request /\ sem.waiting # <<>>
      /\ ~g => sem'.tokens = sem.tokens + n /\ sem'.waiting = sem.waiting
  <2> HIDE DEF n
  <2>1. /\ Grants(sem, n) =>
             /\ AfterRelease(sem, n).tokens = sem.tokens + n - 1
             /\ AfterRelease(sem, n).waiting = Tail(sem.waiting)
             /\ AfterRelease(sem, n).waiting # sem.waiting
             /\ Head(sem.waiting).who \in Request
        /\ ~Grants(sem, n) =>
             /\ AfterRelease(sem, n).tokens = sem.tokens + n
             /\ AfterRelease(sem, n).waiting = sem.waiting
    BY <1>1, ReleaseProperties
  <2>2. g => sem.waiting # <<>>
    BY DEF Grants
  <2> QED BY <1>1, <2>1, <2>2
<1>4. \A x \in Request : /\ g /\ x = w => st[x] = "waiting" /\ st'[x] = "granted"
                         /\ x \in Reaped => st[x] = "done" /\ st'[x] = "reaped"
                         /\ x \notin Reaped /\ ~(g /\ x = w) => st'[x] = st[x]
  BY <1>2, ReapedStages
<1> HIDE DEF g, n, w
<1>5. TasksDue'
  <2> DEFINE s == Finishing \o Submitting(Len(events))
  <2>1. /\ s \in Seq(Due') /\ Once(s, IoTasks, RequestOf)
        /\ \A x \in Keys(s, IoTasks, RequestOf) : st[x] \in {"done", "waiting"}
    BY ReapedTasks
  <2>2. task_queue'[Me] = task_queue[Me] \o s
    BY ReapedQueue
  <2> HIDE DEF s
  <2>3. /\ \A x \in Keys(s, IoTasks, RequestOf) : st[x] \notin Tasked
        /\ \A x \in Request : st[x] \in Tasked => st'[x] = st[x]
    BY <1>4, <2>1 DEF Tasked
  <2> QED BY <2>1, <2>2, <2>3, TasksScheduled DEF InPlace
<1>6. WaitersWait'
  <2> DEFINE q == sem.waiting
             C == Clients(Having({"waiting"})')
  <2>1. q \in Seq(Clients(Having({"waiting"}))) /\ Once(q, Clients(Request), WhoOf(Request))
    BY DEF InPlace, WaitersWait
  <2>2. ASSUME NEW c \in Clients(Having({"waiting"})), ~(g /\ c.who = w)
        PROVE  c \in C
    BY <1>4, <2>2 DEF Clients, Having
  <2> HIDE DEF q, C
  <2>3. CASE ~g
    <3>1. \A i \in 1 .. Len(q) : q[i] \in C
      BY <2>1, <2>2, <2>3, ElementOfSeq
    <3>2. q \in Seq(C)
      BY <2>1, <3>1, Narrowed
    <3> QED BY <1>3, <2>1, <2>3, <3>2 DEF WaitersWait, Once, q, C, Clients
  <2>4. CASE g
    <3> DEFINE t == Tail(q)
    <3>1. q # <<>> /\ sem'.waiting = t /\ w = Head(q).who
      BY <1>3, <2>4 DEF q, w
    <3>2. /\ Head(q) \in Clients(Having({"waiting"})) /\ t \in Seq(Clients(Having({"waiting"})))
          /\ Once(t, Clients(Request), WhoOf(Request))
          /\ Head(q) \in Clients(Request) =>
               WhoOf(Request)[Head(q)] \notin Keys(t, Clients(Request), WhoOf(Request))
      BY <2>1, <3>1, OnceTail
    <3>3. Clients(Having({"waiting"})) \subseteq Clients(Request)
      BY DEF Clients, Having
    <3>4. \A c \in Clients(Request) : WhoOf(Request)[c] = c.who
      BY DEF WhoOf
    <3> HIDE DEF t
    <3>5. ASSUME NEW i \in 1 .. Len(t) PROVE t[i] \in C
      <4>1. t[i] \in Clients(Having({"waiting"})) /\ t[i] \in Clients(Request)
        BY <3>2, <3>3, ElementOfSeq
      <4>2. t[i].who \in Keys(t, Clients(Request), WhoOf(Request))
        BY <3>4, <4>1 DEF Keys
      <4>3. t[i].who # w
        BY <3>1, <3>2, <3>3, <3>4, <4>2
      <4> QED BY <2>2, <4>1, <4>3
    <3>6. t \in Seq(C)
      BY <3>2, <3>5, Narrowed
    <3> QED BY <3>1, <3>2, <3>6 DEF WaitersWait, Once, C, Clients
  <2> QED BY <2>3, <2>4
<1>7. EventsDone'
  BY <1>1, EmptySeq, OnceEmpty DEF EventsDone, Once
<1>8. KernelWorks'
  BY <1>1, <1>4 DEF InPlace, KernelWorks, Having
<1>9. TokensHeld'
  <2>1. Reaped \subseteq Holders /\ IsFiniteSet(Reaped) /\ Cardinality(Reaped) = n
    BY ReapedRequests DEF Holders, Having, n
  <2>2. IsFiniteSet(Holders) /\ Holders \cap Reaped = Reaped
    BY <2>1 DEF TokensHeld
  <2>3. IsFiniteSet(Holders \ Reaped) /\ Cardinality(Holders \ Reaped) = Cardinality(Holders) - n
    <3>1. /\ IsFiniteSet(Holders \ Reaped)
          /\ Cardinality(Holders \ Reaped) = Cardinality(Holders) - Cardinality(Holders \cap Reaped)
      BY <2>2, FS_Difference
    <3> QED BY <2>1, <2>2, <3>1
  <2>4. Cardinality(Holders) \in Nat /\ sem.tokens \in Nat
    BY <1>1, <2>2, FS_CardinalityType
  <2>5. CASE ~g
    <3>1. Holders' = Holders \ Reaped
      BY <1>4, <2>5 DEF Holders, Having
    <3> QED BY <1>1, <1>3, <2>3, <2>4, <2>5, <3>1, FileIoAssumption DEF TokensHeld
  <2>6. CASE g
    <3>1. Holders' = (Holders \ Reaped) \cup {w} /\ w \notin Holders \ Reaped
      BY <1>3, <1>4, <2>6 DEF Holders, Having
    <3>2. IsFiniteSet(Holders') /\ Cardinality(Holders') = Cardinality(Holders) - n + 1
      BY <2>3, <3>1, FS_AddElement
    <3> QED BY <1>1, <1>3, <2>4, <2>6, <3>2, FileIoAssumption DEF TokensHeld
  <2> QED BY <2>5, <2>6
<1> QED BY <1>5, <1>6, <1>7, <1>8, <1>9 DEF InPlace

LEMMA PlacesStep == Typing /\ InPlace /\ TokensHeld /\ [Next]_vars => InPlace' /\ TokensHeld'
<1> SUFFICES ASSUME Typing, InPlace, TokensHeld, [Next]_vars PROVE InPlace' /\ TokensHeld'
  OBVIOUS
<1>1. CASE UNCHANGED vars
  BY <1>1, NothingMoves DEF vars, reactorVars, ioVars
<1>2. CASE Boot \/ Signal \/ PollSignals \/ IdleOrRun \/ NextRound \/ Sleep \/ EpollReturns
             \/ Poke \/ TaskReturns \/ ReapInterrupted
  BY <1>2, TypingReactor, NothingMoves
<1> QED BY <1>1, <1>2, PlacesUser, PlacesSubmit, PlacesRunSubmit, PlacesRefused, PlacesFinish,
           PlacesKernel, PlacesReap DEF Next, Run

\* The invariant of the accounts.
LEMMA AccountsHold == Safe => [](Typing /\ InPlace /\ TokensHeld)
<1>1. Init => Typing /\ InPlace /\ TokensHeld
  BY TypingInit, PlacesInit
<1>2. Typing /\ InPlace /\ TokensHeld /\ [Next]_vars => (Typing /\ InPlace /\ TokensHeld)'
  BY TypingStep, PlacesStep
<1> QED BY <1>1, <1>2, PTL DEF Safe

\* Type correctness: the semaphore never counts more tokens than max_io, and a
\* batch never runs more tasks than it may (file_io.cpp:62, 91).
THEOREM TypeCorrect == Safe => []TypeOK
<1>1. Typing /\ TokensHeld => TypeOK
  <2> SUFFICES ASSUME Typing, TokensHeld PROVE TypeOK
    OBVIOUS
  <2>1. sem.tokens \in 0 .. MaxIo
    <3>1. Cardinality(Holders) \in Nat /\ sem.tokens \in Nat
      BY FS_CardinalityType DEF TokensHeld, Typing
    <3> QED BY <3>1, FileIoAssumption DEF TokensHeld
  <2>2. pc[Me] \in Places /\ task_queue[Me] \in Seq(Task) /\ budget[Me] \in 0 .. TaskBatch
    BY MeIsCpu DEF Typing
  <2> QED BY <2>1, <2>2 DEF TypeOK, Typing, Places, Stages, Event
<1> QED BY <1>1, AccountsHold, PTL

\* Each token is free, held by one request from the moment it is let in until its
\* completion is reaped, or lost with a request the kernel refused: the context,
\* made for max_io events, has room for every request let in (file_io.cpp:11, 62, 91).
THEOREM TokensAreAccounted == Safe => []TokensMatchRequests
<1>1. Typing /\ TokensHeld => TokensMatchRequests
  <2> SUFFICES ASSUME Typing, TokensHeld PROVE TokensMatchRequests
    OBVIOUS
  <2> DEFINE a == Having({"granted", "submitted", "done"})
             b == Having({"refused", "rejected"})
  <2>1. Holders = a \cup b /\ a \cap b = {}
    BY DEF Holders, Having
  <2> HIDE DEF a, b
  <2>2. IsFiniteSet(a) /\ IsFiniteSet(b)
    BY <2>1, FS_Subset DEF TokensHeld
  <2>3. Cardinality(Holders) = Cardinality(a) + Cardinality(b) - Cardinality(a \cap b)
    BY <2>1, <2>2, FS_Union
  <2>4. Cardinality(a \cap b) = 0 /\ Cardinality(a) \in Nat /\ Cardinality(b) \in Nat
    BY <2>1, <2>2, FS_EmptySet, FS_CardinalityType
  <2>5. sem.tokens + (Cardinality(a) + Cardinality(b) - 0) = MaxIo
    BY <2>3, <2>4 DEF TokensHeld
  <2>6. sem.tokens \in Nat
    BY DEF Typing
  <2>7. sem.tokens + Cardinality(a) + Cardinality(b) = MaxIo
    BY <2>4, <2>5, <2>6
  <2> QED BY <2>7 DEF TokensMatchRequests, Leaked, a, b
<1> QED BY <1>1, AccountsHold, PTL

-----------------------------------------------------------------------------
(* The CPU does not sleep on work.                                         *)

\* User code runs inside the batch only.
UserInBatch == user => pc[Me] = "tasks"

\* A completion that is there has signalled the eventfd, or the kernel is about to.
EventsSignalled == events # <<>> => eventfd \/ owed # {}

\* No token is left for a request that waits.
Settled == sem.waiting # <<>> => sem.tokens = 0

\* What the CPU has made sure of when it goes idle.
IdleSettled ==
  /\ pc[Me] = "decide" /\ Idle(Me) => Settled
  /\ pc[Me] \in {"masked", "asleep"} => Settled

AwakeInv == UserInBatch /\ EventsSignalled /\ IdleSettled

LEMMA AwakeInit == Init => AwakeInv
<1> SUFFICES ASSUME Init PROVE AwakeInv
  OBVIOUS
<1>1. pc[Me] = "boot" /\ ~user /\ events = <<>>
  BY MeIsCpu DEF Init, ReactorInit
<1> QED BY <1>1 DEF AwakeInv, UserInBatch, EventsSignalled, IdleSettled

\* The loop goes idle only when there is nothing to run and no poller was active.
LEMMA AwakeReactor ==
  ASSUME Typing, AwakeInv,
         Boot \/ Signal \/ PollSignals \/ IdleOrRun \/ NextRound \/ Sleep \/ EpollReturns
           \/ Poke \/ TaskReturns \/ ReapInterrupted
  PROVE  AwakeInv'
<1> USE MeIsCpu
<1>1. UNCHANGED <<task_queue, sem, kernel, events, owed, eventfd>> /\ Settled' = Settled
  BY TypingReactor DEF Settled
<1>2. EventsSignalled'
  BY <1>1 DEF AwakeInv, EventsSignalled
<1>3. CASE TaskReturns
  <2>1. pc'[Me] = "tasks" /\ ~user'
    BY <1>3 DEF TaskReturns, reactorVars
  <2> QED BY <1>2, <2>1 DEF AwakeInv, UserInBatch, IdleSettled
<1>4. user' = user \/ TaskReturns
  BY DEF Boot, Signal, PollSignals, IdleOrRun, NextRound, Sleep, EpollReturns, Poke,
         ReapInterrupted, othersUnchanged
<1>5. ASSUME ~TaskReturns
      PROVE  \/ pc'[Me] = pc[Me] /\ cpu_active'[Me] = cpu_active[Me]
             \/ pc'[Me] \in {"signal", "clear", "reap", "dead"} /\ pc[Me] # "tasks"
             \/ pc'[Me] = "signal" /\ ~user
             \/ pc[Me] = "decide" /\ pc'[Me] = IF Idle(Me) THEN "masked" ELSE "tasks"
             \/ pc[Me] = "masked" /\ pc'[Me] \in {"signal", "asleep"}
  <2>1. CASE Boot
    BY <2>1 DEF Boot, InitPollers, Goto, Typing
  <2>2. CASE Signal
    BY <2>2 DEF Signal, Deliver, Typing
  <2>3. CASE LoadSignals(Me, "reap")
    BY <2>3 DEF LoadSignals, Goto, Typing
  <2>4. CASE ClearSignals(Me, "reap", <<>>)
    BY <2>4 DEF ClearSignals, Goto, Typing
  <2>5. CASE IdleOrRun
    BY <2>5 DEF IdleOrRun, Decide, Goto, Typing
  <2>6. CASE NextRound
    BY <2>6 DEF NextRound, EndBatch, Goto, Typing
  <2>7. CASE Sleep
    BY <2>7 DEF Sleep, CheckPending, Goto, Typing
  <2>8. CASE EpollReturns
    BY <2>8 DEF EpollReturns, Goto, Typing
  <2>9. CASE Poke
    BY <2>9 DEF Poke
  <2>10. CASE ReapInterrupted
    BY <2>10 DEF ReapInterrupted, Goto, Typing
  <2> QED BY <1>5, <2>1, <2>2, <2>3, <2>4, <2>5, <2>6, <2>7, <2>8, <2>9, <2>10 DEF PollSignals
<1>6. pc'[Me] = pc[Me] /\ cpu_active'[Me] = cpu_active[Me] => Idle(Me)' = Idle(Me)
  BY <1>1 DEF Idle
<1> QED BY <1>1, <1>2, <1>3, <1>4, <1>5, <1>6 DEF AwakeInv, UserInBatch, IdleSettled

\* The steps inside a batch.
LEMMA AwakeBatch ==
  ASSUME Typing, AwakeInv, NEW k \in Request, NEW ok \in BOOLEAN,
         RunUser \/ Submit(k) \/ RunSubmit(k) \/ RunRefused(k) \/ RunFinish(k, ok)
  PROVE  AwakeInv'
<1>1. pc[Me] = "tasks" /\ pc' = pc /\ UNCHANGED <<events, owed, eventfd>>
  BY DEF RunUser, Submit, RunSubmit, RunRefused, RunFinish, TakeTask, ioVars
<1> QED BY <1>1 DEF AwakeInv, UserInBatch, EventsSignalled, IdleSettled

\* The kernel owes a signal from the moment the completion is there.
LEMMA AwakeKernel ==
  ASSUME AwakeInv, NEW k \in Request, Kernel(k)
  PROVE  AwakeInv'
<1>1. UNCHANGED <<pc, cpu_active, task_queue, sem, user>>
  BY DEF Kernel, KernelCompletes, KernelSignals, cpuUnchanged, reactorVars
<1>2. Settled' = Settled /\ Idle(Me)' = Idle(Me)
  BY <1>1 DEF Settled, Idle
<1>3. EventsSignalled'
  BY DEF Kernel, KernelCompletes, KernelSignals, AwakeInv, EventsSignalled
<1> QED BY <1>1, <1>2, <1>3 DEF AwakeInv, UserInBatch, IdleSettled

\* reap_io calls release() even for no completions, and so leaves no token unused
\* behind a request that waits, unless it makes the CPU run.
LEMMA AwakeReap ==
  ASSUME Typing, AwakeInv, Reap
  PROVE  AwakeInv'
<1> USE MeIsCpu
<1> DEFINE n == Len(events)
           g == Grants(sem, n)
<1>1. /\ n \in Nat /\ sem \in [tokens : Nat, waiting : Seq(Clients(Request))]
      /\ pc[Me] = "reap" /\ pc'[Me] = "decide" /\ events' = <<>> /\ user' = user
      /\ cpu_active'[Me] = (cpu_active[Me] \/ n > 0) /\ sem' = AfterRelease(sem, n)
  BY FinishingTasks DEF Reap, Released, Goto, SetActive, Typing
<1>2. Idle(Me)' => Settled'
  <2> SUFFICES ASSUME Idle(Me)' PROVE Settled'
    OBVIOUS
  <2>1. n = 0
    <3>1. ~(n > 0)
      BY <1>1 DEF Idle
    <3> HIDE DEF n
    <3> QED BY <1>1, <3>1
  <2>2. ~g
    <3>1. task_queue[Me] \o (Finishing \o Submitting(n)) = <<>>
      BY ReapedQueue DEF Idle
    <3>2. Finishing \o Submitting(n) = <<>>
      BY <3>1, ReapedQueue, ConcatEqualIffEmpty, MeIsCpu DEF Typing
    <3>3. Submitting(n) = <<>>
      BY <1>1, <3>2, FinishingTasks, SubmittingTask, ConcatEqualIffEmpty
    <3>4. g => Submitting(n) = <<SubmitTask(Head(sem.waiting).who)>>
      BY <1>1, SubmittingTask
    <3> QED BY <3>3, <3>4
  <2> HIDE DEF n
  <2>3. sem'.tokens = sem.tokens + n /\ sem'.waiting = sem.waiting
    BY <1>1, <2>2 DEF AfterRelease
  <2>4. sem.waiting # <<>> => ~(1 <= sem.tokens + n)
    BY <1>1, <2>2, ReleaseProperties
  <2> QED BY <1>1, <2>1, <2>3, <2>4 DEF Settled
<1> QED BY <1>1, <1>2 DEF AwakeInv, UserInBatch, EventsSignalled, IdleSettled

LEMMA AwakeStep == Typing /\ AwakeInv /\ [Next]_vars => AwakeInv'
<1>1. ASSUME AwakeInv, UNCHANGED vars PROVE AwakeInv'
  <2>1. Idle(Me)' = Idle(Me) /\ Settled' = Settled
    BY <1>1 DEF vars, reactorVars, Idle, Settled
  <2> QED BY <1>1, <2>1 DEF vars, reactorVars, ioVars, AwakeInv, UserInBatch, EventsSignalled,
                            IdleSettled
<1>2. ASSUME Typing, AwakeInv, RunUser PROVE AwakeInv'
  <2>1. pc[Me] = "tasks" /\ pc' = pc /\ UNCHANGED <<events, owed, eventfd>>
    BY <1>2 DEF RunUser, TakeTask, ioVars
  <2> QED BY <1>2, <2>1 DEF AwakeInv, UserInBatch, EventsSignalled, IdleSettled
<1> QED BY <1>1, <1>2, AwakeReactor, AwakeBatch, AwakeKernel, AwakeReap DEF Next, Run

LEMMA AwakeHolds == Safe => []AwakeInv
<1>1. Safe => []Typing
  BY AccountsHold, PTL
<1> QED BY <1>1, AwakeInit, AwakeStep, PTL DEF Safe

\* The CPU does not sleep on a completion unless the eventfd is readable, or the
\* kernel has still to signal it (file_io.cpp:59-60).
THEOREM NoCompletionIsForgotten == Safe => []NoCompletionForgotten
<1>1. AwakeInv => NoCompletionForgotten
  BY DEF AwakeInv, EventsSignalled, NoCompletionForgotten
<1> QED BY <1>1, AwakeHolds, PTL

\* The CPU does not sleep with a request waiting that a token could let in: reap_io
\* calls release() for no completions as well (file_io.cpp:91).
THEOREM NoWaiterIsSleptOn == Safe => []NoAdmissibleWaiterSleeps
<1>1. AwakeInv => NoAdmissibleWaiterSleeps
  BY DEF AwakeInv, IdleSettled, Settled, NoAdmissibleWaiterSleeps
<1> QED BY <1>1, AwakeHolds, PTL

-----------------------------------------------------------------------------
(* Every request that is under way is somewhere.                           *)

HasTask(k) == \E t \in Items(task_queue[Me]) : t \in IoTasks /\ t.request = k

Waits(k) == \E c \in Items(sem.waiting) : c.who = k

HasEvent(k) == \E e \in Items(events) : e.request = k

\* What InPlace says the other way round: a request at a stage is in the place for it.
Present ==
  \A k \in Request :
    /\ st[k] \in Tasked => HasTask(k)
    /\ st[k] = "waiting" => Waits(k)
    /\ st[k] = "done" => HasEvent(k)
    /\ st[k] = "submitted" => k \in kernel

\* The CPU sleeps with an empty queue only.
NothingToRun == pc[Me] \in {"masked", "asleep"} => task_queue[Me] = <<>>

LEMMA PresentInit == Init => Present /\ NothingToRun
<1> SUFFICES ASSUME Init PROVE Present /\ NothingToRun
  OBVIOUS
<1>1. pc[Me] = "boot" /\ \A k \in Request : st[k] = "new"
  BY MeIsCpu DEF Init, ReactorInit
<1> QED BY <1>1 DEF Present, NothingToRun, Tasked

\* Where no request moves.
LEMMA PresentKept ==
  ASSUME Present, UNCHANGED <<task_queue, sem, kernel, events, st>>
  PROVE  Present'
BY DEF Present, HasTask, Waits, HasEvent, Items

\* All tasks but the one that runs stay, and what it schedules joins them.
LEMMA TakenItems ==
  ASSUME Typing, NEW s \in Seq(Task), TakeTask(Me, s)
  PROVE  /\ Items(s) \subseteq Items(task_queue[Me])'
         /\ \A t \in Items(task_queue[Me]) :
              t # Head(task_queue[Me]) => t \in Items(task_queue[Me])'
<1>1. PICK q \in Seq(Task) : q = task_queue[Me] /\ q # <<>>
  BY TakenTask
<1>2. PICK r \in Seq(Task) : r = Tail(q) /\ task_queue'[Me] = r \o s
  BY <1>1, TakenTask
<1>3. Items(q) = {Head(q)} \cup Items(r)
  BY <1>1, <1>2, OrderedTail
<1>4. Items(r \o s) = Items(r) \cup Items(s)
  BY OrderedConcat
<1>5. Items(task_queue[Me])' = Items(r) \cup Items(s)
  BY <1>2, <1>4 DEF Items
<1> QED BY <1>1, <1>3, <1>5

LEMMA ScheduledItems ==
  ASSUME Typing, NEW s \in Seq(Task), task_queue'[Me] = task_queue[Me] \o s
  PROVE  Items(task_queue[Me])' = Items(task_queue[Me]) \cup Items(s)
<1>1. PICK q \in Seq(Task) : q = task_queue[Me]
  BY MeIsCpu DEF Typing
<1>2. Items(q \o s) = Items(q) \cup Items(s)
  BY OrderedConcat
<1>3. Items(task_queue[Me])' = Items(q \o s)
  BY <1>1 DEF Items
<1> QED BY <1>1, <1>2, <1>3

\* A task of request k, or of user code, is taken out and leaves a task for k behind
\* if k still needs one.
LEMMA PresentTaken ==
  ASSUME Typing, Present, NEW k \in Request, NEW s \in Seq(Task), TakeTask(Me, s),
         UNCHANGED <<sem, events>>, kernel \subseteq kernel',
         Head(task_queue[Me]) \in IoTasks => Head(task_queue[Me]).request = k,
         \A x \in Request : x # k => st'[x] = st[x],
         st'[k] \in Tasked => HasTask(k)',
         st'[k] = "submitted" => k \in kernel',
         st'[k] \notin {"waiting", "done"}
  PROVE  Present'
<1>1. \A x \in Request : x # k /\ HasTask(x) => HasTask(x)'
  BY TakenItems DEF HasTask
<1>2. \A x \in Request : (Waits(x) => Waits(x)') /\ (HasEvent(x) => HasEvent(x)')
  BY DEF Waits, HasEvent, Items
<1> QED BY <1>1, <1>2 DEF Present

LEMMA PresentUser ==
  ASSUME Typing, Present, RunUser
  PROVE  Present'
<1>1. TakeTask(Me, <<>>) /\ UNCHANGED <<sem, kernel, events, st>>
  BY DEF RunUser, ioVars
<1>2. <<>> \in Seq(Task)
  BY EmptySeq
<1>3. \A t \in IoTasks : t # Head(task_queue[Me])
  BY DEF RunUser, IoTasks
<1>4. \A x \in Request : HasTask(x) => HasTask(x)'
  BY <1>1, <1>2, <1>3, TakenItems DEF HasTask
<1>5. \A x \in Request : (Waits(x) => Waits(x)') /\ (HasEvent(x) => HasEvent(x)')
  BY <1>1 DEF Waits, HasEvent, Items
<1> QED BY <1>1, <1>4, <1>5 DEF Present

LEMMA PresentTask ==
  ASSUME Typing, Present, NEW k \in Request, NEW ok \in BOOLEAN,
         RunSubmit(k) \/ RunRefused(k) \/ RunFinish(k, ok)
  PROVE  Present'
<1>1. UNCHANGED <<sem, events>> /\ kernel \subseteq kernel'
  BY DEF RunSubmit, RunRefused, RunFinish, ioVars
<1>2. Head(task_queue[Me]) \in IoTasks => Head(task_queue[Me]).request = k
  BY TaskForms DEF RunSubmit, RunRefused, RunFinish
<1>3. CASE RunSubmit(k)
  <2>1. TakeTask(Me, <<>>) /\ kernel' = kernel \cup {k} /\ st' = [st EXCEPT ![k] = "submitted"]
    BY <1>3 DEF RunSubmit
  <2>2. <<>> \in Seq(Task)
    BY EmptySeq
  <2>3. \A x \in Request : st'[x] = IF x = k THEN "submitted" ELSE st[x]
    BY <2>1 DEF Typing
  <2>4. st'[k] \notin Tasked /\ st'[k] = "submitted" /\ k \in kernel'
    BY <2>1, <2>3 DEF Tasked
  <2> QED BY <1>1, <1>2, <2>1, <2>2, <2>3, <2>4, PresentTaken
<1>4. CASE RunRefused(k)
  <2>1. PICK f : f = FinishTask(k, FALSE)
    OBVIOUS
  <2>2. f \in IoTasks /\ f \in Task /\ f.request = k
    BY <2>1, TaskForms DEF IoTasks
  <2>3. TakeTask(Me, <<f>>) /\ st' = [st EXCEPT ![k] = "refused"]
    BY <1>4, <2>1 DEF RunRefused
  <2>4. <<f>> \in Seq(Task) /\ Items(<<f>>) = {f}
    BY <2>2, OrderedOne
  <2>5. HasTask(k)'
    <3>1. f \in Items(task_queue[Me])'
      BY <2>3, <2>4, TakenItems
    <3> QED BY <2>2, <3>1 DEF HasTask
  <2>6. \A x \in Request : st'[x] = IF x = k THEN "refused" ELSE st[x]
    BY <2>3 DEF Typing
  <2>7. /\ \A x \in Request : x # k => st'[x] = st[x]
        /\ st'[k] \notin {"submitted", "waiting", "done"}
    BY <2>6
  <2> QED BY <1>1, <1>2, <2>3, <2>4, <2>5, <2>7, PresentTaken
<1>5. CASE RunFinish(k, ok)
  <2>1. PICK f : f = UserTask
    OBVIOUS
  <2>2. TakeTask(Me, <<f>>)
        /\ st' = [st EXCEPT ![k] = IF ok THEN "value" ELSE IF @ = "refused" THEN "rejected"
                                   ELSE "exception"]
    BY <1>5, <2>1 DEF RunFinish
  <2>3. <<f>> \in Seq(Task)
    <3>1. f \in Task
      BY <2>1, TaskForms
    <3> QED BY <3>1
  <2>4. /\ \A x \in Request : x # k => st'[x] = st[x]
        /\ st'[k] \in {"value", "rejected", "exception"}
    BY <2>2 DEF Typing
  <2>5. st'[k] \notin Tasked /\ st'[k] \notin {"submitted", "waiting", "done"}
    BY <2>4 DEF Tasked
  <2> QED BY <1>1, <1>2, <2>2, <2>3, <2>4, <2>5, PresentTaken
<1> QED BY <1>3, <1>4, <1>5

LEMMA PresentKernel ==
  ASSUME Typing, InPlace, Present, NEW k \in Request, Kernel(k)
  PROVE  Present'
<1> USE DEF cpuUnchanged, reactorVars
<1>1. CASE KernelSignals(k)
  BY <1>1, PresentKept DEF KernelSignals
<1>2. CASE KernelCompletes(k)
  <2>1. PICK e \in Event : e.request = k /\ events' = Append(events, e)
    <3>1. PICK ok \in BOOLEAN : events' = Append(events, [request |-> k, ok |-> ok])
      BY <1>2 DEF KernelCompletes
    <3> QED BY <3>1 DEF Event
  <2>2. /\ kernel' = kernel \ {k} /\ UNCHANGED <<task_queue, sem>>
        /\ \A x \in Request : st'[x] = IF x = k THEN "done" ELSE st[x]
    BY <1>2 DEF KernelCompletes, Typing
  <2>3. Items(events)' = Items(events) \cup {e}
    <3>1. Items(Append(events, e)) = Items(events) \cup {e}
      BY ItemsAppend DEF Typing
    <3> QED BY <2>1, <3>1 DEF Items
  <2>4. HasEvent(k)' /\ \A x \in Request : HasEvent(x) => HasEvent(x)'
    BY <2>1, <2>3 DEF HasEvent
  <2>5. \A x \in Request : (HasTask(x) => HasTask(x)') /\ (Waits(x) => Waits(x)')
    BY <2>2 DEF HasTask, Waits, Items
  <2> QED BY <2>2, <2>4, <2>5 DEF Present, Tasked
<1> QED BY <1>1, <1>2 DEF Kernel

LEMMA PresentSubmit ==
  ASSUME Typing, Present, NEW k \in Request, Submit(k)
  PROVE  Present'
<1> USE MeIsCpu
<1>1. /\ UNCHANGED <<kernel, events>> /\ sem' = AfterWait(sem, 1, k)
      /\ \A x \in Request : st'[x] = IF x # k THEN st[x]
                                     ELSE IF Admits(sem, 1) THEN "granted" ELSE "waiting"
  BY DEF Submit, ioVars, Typing
<1>2. sem \in [tokens : Nat, waiting : Seq(Clients(Request))]
  BY DEF Typing
<1>3. \A x \in Request : HasEvent(x) => HasEvent(x)'
  BY <1>1 DEF HasEvent, Items
<1>4. sem' = AfterWait(sem, 1, k)
  BY <1>1
<1>5. CASE Admits(sem, 1)
  <2>1. sem'.waiting = sem.waiting
    BY <1>2, <1>5, <1>4 DEF AfterWait
  <2>2. \A x \in Request : Waits(x) => Waits(x)'
    BY <2>1 DEF Waits, Items
  <2>3. PICK f : f = SubmitTask(k)
    OBVIOUS
  <2>4. f \in IoTasks /\ f \in Task /\ f.request = k
    BY <2>3, TaskForms DEF IoTasks
  <2>5. task_queue'[Me] = task_queue[Me] \o <<f>>
    BY <1>5, <2>3 DEF Submit, Schedule, Typing
  <2>6. <<f>> \in Seq(Task) /\ Items(<<f>>) = {f}
    BY <2>4, OrderedOne
  <2>7. Items(task_queue[Me])' = Items(task_queue[Me]) \cup {f}
    BY <2>5, <2>6, ScheduledItems
  <2>8. HasTask(k)' /\ \A x \in Request : HasTask(x) => HasTask(x)'
    BY <2>4, <2>7 DEF HasTask
  <2> QED BY <1>1, <1>3, <1>5, <2>2, <2>8 DEF Present, Tasked
<1>6. CASE ~Admits(sem, 1)
  <2>1. PICK c \in Clients(Request) : c.who = k /\ sem'.waiting = Append(sem.waiting, c)
    <3>1. [tokens |-> 1, who |-> k] \in Clients(Request)
      BY DEF Clients
    <3>2. sem'.waiting = Append(sem.waiting, [tokens |-> 1, who |-> k])
      BY <1>2, <1>6, <1>4 DEF AfterWait
    <3> QED BY <3>1, <3>2
  <2>2. Items(sem.waiting)' = Items(sem.waiting) \cup {c}
    <3>1. Items(Append(sem.waiting, c)) = Items(sem.waiting) \cup {c}
      BY <1>2, ItemsAppend
    <3> QED BY <2>1, <3>1 DEF Items
  <2>3. Waits(k)' /\ \A x \in Request : Waits(x) => Waits(x)'
    BY <2>1, <2>2 DEF Waits
  <2>4. \A x \in Request : HasTask(x) => HasTask(x)'
    BY <1>6 DEF Submit, HasTask, Items
  <2> QED BY <1>1, <1>3, <1>6, <2>3, <2>4 DEF Present, Tasked
<1> QED BY <1>5, <1>6

\* What was done is reaped, and who was let in has a task.
LEMMA PresentReap ==
  ASSUME Typing, InPlace, Present, Reap
  PROVE  Present'
<1> DEFINE n == Len(events)
           w == Head(sem.waiting).who
<1>1. n \in Nat /\ kernel' = kernel /\ sem' = AfterRelease(sem, n)
  BY FinishingTasks DEF Reap, Released
<1>2. /\ Granted(n) = IF Grants(sem, n) THEN {w} ELSE {}
      /\ Submitting(n) = IF Grants(sem, n) THEN <<SubmitTask(w)>> ELSE <<>>
      /\ Submitting(n) \in Seq(Task)
  BY <1>1, SubmittingTask
<1>3. /\ Items(task_queue[Me])' = Items(task_queue[Me]) \cup Items(Finishing) \cup Items(Submitting(n))
      /\ Items(Finishing \o Submitting(n)) = Items(Finishing) \cup Items(Submitting(n))
  <2>1. PICK a \in Seq(Task), b \in Seq(Task) : a = Finishing /\ b = Submitting(n)
    BY <1>2, FinishingTasks
  <2>2. Items(a \o b) = Items(a) \cup Items(b)
    BY OrderedConcat
  <2>3. Items(task_queue[Me])' = Items(task_queue[Me]) \cup Items(Finishing \o Submitting(n))
    BY ReapedQueue, ScheduledItems
  <2> QED BY <2>1, <2>2, <2>3
<1>4. ASSUME NEW x \in Granted(n) PROVE HasTask(x)'
  <2>1. Grants(sem, n) /\ x = w /\ w \in Request
    BY <1>1, <1>2, ReleaseProperties DEF Typing
  <2>2. PICK f : f = SubmitTask(w)
    OBVIOUS
  <2>3. f \in IoTasks /\ f.request = x
    BY <2>1, <2>2, TaskForms DEF IoTasks
  <2>4. f \in Items(Submitting(n))
    BY <1>2, <2>1, <2>2, OrderedOne
  <2> QED BY <1>3, <2>3, <2>4 DEF HasTask
<1>5. ASSUME NEW x \in Reaped PROVE HasTask(x)'
  <2>1. PICK i \in 1 .. n : x = events[i].request
    BY DEF Reaped
  <2>2. PICK f : f = Finishing[i]
    OBVIOUS
  <2>3. f \in IoTasks /\ f.request = x
    BY <2>1, <2>2, FinishingTasks, TaskForms DEF IoTasks
  <2>4. f \in Items(Finishing)
    BY <2>2, FinishingTasks DEF Items
  <2> QED BY <1>3, <2>3, <2>4 DEF HasTask
<1>6. \A x \in Request : HasTask(x) => HasTask(x)'
  BY <1>3 DEF HasTask
<1>7. \A x \in Request : Waits(x) /\ x \notin Granted(n) => Waits(x)'
  <2>1. CASE Grants(sem, n)
    <3>1. PICK q \in Seq(Clients(Request)) : q = sem.waiting /\ q # <<>>
      BY <2>1 DEF Grants, Typing
    <3>2. sem'.waiting = Tail(q)
      BY <1>1, <2>1, <3>1 DEF AfterRelease
    <3>3. Items(q) = {Head(q)} \cup Items(Tail(q))
      BY <3>1, OrderedTail
    <3>4. Items(sem.waiting)' = Items(Tail(q))
      BY <3>2 DEF Items
    <3> QED BY <1>2, <2>1, <3>1, <3>3, <3>4 DEF Waits
  <2>2. CASE ~Grants(sem, n)
    <3>1. sem'.waiting = sem.waiting
      BY <1>1, <2>2 DEF AfterRelease, Typing
    <3> QED BY <3>1 DEF Waits, Items
  <2> QED BY <2>1, <2>2
<1>8. \A x \in Request : HasEvent(x) => x \in Reaped
  BY DEF HasEvent, Items, Reaped
<1>9. \A x \in Request :
        /\ x \in Granted(n) => st[x] = "waiting" /\ st'[x] = "granted"
        /\ x \in Reaped => st[x] = "done" /\ st'[x] = "reaped"
        /\ x \notin Granted(n) \cup Reaped => st'[x] = st[x]
  BY ReapedStages
<1> HIDE DEF n, w
<1>10. ASSUME NEW x \in Request
       PROVE  /\ st'[x] \in Tasked => HasTask(x)'
              /\ st'[x] = "waiting" => Waits(x)'
              /\ st'[x] # "done"
              /\ st'[x] = "submitted" => x \in kernel'
  <2>1. CASE x \in Granted(n) \cup Reaped
    BY <1>4, <1>5, <1>9, <2>1
  <2>2. CASE x \notin Granted(n) \cup Reaped
    <3>1. st'[x] = st[x]
      BY <1>9, <2>2
    <3> QED BY <1>1, <1>6, <1>7, <1>8, <2>2, <3>1 DEF Present
  <2> QED BY <2>1, <2>2
<1> QED BY <1>10 DEF Present

LEMMA PresentStep == Typing /\ InPlace /\ Present /\ [Next]_vars => Present'
<1> SUFFICES ASSUME Typing, InPlace, Present, [Next]_vars PROVE Present'
  OBVIOUS
<1>1. CASE UNCHANGED vars
  BY <1>1, PresentKept DEF vars, reactorVars, ioVars
<1>2. CASE Boot \/ Signal \/ PollSignals \/ IdleOrRun \/ NextRound \/ Sleep \/ EpollReturns
             \/ Poke \/ TaskReturns \/ ReapInterrupted
  BY <1>2, TypingReactor, PresentKept
<1> QED BY <1>1, <1>2, PresentUser, PresentSubmit, PresentTask, PresentKernel, PresentReap
        DEF Next, Run

LEMMA NothingToRunStep == Typing /\ AwakeInv /\ NothingToRun /\ [Next]_vars => NothingToRun'
<1> SUFFICES ASSUME Typing, AwakeInv, NothingToRun, [Next]_vars PROVE NothingToRun'
  OBVIOUS
<1> USE MeIsCpu DEF NothingToRun
<1>1. CASE UNCHANGED <<pc, task_queue>>
  BY <1>1
<1>2. CASE Boot
  BY <1>2 DEF Boot, InitPollers, Goto, Typing
<1>3. CASE PollSignals
  BY <1>3 DEF PollSignals, LoadSignals, ClearSignals, Goto, Typing
<1>4. CASE IdleOrRun
  BY <1>4 DEF IdleOrRun, Decide, Idle, Goto, Typing
<1>5. CASE NextRound
  BY <1>5 DEF NextRound, EndBatch, Goto, Typing
<1>6. CASE Sleep
  BY <1>6 DEF Sleep, CheckPending, Goto, Typing
<1>7. CASE Reap \/ ReapInterrupted \/ EpollReturns
  BY <1>7 DEF Reap, ReapInterrupted, EpollReturns, Goto, Typing
<1>8. CASE Signal
  BY <1>8 DEF Signal, Deliver, Typing
<1>9. CASE RunUser
  BY <1>9 DEF RunUser, TakeTask
<1>10. ASSUME NEW k \in Request, NEW ok \in BOOLEAN, RunSubmit(k) \/ RunRefused(k) \/ RunFinish(k, ok)
       PROVE  NothingToRun'
  BY <1>10 DEF RunSubmit, RunRefused, RunFinish, TakeTask
<1>11. ASSUME NEW k \in Request, Submit(k) PROVE NothingToRun'
  BY <1>11 DEF Submit, AwakeInv, UserInBatch
<1>12. ASSUME NEW k \in Request, Kernel(k) PROVE NothingToRun'
  BY <1>12 DEF Kernel, KernelCompletes, KernelSignals, cpuUnchanged, reactorVars
<1>13. CASE TaskReturns \/ Poke \/ UNCHANGED vars
  BY <1>1, <1>13 DEF TaskReturns, Poke, othersUnchanged, vars, reactorVars
<1> QED BY <1>2, <1>3, <1>4, <1>5, <1>6, <1>7, <1>8, <1>9, <1>10, <1>11, <1>12, <1>13 DEF Next, Run

LEMMA PresentHolds == Safe => [](Present /\ NothingToRun)
BY AccountsHold, AwakeHolds, PresentInit, PresentStep, NothingToRunStep, PTL DEF Safe

\* Where a request can be while the CPU sleeps.
LEMMA AtRest ==
  ASSUME Typing, InPlace, AwakeInv, Present, NothingToRun, pc[Me] = "asleep", NEW k \in Request
  PROVE  \/ st[k] = "new" \/ Resolved(k)
         \/ st[k] = "waiting" /\ sem.tokens = 0
         \/ st[k] = "submitted" /\ k \in kernel
         \/ st[k] = "done" /\ events # <<>>
<1>1. st[k] \in Stages
  BY DEF Typing
<1>2. st[k] \notin Tasked
  <2>1. Items(task_queue[Me]) = {}
    <3>1. Items(<<>>) = {}
      BY ItemsEmpty
    <3> QED BY <3>1 DEF NothingToRun
  <2> QED BY <2>1 DEF Present, HasTask
<1>3. st[k] = "waiting" => sem.tokens = 0
  <2>1. Waits(k) => sem.waiting # <<>>
    BY ItemsEmpty DEF Waits
  <2> QED BY <2>1 DEF Present, AwakeInv, IdleSettled, Settled
<1>4. st[k] = "done" => events # <<>>
  BY ItemsEmpty DEF Present, HasEvent
<1> QED BY <1>1, <1>2, <1>3, <1>4 DEF Present, Stages, Tasked, Resolved

LEMMA AtRestHolds ==
  Safe => [](Typing /\ InPlace /\ TokensHeld /\ AwakeInv /\ Present /\ NothingToRun)
BY AccountsHold, AwakeHolds, PresentHolds, PTL

\* While the CPU sleeps, somebody attends to each request that user code made: the
\* kernel has it, its completion makes the eventfd readable, or every token is taken
\* (file_io.cpp:59-91, cpu.cpp:116-137).
THEOREM NoRequestIsUnattended == Safe => []EveryRequestIsAttended
<1>1. Typing /\ InPlace /\ AwakeInv /\ Present /\ NothingToRun => EveryRequestIsAttended
  BY AtRest DEF EveryRequestIsAttended, AwakeInv, EventsSignalled
<1> QED BY <1>1, AtRestHolds, PTL

\* Nobody has anything to do: the CPU sleeps, the kernel is not working on a request
\* and no completion is to be reaped.
Quiet == pc[Me] = "asleep" /\ kernel = {} /\ events = <<>>

QuietMeansDone ==
  Quiet => \A k \in Request : \/ st[k] = "new" \/ Resolved(k)
                              \/ st[k] = "waiting" /\ Leaked = MaxIo

\* When all is quiet every request that user code made has been resolved, but for those
\* that wait because requests the kernel refused kept every token (file_io.cpp:65-76:
\* nobody gives the token back when io_submit fails).
THEOREM AllDoneWhenQuiet == Safe => []QuietMeansDone
<1>1. ASSUME Typing, InPlace, TokensHeld, AwakeInv, Present, NothingToRun PROVE QuietMeansDone
  <2> SUFFICES ASSUME Quiet, NEW k \in Request, st[k] # "new", ~Resolved(k)
               PROVE  st[k] = "waiting" /\ Leaked = MaxIo
    BY DEF QuietMeansDone
  <2>1. \A j \in Request : st[j] = "new" \/ Resolved(j) \/ (st[j] = "waiting" /\ sem.tokens = 0)
    BY <1>1, AtRest DEF Quiet
  <2>2. st[k] = "waiting" /\ sem.tokens = 0
    BY <2>1
  <2>3. Holders = Having({"refused", "rejected"})
    BY <2>1 DEF Holders, Having, Resolved
  <2>4. IsFiniteSet(Holders) /\ 0 + Cardinality(Holders) = MaxIo /\ Cardinality(Holders) \in Nat
    BY <1>1, <2>2, FS_CardinalityType DEF TokensHeld
  <2> QED BY <2>2, <2>3, <2>4 DEF Leaked
<1> QED BY <1>1, AtRestHolds, PTL
=============================================================================
