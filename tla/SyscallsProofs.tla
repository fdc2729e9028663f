--------------------------- MODULE SyscallsProofs ---------------------------
(***************************************************************************)
(* Syscalls: tokens and calls match, the ring of the results has room for  *)
(* what the worker runs, and neither thread sleeps on work, for any set of *)
(* calls and any size of the queues.                                       *)
(***************************************************************************)
EXTENDS Syscalls, QueueLemmas

Places == {"boot", "signal", "clear", "results", "decide", "tasks", "interrupt",
           "masked", "asleep"}

Stages == {"new", "waiting", "granted", "queued", "executing", "answered",
           "completed", "lost"}

\* Every call asks for one token.
Client == [tokens : {1}, who : Call]

\* What TypeOK says, but for the upper bound of the tokens, which is a matter of
\* who holds them; the types of the other variables of Reactor; and where the
\* worker is in its batch.
Typing ==
  /\ pc \in [Cpu -> Places]
  /\ cpu_active \in [Cpu -> BOOLEAN]
  /\ raised \in [Cpu -> BOOLEAN] /\ pending_signals \in [Cpu -> BOOLEAN]
  /\ task_queue \in [Cpu -> Seq(Task)]
  /\ sem \in [tokens : Nat, waiting : Seq(Client)]
  /\ calls \in Seq(Call) /\ Len(calls) <= QueueSize
  /\ results \in Seq(Call) /\ Len(results) <= QueueSize
  /\ interrupt \in BOOLEAN /\ user \in BOOLEAN
  /\ worker \in {"wait", "consume", "process", "respond", "wake"}
  /\ done \in Nat /\ taken \in Nat /\ done <= taken /\ taken <= Len(calls)
  /\ st \in [Call -> Stages]
  /\ failed \in [Call -> BOOLEAN]
  /\ outcome \in [Call -> {"none", "value", "exception"}]
  /\ worker = "respond" => done < taken
  /\ worker \notin {"process", "respond"} => done = 0 /\ taken = 0

LEMMA MeIsCpu == Me \in Cpu
BY ReactorAssumption DEF Me, Cpu

-----------------------------------------------------------------------------
(* Types.                                                                  *)

LEMMA TypingInit == Init => Typing
<1> SUFFICES ASSUME Init PROVE Typing
  OBVIOUS
<1>1. UserTask \in Task
  BY DEF UserTask, Task
<1>2. <<UserTask>> \in Seq(Task) /\ <<>> \in Seq(Call) /\ <<>> \in Seq(Client) /\ Len(<<>>) = 0
  BY <1>1, EmptySeq
<1>3. task_queue \in [Cpu -> Seq(Task)]
  BY <1>2 DEF Init, ReactorInit
<1>4. sem \in [tokens : Nat, waiting : Seq(Client)]
  BY <1>2, SyscallsAssumption DEF Init, NewSemaphore
<1>5. /\ pc \in [Cpu -> Places] /\ cpu_active \in [Cpu -> BOOLEAN]
      /\ raised \in [Cpu -> BOOLEAN] /\ pending_signals \in [Cpu -> BOOLEAN]
  BY DEF Init, ReactorInit, Places
<1>6. st \in [Call -> Stages] /\ failed \in [Call -> BOOLEAN]
      /\ outcome \in [Call -> {"none", "value", "exception"}]
  BY DEF Init, Stages
<1>7. /\ calls \in Seq(Call) /\ Len(calls) <= QueueSize
      /\ results \in Seq(Call) /\ Len(results) <= QueueSize
      /\ done \in Nat /\ taken \in Nat /\ done <= taken /\ taken <= Len(calls)
  BY <1>2, SyscallsAssumption DEF Init
<1>8. /\ interrupt \in BOOLEAN /\ user \in BOOLEAN
      /\ worker = "wait" /\ done = 0 /\ taken = 0
  BY DEF Init
<1> QED BY <1>3, <1>4, <1>5, <1>6, <1>7, <1>8 DEF Typing

\* What is left of a semaphore that a call has waited for.
LEMMA WaitTyping ==
  ASSUME sem \in [tokens : Nat, waiting : Seq(Client)], NEW k \in Call
  PROVE  AfterWait(sem, 1, k) \in [tokens : Nat, waiting : Seq(Client)]
<1>1. [tokens |-> 1, who |-> k] \in Client
  BY DEF Client
<1>2. Append(sem.waiting, [tokens |-> 1, who |-> k]) \in Seq(Client)
  BY <1>1, AppendProperties
<1>3. Admits(sem, 1) => sem.tokens - 1 \in Nat
  BY DEF Admits
<1> QED BY <1>2, <1>3 DEF AfterWait

\* Whom a release lets in.
LEMMA ReleaseTyping ==
  ASSUME sem \in [tokens : Nat, waiting : Seq(Client)], NEW n \in Nat
  PROVE  /\ AfterRelease(sem, n) \in [tokens : Nat, waiting : Seq(Client)]
         /\ Grants(sem, n) <=> sem.waiting # <<>> /\ 1 <= sem.tokens + n
         /\ sem.waiting # <<>> => Head(sem.waiting).who \in Call /\ Head(sem.waiting).tokens = 1
<1>1. sem.waiting # <<>> => /\ Head(sem.waiting).who \in Call /\ Head(sem.waiting).tokens = 1
                            /\ Tail(sem.waiting) \in Seq(Client)
  <2>1. sem.waiting # <<>> => Head(sem.waiting) \in Client /\ Tail(sem.waiting) \in Seq(Client)
    BY HeadTailProperties
  <2> QED BY <2>1 DEF Client
<1>2. Grants(sem, n) <=> sem.waiting # <<>> /\ 1 <= sem.tokens + n
  BY <1>1 DEF Grants
<1>3. CASE Grants(sem, n)
  <2>1. sem.tokens + n - Head(sem.waiting).tokens \in Nat
    BY <1>1, <1>2, <1>3
  <2> QED BY <1>1, <1>2, <1>3, <2>1 DEF AfterRelease
<1>4. CASE ~Grants(sem, n)
  <2>1. sem.tokens + n \in Nat
    OBVIOUS
  <2> QED BY <1>1, <1>2, <1>4, <2>1 DEF AfterRelease
<1> QED BY <1>3, <1>4

\* The tasks that poll_results schedules: one for each result, and the push of the
\* call that the release lets in.
Granted(n) == IF Released(n).waiting = sem.waiting THEN {} ELSE {Head(sem.waiting).who}

Scheduled(n) == [i \in 1 .. n |-> UserTask]
                  \o [i \in 1 .. Cardinality(Granted(n)) |-> PushTask(Head(sem.waiting).who)]

LEMMA WhoIsGranted ==
  ASSUME Typing, NEW n \in Nat
  PROVE  Granted(n) = IF Grants(sem, n) THEN {Head(sem.waiting).who} ELSE {}
<1>1. sem.waiting # <<>> => Len(Tail(sem.waiting)) # Len(sem.waiting)
  BY HeadTailProperties, LenProperties DEF Typing
<1>2. CASE Grants(sem, n)
  BY <1>1, <1>2 DEF Granted, Released, AfterRelease, Grants
<1>3. CASE ~Grants(sem, n)
  BY <1>3 DEF Granted, Released, AfterRelease, Typing
<1> QED BY <1>2, <1>3

LEMMA WhatIsScheduled ==
  ASSUME Typing, NEW n \in Nat
  PROVE  /\ Scheduled(n) \in Seq(Task)
         /\ Len(Scheduled(n)) = n + (IF Grants(sem, n) THEN 1 ELSE 0)
         /\ \A i \in 1 .. n : Scheduled(n)[i] = UserTask
         /\ Grants(sem, n) => /\ Head(sem.waiting).who \in Call
                              /\ Scheduled(n)[n + 1] = PushTask(Head(sem.waiting).who)
<1> DEFINE us == [i \in 1 .. n |-> UserTask]
           m == IF Grants(sem, n) THEN 1 ELSE 0
           ps == [i \in 1 .. m |-> PushTask(Head(sem.waiting).who)]
<1>1. Cardinality(Granted(n)) = m
  BY WhoIsGranted, FS_EmptySet, FS_Singleton
<1>2. Grants(sem, n) => Head(sem.waiting).who \in Call
  BY ReleaseTyping DEF Typing, Grants
<1>3. us \in Seq(Task) /\ Len(us) = n
  <2>1. UserTask \in Task
    BY DEF UserTask, Task
  <2> QED BY <2>1, SeqDef
<1>4. ps \in Seq(Task) /\ Len(ps) = m
  <2>1. \A i \in 1 .. m : PushTask(Head(sem.waiting).who) \in Task
    BY <1>2 DEF PushTask, Task
  <2>2. m \in Nat
    OBVIOUS
  <2> HIDE DEF m
  <2> QED BY <2>1, <2>2, SeqDef
<1>5. Scheduled(n) = us \o ps
  BY <1>1 DEF Scheduled
<1> HIDE DEF us, ps
<1>6. /\ Scheduled(n) \in Seq(Task) /\ Len(Scheduled(n)) = n + m
      /\ \A i \in 1 .. n + m : Scheduled(n)[i] = IF i <= n THEN us[i] ELSE ps[i - n]
  <2>1. /\ us \o ps \in Seq(Task) /\ Len(us \o ps) = Len(us) + Len(ps)
        /\ \A i \in 1 .. Len(us) + Len(ps) :
             (us \o ps)[i] = IF i <= Len(us) THEN us[i] ELSE ps[i - Len(us)]
    BY <1>3, <1>4, ConcatProperties
  <2> HIDE DEF m
  <2> QED BY <1>3, <1>4, <1>5, <2>1
<1>7. \A i \in 1 .. n : Scheduled(n)[i] = UserTask
  BY <1>6 DEF us
<1>8. Grants(sem, n) => Scheduled(n)[n + 1] = PushTask(Head(sem.waiting).who)
  <2> SUFFICES ASSUME Grants(sem, n) PROVE Scheduled(n)[n + 1] = PushTask(Head(sem.waiting).who)
    OBVIOUS
  <2>1. n + 1 \in 1 .. n + m /\ ~(n + 1 <= n) /\ n + 1 - n = 1
    OBVIOUS
  <2>2. Scheduled(n)[n + 1] = ps[1]
    BY <1>6, <2>1
  <2> QED BY <2>2 DEF ps
<1> QED BY <1>2, <1>6, <1>7, <1>8

\* The head of the queue is a task, and so is each of the rest.
LEMMA TakenTask ==
  ASSUME Typing, TakeTask(Me, <<>>)
  PROVE  /\ pc[Me] = "tasks" /\ task_queue[Me] \in Seq(Task) /\ task_queue[Me] # <<>>
         /\ Head(task_queue[Me]) \in Task /\ Head(task_queue[Me]) = task_queue[Me][1]
         /\ Tail(task_queue[Me]) \in Seq(Task)
         /\ Len(task_queue[Me]) \in Nat \ {0}
         /\ Len(Tail(task_queue[Me])) = Len(task_queue[Me]) - 1
         /\ \A i \in 1 .. Len(Tail(task_queue[Me])) : Tail(task_queue[Me])[i] = task_queue[Me][i + 1]
         /\ task_queue' = [task_queue EXCEPT ![Me] = Tail(@)]
<1>1. task_queue[Me] \in Seq(Task) /\ task_queue[Me] # <<>> /\ pc[Me] = "tasks"
  BY MeIsCpu DEF Typing, TakeTask
<1>2. /\ Head(task_queue[Me]) \in Task /\ Head(task_queue[Me]) = task_queue[Me][1]
      /\ Tail(task_queue[Me]) \in Seq(Task)
      /\ Len(task_queue[Me]) \in Nat \ {0}
      /\ Len(Tail(task_queue[Me])) = Len(task_queue[Me]) - 1
      /\ \A i \in 1 .. Len(Tail(task_queue[Me])) : Tail(task_queue[Me])[i] = task_queue[Me][i + 1]
  BY <1>1, HeadTailProperties, EmptySeq
<1>3. Tail(task_queue[Me]) \o <<>> = Tail(task_queue[Me])
  BY <1>2, ConcatEmptySeq
<1> QED BY <1>1, <1>2, <1>3, MeIsCpu DEF TakeTask, Typing

\* The steps of the loop that Reactor has.
LEMMA TypingReactor ==
  ASSUME Typing, Boot \/ Signal \/ PollSignals \/ IdleOrRun \/ NextRound \/ Sleep \/ Poke
  PROVE  Typing' /\ UNCHANGED <<task_queue, sem, calls, results, worker, taken, done, st>>
<1> USE MeIsCpu DEF othersUnchanged, workerVars
<1>1. CASE Boot
  BY <1>1 DEF Boot, InitPollers, Goto, Typing, Places
<1>2. CASE Signal
  BY <1>2 DEF Signal, Deliver, Typing, Places
<1>3. CASE LoadSignals(Me, "results") /\ othersUnchanged
  BY <1>3 DEF LoadSignals, Goto, Typing, Places
<1>4. CASE ClearSignals(Me, "results", <<>>) /\ othersUnchanged
  <2>1. task_queue[Me] \o <<>> = task_queue[Me]
    BY ConcatEmptySeq DEF Typing
  <2>2. task_queue' = task_queue
    BY <1>4, <2>1 DEF ClearSignals, Schedule, Typing
  <2> QED BY <1>4, <2>2 DEF ClearSignals, SetActive, Goto, Typing, Places
<1>5. CASE IdleOrRun
  <2>1. pc' \in [Cpu -> Places] /\ cpu_active' \in [Cpu -> BOOLEAN]
    BY <1>5 DEF IdleOrRun, Decide, Goto, Typing, Places
  <2> QED BY <1>5, <2>1 DEF IdleOrRun, Decide, Typing
<1>6. CASE NextRound
  BY <1>6 DEF NextRound, EndBatch, Goto, Typing, Places
<1>7. CASE Sleep
  BY <1>7 DEF Sleep, CheckPending, Goto, Typing, Places
<1>8. CASE Poke
  BY <1>8 DEF Poke, Wakeup, Typing
<1> QED BY <1>1, <1>2, <1>3, <1>4, <1>5, <1>6, <1>7, <1>8 DEF PollSignals

LEMMA TypingUser ==
  ASSUME Typing, RunUser \/ TaskReturns \/ Interrupt
  PROVE  Typing'
<1> USE MeIsCpu DEF workerVars
<1>1. CASE RunUser
  <2>1. task_queue' \in [Cpu -> Seq(Task)]
    BY <1>1, TakenTask DEF RunUser, Typing
  <2> QED BY <1>1, <2>1 DEF RunUser, Typing
<1>2. CASE TaskReturns
  BY <1>2 DEF TaskReturns, reactorVars, Typing
<1>3. CASE Interrupt
  BY <1>3 DEF Interrupt, Goto, Typing, Places
<1> QED BY <1>1, <1>2, <1>3

LEMMA TypingSubmit ==
  ASSUME Typing, NEW k \in Call, Submit(k)
  PROVE  Typing'
<1> USE MeIsCpu DEF workerVars
<1>1. sem' \in [tokens : Nat, waiting : Seq(Client)]
  BY WaitTyping DEF Submit, Typing
<1>2. task_queue' \in [Cpu -> Seq(Task)] /\ st' \in [Call -> Stages]
  <2>1. PushTask(k) \in Task
    BY DEF PushTask, Task
  <2>2. task_queue[Me] \o <<PushTask(k)>> \in Seq(Task)
    BY <2>1, ConcatProperties DEF Typing
  <2> QED BY <2>2 DEF Submit, Schedule, Typing, Stages
<1> QED BY <1>1, <1>2 DEF Submit, Typing

LEMMA TypingPush ==
  ASSUME Typing, RunPush
  PROVE  Typing' /\ Head(task_queue[Me]).call \in Call
<1> USE MeIsCpu
<1> DEFINE k == Head(task_queue[Me]).call
<1>1. k \in Call
  <2>1. Head(task_queue[Me]) \in Task /\ Head(task_queue[Me]).kind = "push"
    BY TakenTask DEF RunPush
  <2> QED BY <2>1 DEF Task
<1>2. Append(calls, k) \in Seq(Call) /\ Len(Append(calls, k)) = Len(calls) + 1 /\ Len(calls) \in Nat
  BY <1>1, AppendProperties, LenProperties DEF Typing
<1>3. task_queue' \in [Cpu -> Seq(Task)] /\ pc' \in [Cpu -> Places]
  <2>1. /\ task_queue' = [task_queue EXCEPT ![Me] = Tail(@)] /\ Tail(task_queue[Me]) \in Seq(Task)
        /\ pc' = [pc EXCEPT ![Me] = "interrupt"]
    BY TakenTask DEF RunPush, Goto
  <2>2. task_queue \in [Cpu -> Seq(Task)] /\ pc \in [Cpu -> Places]
    BY DEF Typing
  <2> QED BY <2>1, <2>2 DEF Places
<1>4. calls' \in Seq(Call) /\ Len(calls') <= QueueSize /\ Len(calls) <= Len(calls')
  <2>1. (Len(calls) < QueueSize /\ calls' = Append(calls, k)) \/ calls' = calls
    BY DEF RunPush
  <2>2. calls \in Seq(Call) /\ Len(calls) <= QueueSize /\ QueueSize \in Nat
    BY SyscallsAssumption DEF Typing
  <2> HIDE DEF k
  <2>3. CASE Len(calls) < QueueSize /\ calls' = Append(calls, k)
    BY <1>2, <2>2, <2>3
  <2>4. CASE calls' = calls
    BY <1>2, <2>2, <2>4
  <2> QED BY <2>1, <2>3, <2>4
<1>5. st' \in [Call -> Stages]
  BY <1>1 DEF RunPush, Typing, Stages
<1>6. taken' = taken /\ done' = done /\ taken <= Len(calls') /\ Len(calls') \in Nat
  BY <1>2, <1>4, LenProperties DEF RunPush, Typing
<1> HIDE DEF k
<1> QED BY <1>1, <1>3, <1>4, <1>5, <1>6 DEF RunPush, Typing, k

LEMMA TypingPoll ==
  ASSUME Typing, PollResults
  PROVE  Typing'
<1> USE MeIsCpu
<1>1. Len(results) \in Nat
  BY LenProperties DEF Typing
<1>2. sem' \in [tokens : Nat, waiting : Seq(Client)]
  BY <1>1, ReleaseTyping DEF PollResults, Released, Typing
<1>3. task_queue' = [task_queue EXCEPT ![Me] = @ \o Scheduled(Len(results))]
  BY DEF PollResults, Schedule, Scheduled, Granted
<1>4. task_queue[Me] \o Scheduled(Len(results)) \in Seq(Task)
  BY <1>1, WhatIsScheduled, ConcatProperties DEF Typing
<1>5. task_queue' \in [Cpu -> Seq(Task)]
  BY <1>3, <1>4 DEF Typing
<1>6. results' = <<>> /\ results' \in Seq(Call) /\ Len(results') <= QueueSize
  BY EmptySeq, SyscallsAssumption DEF PollResults
<1>7. st' \in [Call -> Stages]
  BY DEF PollResults, Typing, Stages
<1>8. pc' \in [Cpu -> Places] /\ cpu_active' \in [Cpu -> BOOLEAN]
  BY DEF PollResults, SetActive, Goto, Typing, Places
<1> QED BY <1>2, <1>5, <1>6, <1>7, <1>8 DEF PollResults, Typing

LEMMA TypingWork ==
  ASSUME Typing, Work
  PROVE  Typing'
<1> USE MeIsCpu DEF cpuUnchanged
<1>0. Len(calls) \in Nat /\ Len(results) \in Nat
  BY LenProperties DEF Typing
<1>1. CASE WorkerWakes
  BY <1>1 DEF WorkerWakes, Typing
<1>2. CASE Consume
  <2>1. calls = <<>> => Len(calls) = 0
    BY EmptySeq
  <2> QED BY <1>0, <1>2, <2>1 DEF Consume, Typing
<1>3. CASE StartCall
  BY <1>3 DEF StartCall, Typing, Stages
<1>4. CASE Respond
  <2>1. calls[done + 1] \in Call
    BY <1>0, <1>4 DEF Respond, Typing
  <2>2. Append(results, calls[done + 1]) \in Seq(Call)
        /\ Len(Append(results, calls[done + 1])) = Len(results) + 1
    BY <2>1, AppendProperties DEF Typing
  <2>3. results' \in Seq(Call) /\ Len(results') <= QueueSize
    <3> DEFINE k == calls[done + 1]
    <3>1. (Len(results) < QueueSize /\ results' = Append(results, k)) \/ results' = results
      BY <1>4 DEF Respond
    <3>2. results \in Seq(Call) /\ Len(results) <= QueueSize /\ QueueSize \in Nat
      BY SyscallsAssumption DEF Typing
    <3>3. Append(results, k) \in Seq(Call) /\ Len(Append(results, k)) = Len(results) + 1
      BY <2>2
    <3> HIDE DEF k
    <3>4. CASE Len(results) < QueueSize /\ results' = Append(results, k)
      BY <1>0, <3>2, <3>3, <3>4
    <3>5. CASE results' = results
      BY <3>2, <3>5
    <3> QED BY <3>1, <3>4, <3>5
  <2>4. st' \in [Call -> Stages]
    BY <1>4 DEF Respond, Typing, Stages
  <2>5. failed' \in [Call -> BOOLEAN] /\ outcome' \in [Call -> {"none", "value", "exception"}]
    BY <1>4 DEF Respond, OutcomeOf, Typing
  <2>6. done' \in Nat /\ done' <= taken /\ worker' = "process" /\ taken' = taken
    BY <1>4 DEF Respond, Typing
  <2> QED BY <1>4, <2>3, <2>4, <2>5, <2>6 DEF Respond, Typing
<1>5. CASE FreeBatch
  <2>1. taken + 1 \in Nat /\ Len(calls) \in Nat /\ taken <= Len(calls) /\ taken \in Nat
    BY <1>0 DEF Typing
  <2>2. calls' \in Seq(Call) /\ Len(calls') = Len(calls) - taken
    BY <1>5, <2>1 DEF FreeBatch, Typing
  <2>3. Len(calls') <= QueueSize /\ 0 <= Len(calls')
    BY <2>1, <2>2, SyscallsAssumption DEF Typing
  <2> QED BY <1>5, <2>2, <2>3 DEF FreeBatch, Typing
<1>6. CASE WakeCpu
  BY <1>6 DEF WakeCpu, Wakeup, Typing
<1> QED BY <1>1, <1>2, <1>3, <1>4, <1>5, <1>6 DEF Work

LEMMA TypingStep == Typing /\ [Next]_vars => Typing'
<1>1. Typing /\ UNCHANGED vars => Typing'
  BY DEF vars, reactorVars, workerVars, Typing
<1> QED BY <1>1, TypingReactor, TypingUser, TypingSubmit, TypingPush, TypingPoll, TypingWork
        DEF Next, Run

-----------------------------------------------------------------------------
(* Who holds a token.                                                      *)

\* A call that is let in has one task that will push it.
PushesGranted ==
  LET q == task_queue[Me]
  IN  /\ \A i \in 1 .. Len(q) : q[i].kind = "push" => st[q[i].call] = "granted"
      /\ \A i, j \in 1 .. Len(q) :
           q[i].kind = "push" /\ q[j].kind = "push" /\ q[i].call = q[j].call => i = j

\* A call that waits is in the list of the semaphore once.
WaitersWait ==
  LET w == sem.waiting
  IN  /\ \A i \in 1 .. Len(w) : st[w[i].who] = "waiting"
      /\ \A i, j \in 1 .. Len(w) : w[i].who = w[j].who => i = j

\* A call that has not run is in one slot; the slots of those that have are not
\* looked at again.
CallsQueued ==
  /\ \A i \in done + 1 .. Len(calls) :
       st[calls[i]] = IF worker = "respond" /\ i = done + 1 THEN "executing" ELSE "queued"
  /\ \A i, j \in done + 1 .. Len(calls) : calls[i] = calls[j] => i = j

\* A call that was answered is in the other ring once.
ResultsAnswered ==
  /\ \A i \in 1 .. Len(results) : st[results[i]] = "answered"
  /\ \A i, j \in 1 .. Len(results) : results[i] = results[j] => i = j

TokensHeld == IsFiniteSet(InFlight) /\ TokensMatchCalls

InPlace == PushesGranted /\ WaitersWait /\ CallsQueued /\ ResultsAnswered

LEMMA PlacesInit == Init => InPlace /\ TokensHeld
<1> SUFFICES ASSUME Init PROVE InPlace /\ TokensHeld
  OBVIOUS
<1>1. PushesGranted
  <2>1. task_queue[Me] = <<UserTask>> /\ UserTask.kind # "push"
    BY MeIsCpu DEF Init, ReactorInit, UserTask
  <2> QED BY <2>1 DEF PushesGranted
<1>2. WaitersWait /\ CallsQueued /\ ResultsAnswered
  BY EmptySeq DEF Init, NewSemaphore, WaitersWait, CallsQueued, ResultsAnswered
<1>3. InFlight = {}
  BY DEF Init, InFlight
<1>4. TokensHeld
  BY <1>3, FS_EmptySet, SyscallsAssumption DEF TokensHeld, TokensMatchCalls, Init, NewSemaphore
<1> QED BY <1>1, <1>2, <1>4 DEF InPlace

\* A step keeps the calls in a place that it does not touch if it keeps their stage.
LEMMA PushesKept ==
  ASSUME Typing, PushesGranted, UNCHANGED task_queue,
         \A k \in Call : st[k] = "granted" => st'[k] = "granted"
  PROVE  PushesGranted'
<1>1. ASSUME NEW i \in 1 .. Len(task_queue[Me]), task_queue[Me][i].kind = "push"
      PROVE  task_queue[Me][i].call \in Call
  <2>1. task_queue[Me][i] \in Task
    BY MeIsCpu DEF Typing
  <2> QED BY <1>1, <2>1 DEF Task
<1> QED BY <1>1 DEF PushesGranted

LEMMA WaiterIsCall ==
  ASSUME Typing, NEW i \in 1 .. Len(sem.waiting)
  PROVE  sem.waiting[i].who \in Call
<1>1. sem.waiting \in Seq(Client)
  BY DEF Typing
<1>2. sem.waiting[i] \in Client
  BY <1>1
<1> QED BY <1>2 DEF Client

LEMMA WaitersKept ==
  ASSUME Typing, WaitersWait, UNCHANGED sem,
         \A k \in Call : st[k] = "waiting" => st'[k] = "waiting"
  PROVE  WaitersWait'
<1>1. ASSUME NEW i \in 1 .. Len(sem.waiting) PROVE sem.waiting[i].who \in Call
  BY WaiterIsCall
<1> QED BY <1>1 DEF WaitersWait

LEMMA CallsKept ==
  ASSUME Typing, CallsQueued, UNCHANGED <<calls, done>>,
         (worker' = "respond") <=> (worker = "respond"),
         \A k \in Call : st[k] \in {"queued", "executing"} => st'[k] = st[k]
  PROVE  CallsQueued'
<1>1. ASSUME NEW i \in done + 1 .. Len(calls)
      PROVE  calls[i] \in Call /\ st[calls[i]] \in {"queued", "executing"}
  <2>1. i \in 1 .. Len(calls)
    BY LenProperties DEF Typing
  <2> QED BY <2>1 DEF Typing, CallsQueued
<1> QED BY <1>1 DEF CallsQueued

LEMMA ResultsKept ==
  ASSUME Typing, ResultsAnswered, UNCHANGED results,
         \A k \in Call : st[k] = "answered" => st'[k] = "answered"
  PROVE  ResultsAnswered'
<1>1. ASSUME NEW i \in 1 .. Len(results) PROVE results[i] \in Call
  BY DEF Typing
<1> QED BY <1>1 DEF ResultsAnswered

LEMMA TokensKept ==
  ASSUME TokensHeld, UNCHANGED sem, InFlight' = InFlight
  PROVE  TokensHeld'
BY DEF TokensHeld, TokensMatchCalls

\* The loop and most steps of the worker move no call.
LEMMA NothingMoves ==
  ASSUME Typing, InPlace, TokensHeld, UNCHANGED <<task_queue, sem, calls, results, done, st>>,
         (worker' = "respond") <=> (worker = "respond")
  PROVE  InPlace' /\ TokensHeld'
<1>1. InFlight' = InFlight
  BY DEF InFlight
<1> QED BY <1>1, PushesKept, WaitersKept, CallsKept, ResultsKept, TokensKept DEF InPlace

\* submit_: a new call takes a token and gets a task, or waits.
LEMMA PlacesSubmit ==
  ASSUME Typing, InPlace, TokensHeld, NEW k \in Call, Submit(k)
  PROVE  InPlace' /\ TokensHeld'
<1> USE MeIsCpu
<1> DEFINE q == task_queue[Me]
           w == sem.waiting
<1>1. /\ st[k] = "new" /\ \A x \in Call : x # k => st'[x] = st[x]
      /\ st'[k] = IF Admits(sem, 1) THEN "granted" ELSE "waiting"
      /\ UNCHANGED <<calls, results, done, worker>>
  BY DEF Submit, workerVars, Typing
<1>2. \A x \in Call : st[x] # "new" => st'[x] = st[x]
  BY <1>1
<1>3. CallsQueued' /\ ResultsAnswered'
  BY <1>1, <1>2, CallsKept, ResultsKept DEF InPlace
<1>4. q \in Seq(Task) /\ Len(q) \in Nat
  BY LenProperties DEF Typing
<1>5. w \in Seq(Client) /\ Len(w) \in Nat
  BY LenProperties DEF Typing
<1>6. CASE Admits(sem, 1)
  <2>1. WaitersWait'
    <3>1. sem'.waiting = sem.waiting
      BY <1>6 DEF Submit, AfterWait, Typing
    <3>2. ASSUME NEW i \in 1 .. Len(w) PROVE w[i].who \in Call /\ st[w[i].who] = "waiting"
      BY WaiterIsCall DEF InPlace, WaitersWait
    <3>3. ASSUME NEW i \in 1 .. Len(w) PROVE st'[w[i].who] = "waiting"
      BY <1>2, <3>2
    <3> QED BY <3>1, <3>3 DEF InPlace, WaitersWait
  <2>2. PushesGranted'
    <3>1. PushTask(k) \in Task /\ PushTask(k).kind = "push" /\ PushTask(k).call = k
      BY DEF PushTask, Task
    <3>2. task_queue'[Me] = q \o <<PushTask(k)>>
      BY <1>6 DEF Submit, Schedule, Typing
    <3>3. <<PushTask(k)>> \in Seq(Task) /\ Len(<<PushTask(k)>>) = 1
      BY <3>1
    <3>4. /\ Len(task_queue'[Me]) = Len(q) + 1
          /\ \A i \in 1 .. Len(q) : task_queue'[Me][i] = q[i]
          /\ task_queue'[Me][Len(q) + 1] = PushTask(k)
      BY <1>4, <3>2, <3>3, ConcatProperties
    <3>5. ASSUME NEW i \in 1 .. Len(q), q[i].kind = "push"
          PROVE  st'[q[i].call] = "granted" /\ q[i].call # k
      <4>1. q[i].call \in Call
        BY <1>4, <3>5 DEF Task
      <4>2. st[q[i].call] = "granted"
        BY <3>5 DEF InPlace, PushesGranted
      <4> QED BY <1>1, <1>2, <4>1, <4>2
    <3>6. \A i, j \in 1 .. Len(q) :
            q[i].kind = "push" /\ q[j].kind = "push" /\ q[i].call = q[j].call => i = j
      BY DEF InPlace, PushesGranted
    <3>7. \A i \in 1 .. Len(task_queue'[Me]) : i \in 1 .. Len(q) \/ i = Len(q) + 1
      BY <1>4, <3>4
    <3>8. st'[k] = "granted"
      BY <1>1, <1>6
    <3> DEFINE p == task_queue'[Me]
    <3> HIDE DEF p, q
    <3>9. ASSUME NEW i \in 1 .. Len(p), p[i].kind = "push" PROVE st'[p[i].call] = "granted"
      BY <3>1, <3>4, <3>5, <3>7, <3>8, <3>9 DEF p
    <3>10. ASSUME NEW i \in 1 .. Len(p), NEW j \in 1 .. Len(p),
                  p[i].kind = "push", p[j].kind = "push", p[i].call = p[j].call
           PROVE  i = j
      <4>1. CASE i \in 1 .. Len(q) /\ j \in 1 .. Len(q)
        BY <3>4, <3>6, <3>10, <4>1 DEF p
      <4>2. CASE i \notin 1 .. Len(q) \/ j \notin 1 .. Len(q)
        BY <3>1, <3>4, <3>5, <3>7, <3>10, <4>2 DEF p
      <4> QED BY <4>1, <4>2
    <3> QED BY <3>9, <3>10 DEF PushesGranted, p
  <2>3. TokensHeld'
    <3>1. InFlight' = InFlight \cup {k} /\ k \notin InFlight
      BY <1>1, <1>6 DEF InFlight
    <3>2. sem'.tokens = sem.tokens - 1 /\ sem.tokens \in Nat
      BY <1>6 DEF Submit, AfterWait, Typing
    <3>3. /\ IsFiniteSet(InFlight') /\ Cardinality(InFlight') = Cardinality(InFlight) + 1
          /\ Cardinality(InFlight) \in Nat
      BY <3>1, FS_AddElement, FS_CardinalityType DEF TokensHeld
    <3> QED BY <3>2, <3>3, SyscallsAssumption DEF TokensHeld, TokensMatchCalls
  <2> QED BY <1>3, <2>1, <2>2, <2>3 DEF InPlace
<1>7. CASE ~Admits(sem, 1)
  <2>1. PushesGranted'
    <3>1. UNCHANGED task_queue
      BY <1>7 DEF Submit
    <3> QED BY <1>2, <3>1, PushesKept DEF InPlace
  <2>2. WaitersWait'
    <3> DEFINE r == [tokens |-> 1, who |-> k]
    <3>1. r \in Client /\ r.who = k
      BY DEF Client
    <3>2. sem'.waiting = Append(w, r)
      BY <1>7 DEF Submit, AfterWait, Typing
    <3> HIDE DEF r
    <3>3. /\ Len(sem'.waiting) = Len(w) + 1 /\ sem'.waiting[Len(w) + 1] = r
          /\ \A i \in 1 .. Len(w) : sem'.waiting[i] = w[i]
      BY <1>5, <3>1, <3>2, AppendProperties
    <3>4. ASSUME NEW i \in 1 .. Len(w) PROVE w[i].who \in Call /\ st[w[i].who] = "waiting"
      BY WaiterIsCall DEF InPlace, WaitersWait
    <3>5. ASSUME NEW i \in 1 .. Len(w) PROVE st'[w[i].who] = "waiting" /\ w[i].who # k
      BY <1>1, <1>2, <3>4
    <3>6. \A i, j \in 1 .. Len(w) : w[i].who = w[j].who => i = j
      BY DEF InPlace, WaitersWait
    <3>7. \A i \in 1 .. Len(sem'.waiting) : i \in 1 .. Len(w) \/ i = Len(w) + 1
      BY <1>5, <3>3
    <3>8. st'[k] = "waiting"
      BY <1>1, <1>7
    <3> HIDE DEF w
    <3> QED BY <3>1, <3>3, <3>5, <3>6, <3>7, <3>8 DEF WaitersWait
  <2>3. TokensHeld'
    <3>1. InFlight' = InFlight
      BY <1>1, <1>7 DEF InFlight
    <3>2. sem'.tokens = sem.tokens
      BY <1>7 DEF Submit, AfterWait, Typing
    <3> QED BY <3>1, <3>2 DEF TokensHeld, TokensMatchCalls
  <2> QED BY <1>3, <2>1, <2>2, <2>3 DEF InPlace
<1> QED BY <1>6, <1>7

\* A task that is taken leaves the pushes of the others.
LEMMA PushesTaken ==
  ASSUME Typing, PushesGranted, TakeTask(Me, <<>>),
         \A x \in Call : st[x] = "granted" =>
            \/ st'[x] = "granted"
            \/ Head(task_queue[Me]).kind = "push" /\ Head(task_queue[Me]).call = x
  PROVE  PushesGranted'
<1> DEFINE q == task_queue[Me]
           t == Tail(task_queue[Me])
<1>1. /\ q \in Seq(Task) /\ Head(q) = q[1] /\ Len(q) \in Nat \ {0} /\ Len(t) = Len(q) - 1
      /\ \A i \in 1 .. Len(t) : t[i] = q[i + 1]
  BY TakenTask
<1>2. task_queue'[Me] = t
  BY TakenTask, MeIsCpu DEF Typing
<1> HIDE DEF t
<1>3. ASSUME NEW i \in 1 .. Len(t), t[i].kind = "push" PROVE st'[t[i].call] = "granted"
  <2>1. i + 1 \in 1 .. Len(q) /\ t[i] = q[i + 1] /\ 1 \in 1 .. Len(q) /\ i + 1 # 1
    BY <1>1
  <2>2. t[i].call \in Call
    <3>1. t[i] \in Task
      BY <1>1, <2>1
    <3> QED BY <1>3, <3>1 DEF Task
  <2>3. st[t[i].call] = "granted"
    BY <1>3, <2>1 DEF PushesGranted
  <2>4. ~(q[1].kind = "push" /\ q[1].call = t[i].call)
    BY <1>3, <2>1 DEF PushesGranted
  <2> QED BY <1>1, <2>2, <2>3, <2>4
<1>4. ASSUME NEW i \in 1 .. Len(t), NEW j \in 1 .. Len(t),
             t[i].kind = "push", t[j].kind = "push", t[i].call = t[j].call
      PROVE  i = j
  <2>1. i + 1 \in 1 .. Len(q) /\ t[i] = q[i + 1] /\ j + 1 \in 1 .. Len(q) /\ t[j] = q[j + 1]
    BY <1>1
  <2>2. i + 1 = j + 1
    BY <1>4, <2>1 DEF PushesGranted
  <2> QED BY <2>2
<1> QED BY <1>2, <1>3, <1>4 DEF PushesGranted

\* The continuation of submit_: the call goes from its task into a slot, or is
\* lost; its token is held either way.
LEMMA PlacesPush ==
  ASSUME Typing, InPlace, TokensHeld, RunPush
  PROVE  InPlace' /\ TokensHeld'
<1> USE MeIsCpu
<1> DEFINE q == task_queue[Me]
           k == Head(q).call
<1>1. k \in Call /\ Head(q).kind = "push" /\ TakeTask(Me, <<>>)
  BY TypingPush DEF RunPush
<1>2. st[k] = "granted"
  <2>1. Head(q) = q[1] /\ 1 \in 1 .. Len(q)
    BY <1>1, TakenTask
  <2> QED BY <1>1, <2>1 DEF InPlace, PushesGranted
<1>3. \/ st' = [st EXCEPT ![k] = "queued"] /\ calls' = Append(calls, k)
      \/ st' = [st EXCEPT ![k] = "lost"] /\ calls' = calls
  BY DEF RunPush
<1>4. UNCHANGED <<sem, results, worker, done, taken>>
  BY DEF RunPush
<1>5. st'[k] \in {"queued", "lost"} /\ \A x \in Call : x # k => st'[x] = st[x]
  BY <1>1, <1>3 DEF Typing
<1>6. PushesGranted'
  BY <1>1, <1>5, PushesTaken DEF InPlace
<1> HIDE DEF k
<1>7. \A x \in Call : st[x] # "granted" => st'[x] = st[x]
  BY <1>2, <1>5
<1>8. WaitersWait' /\ ResultsAnswered'
  BY <1>4, <1>7, WaitersKept, ResultsKept DEF InPlace
<1>9. CallsQueued'
  <2>1. CASE calls' = calls
    BY <1>4, <1>7, <2>1, CallsKept DEF InPlace
  <2>2. CASE st'[k] = "queued" /\ calls' = Append(calls, k)
    <3>1. /\ Len(calls) \in Nat /\ done \in Nat
          /\ Len(calls') = Len(calls) + 1 /\ calls'[Len(calls) + 1] = k
          /\ \A i \in 1 .. Len(calls) : calls'[i] = calls[i]
      BY <1>1, <2>2, LenProperties, AppendProperties DEF Typing
    <3>2. done <= Len(calls) /\ (worker = "respond" => done < Len(calls))
      BY <3>1 DEF Typing
    <3>3. ASSUME NEW i \in done + 1 .. Len(calls)
          PROVE  /\ st'[calls[i]] = IF worker' = "respond" /\ i = done' + 1 THEN "executing" ELSE "queued"
                 /\ calls[i] # k /\ calls'[i] = calls[i]
      <4>1. i \in 1 .. Len(calls)
        BY <3>1
      <4>2. calls[i] \in Call
        BY <4>1 DEF Typing
      <4>3. st[calls[i]] = IF worker = "respond" /\ i = done + 1 THEN "executing" ELSE "queued"
        BY DEF InPlace, CallsQueued
      <4> QED BY <1>2, <1>4, <1>7, <3>1, <4>1, <4>2, <4>3
    <3>4. \A i, j \in done + 1 .. Len(calls) : calls[i] = calls[j] => i = j
      BY DEF InPlace, CallsQueued
    <3>5. \A i \in done + 1 .. Len(calls') : i \in done + 1 .. Len(calls) \/ i = Len(calls) + 1
      BY <3>1
    <3>6. ~(worker' = "respond" /\ Len(calls) + 1 = done' + 1)
      BY <1>4, <3>1, <3>2
    <3> QED BY <1>4, <2>2, <3>1, <3>3, <3>4, <3>5, <3>6 DEF CallsQueued
  <2> QED BY <1>1, <1>3, <2>1, <2>2 DEF Typing
<1>10. TokensHeld'
  <2>1. InFlight' = InFlight
    BY <1>1, <1>2, <1>5 DEF InFlight
  <2> QED BY <1>4, <2>1, TokensKept
<1> QED BY <1>6, <1>8, <1>9, <1>10 DEF InPlace

\* Where poll_results takes each call.
LEMMA PolledStages ==
  ASSUME Typing, InPlace, PollResults, NEW x \in Call
  PROVE  LET n == Len(results)
             g == Grants(sem, n) /\ x = Head(sem.waiting).who
             r == \E i \in 1 .. n : results[i] = x
         IN  /\ st'[x] = IF g THEN "granted" ELSE IF r THEN "completed" ELSE st[x]
             /\ g => st[x] = "waiting"
             /\ r => st[x] = "answered"
<1> DEFINE n == Len(results)
           g == Grants(sem, n) /\ x = Head(sem.waiting).who
           r == \E i \in 1 .. n : results[i] = x
<1>1. n \in Nat
  BY LenProperties DEF Typing
<1>2. st'[x] = CASE x \in Granted(n) -> "granted" [] r -> "completed" [] OTHER -> st[x]
  BY DEF PollResults, Granted
<1>3. x \in Granted(n) <=> g
  BY <1>1, WhoIsGranted
<1>4. g => st[x] = "waiting"
  <2>1. sem.waiting # <<>> => Head(sem.waiting) = sem.waiting[1] /\ 1 \in 1 .. Len(sem.waiting)
    <3>1. sem.waiting # <<>> => Len(sem.waiting) \in Nat \ {0}
      BY EmptySeq DEF Typing
    <3> QED BY <3>1
  <2> QED BY <2>1 DEF InPlace, WaitersWait, Grants
<1>5. r => st[x] = "answered"
  BY DEF InPlace, ResultsAnswered
<1> HIDE DEF g, r
<1>6. st'[x] = IF g THEN "granted" ELSE IF r THEN "completed" ELSE st[x]
  BY <1>2, <1>3, <1>4, <1>5
<1> QED BY <1>4, <1>5, <1>6 DEF g, r

\* The results that are polled are as many as the calls they are of.
LEMMA PolledCalls ==
  ASSUME Typing, InPlace
  PROVE  LET r == {results[i] : i \in 1 .. Len(results)}
         IN  r \subseteq InFlight /\ IsFiniteSet(r) /\ Cardinality(r) = Len(results)
<1> DEFINE n == Len(results)
           r == {results[i] : i \in 1 .. n}
           f == [i \in 1 .. n |-> results[i]]
<1>1. n \in Nat /\ \A i \in 1 .. n : results[i] \in Call
  BY LenProperties DEF Typing
<1>2. \A i \in 1 .. n : st[results[i]] = "answered"
  BY DEF InPlace, ResultsAnswered
<1>3. r \subseteq InFlight
  BY <1>1, <1>2 DEF InFlight
<1>4. ExistsBijection(1 .. n, r)
  <2>1. f \in [1 .. n -> r]
    OBVIOUS
  <2>2. \A i, j \in 1 .. n : f[i] = f[j] => i = j
    BY DEF InPlace, ResultsAnswered
  <2>3. \A x \in r : \E i \in 1 .. n : f[i] = x
    OBVIOUS
  <2> HIDE DEF f, r
  <2>4. f \in Injection(1 .. n, r) /\ f \in Surjection(1 .. n, r)
    BY <2>1, <2>2, <2>3 DEF Injection, Surjection, IsInjective
  <2> QED BY <2>4 DEF ExistsBijection, Bijection
<1>5. IsFiniteSet(1 .. n) /\ Cardinality(1 .. n) = n
  <2>1. IsFiniteSet(1 .. n) /\ Cardinality(1 .. n) = IF 1 > n THEN 0 ELSE n - 1 + 1
    BY <1>1, FS_Interval
  <2> HIDE DEF n
  <2> QED BY <1>1, <2>1
<1>6. IsFiniteSet(r) /\ Cardinality(r) = n
  BY <1>4, <1>5, FS_Bijection
<1> QED BY <1>3, <1>6

\* An element of two sequences, one after the other, is one of the first or of the
\* second.
LEMMA JoinedTask ==
  ASSUME NEW q \in Seq(Task), NEW s \in Seq(Task), NEW i \in 1 .. Len(q \o s)
  PROVE  \/ i \in 1 .. Len(q) /\ (q \o s)[i] = q[i]
         \/ i - Len(q) \in 1 .. Len(s) /\ (q \o s)[i] = s[i - Len(q)]
<1>1. Len(q) \in Nat /\ Len(s) \in Nat
  BY LenProperties
<1>2. /\ Len(q \o s) = Len(q) + Len(s)
      /\ \A j \in 1 .. Len(q) + Len(s) : (q \o s)[j] = IF j <= Len(q) THEN q[j] ELSE s[j - Len(q)]
  BY ConcatProperties
<1> DEFINE p == q \o s
<1>3. i \in 1 .. Len(q) + Len(s) /\ p[i] = IF i <= Len(q) THEN q[i] ELSE s[i - Len(q)]
  BY <1>2
<1> HIDE DEF p
<1>4. CASE i <= Len(q)
  BY <1>1, <1>3, <1>4 DEF p
<1>5. CASE ~(i <= Len(q))
  <2>1. i - Len(q) \in 1 .. Len(s)
    BY <1>1, <1>3, <1>5
  <2> QED BY <1>3, <1>5, <2>1 DEF p
<1> QED BY <1>4, <1>5

\* poll_results: results become tasks of user code and give their tokens back; the
\* call let in for one of them gets the task that pushes it.
LEMMA PlacesPoll ==
  ASSUME Typing, InPlace, TokensHeld, PollResults
  PROVE  InPlace' /\ TokensHeld'
<1> USE MeIsCpu
<1> DEFINE n == Len(results)
           q == task_queue[Me]
           w == sem.waiting
           h == Head(w).who
           s == Scheduled(n)
           g == Grants(sem, n)
           r == {results[i] : i \in 1 .. n}
<1>1. /\ n \in Nat /\ q \in Seq(Task) /\ Len(q) \in Nat
      /\ w \in Seq(Client) /\ Len(w) \in Nat
  BY LenProperties DEF Typing
<1>2. /\ UNCHANGED <<calls, done, worker>>
      /\ results' = <<>> /\ sem' = AfterRelease(sem, n)
  BY DEF PollResults, Released
<1>3. g => h \in Call
  BY <1>1, ReleaseTyping DEF Typing, Grants
<1>4. \A x \in Call : /\ g /\ x = h => st'[x] = "granted" /\ st[x] = "waiting"
                      /\ x \in r => st[x] = "answered"
                      /\ x \in r => st'[x] = "completed"
                      /\ x \notin r /\ ~(g /\ x = h) => st'[x] = st[x]
  <2> SUFFICES ASSUME NEW x \in Call
               PROVE  /\ g /\ x = h => st'[x] = "granted" /\ st[x] = "waiting"
                      /\ x \in r => st[x] = "answered"
                      /\ x \in r => st'[x] = "completed"
                      /\ x \notin r /\ ~(g /\ x = h) => st'[x] = st[x]
    OBVIOUS
  <2>1. x \in r <=> \E i \in 1 .. n : results[i] = x
    OBVIOUS
  <2>2. /\ st'[x] = IF g /\ x = h THEN "granted"
                    ELSE IF \E i \in 1 .. n : results[i] = x THEN "completed" ELSE st[x]
        /\ g /\ x = h => st[x] = "waiting"
        /\ (\E i \in 1 .. n : results[i] = x) => st[x] = "answered"
    BY PolledStages
  <2> HIDE DEF r, g, h
  <2> QED BY <2>1, <2>2
<1> HIDE DEF r, h, g
<1>5. CallsQueued'
  BY <1>2, <1>4, CallsKept DEF InPlace
<1>6. ResultsAnswered'
  BY <1>2, EmptySeq DEF ResultsAnswered
<1>7. WaitersWait'
  <2>1. ASSUME NEW i \in 1 .. Len(w), ~(g /\ w[i].who = h) PROVE st'[w[i].who] = "waiting"
    <3>1. w[i].who \in Call /\ st[w[i].who] = "waiting"
      BY WaiterIsCall DEF InPlace, WaitersWait
    <3> QED BY <1>4, <2>1, <3>1
  <2>2. \A i, j \in 1 .. Len(w) : w[i].who = w[j].who => i = j
    BY DEF InPlace, WaitersWait
  <2>3. CASE ~g
    <3>1. sem'.waiting = w
      BY <1>1, <1>2, <2>3 DEF AfterRelease, Typing, g
    <3> QED BY <2>1, <2>2, <2>3, <3>1 DEF WaitersWait
  <2>4. CASE g
    <3>1. w # <<>> /\ sem'.waiting = Tail(w)
      BY <1>1, <1>2, <2>4 DEF AfterRelease, Grants, Typing, g
    <3>2. /\ h = w[1].who /\ Len(w) \in Nat \ {0} /\ Len(Tail(w)) = Len(w) - 1
          /\ \A i \in 1 .. Len(Tail(w)) : Tail(w)[i] = w[i + 1]
      BY <1>1, <3>1, HeadTailProperties, EmptySeq DEF h
    <3> HIDE DEF w
    <3>3. ASSUME NEW i \in 1 .. Len(Tail(w))
          PROVE  /\ Tail(w)[i] = w[i + 1] /\ i + 1 \in 1 .. Len(w)
                 /\ st'[Tail(w)[i].who] = "waiting"
      <4>1. Tail(w)[i] = w[i + 1] /\ i + 1 \in 1 .. Len(w) /\ 1 \in 1 .. Len(w) /\ i + 1 # 1
        BY <3>2
      <4>2. w[i + 1].who # h
        BY <2>2, <3>2, <4>1
      <4> QED BY <2>1, <4>1, <4>2
    <3>4. ASSUME NEW i \in 1 .. Len(Tail(w)), NEW j \in 1 .. Len(Tail(w)),
                 Tail(w)[i].who = Tail(w)[j].who
          PROVE  i = j
      <4>1. i + 1 = j + 1
        BY <2>2, <3>3, <3>4
      <4> QED BY <4>1
    <3> QED BY <3>1, <3>3, <3>4 DEF WaitersWait
  <2> QED BY <2>3, <2>4
<1>8. PushesGranted'
  <2>1. /\ s \in Seq(Task) /\ Len(s) = n + (IF g THEN 1 ELSE 0)
        /\ \A i \in 1 .. n : s[i] = UserTask
        /\ g => s[n + 1] = PushTask(h)
    BY <1>1, WhatIsScheduled DEF g, h
  <2>2. task_queue'[Me] = q \o s
    BY DEF PollResults, Schedule, Scheduled, Granted, Typing
  <2> HIDE DEF s
  <2> DEFINE p == task_queue'[Me]
             e == Len(q) + n + 1
  <2>3. ASSUME NEW i \in 1 .. Len(p)
        PROVE  \/ i \in 1 .. Len(q) /\ p[i] = q[i]
               \/ i - Len(q) \in 1 .. Len(s) /\ p[i] = s[i - Len(q)]
    <3>1. p = q \o s
      BY <2>2
    <3> HIDE DEF p, q
    <3>2. q \in Seq(Task)
      BY <1>1 DEF q
    <3> QED BY <2>1, <3>1, <3>2, JoinedTask
  <2>4. ASSUME NEW i \in 1 .. Len(p), p[i].kind = "push"
        PROVE  (i \in 1 .. Len(q) /\ p[i] = q[i]) \/ (g /\ i = e /\ p[i] = PushTask(h))
    <3> SUFFICES ASSUME i - Len(q) \in 1 .. Len(s), p[i] = s[i - Len(q)]
                 PROVE  g /\ i = e /\ p[i] = PushTask(h)
      BY <2>3
    <3>1. i - Len(q) \notin 1 .. n
      BY <2>1, <2>4 DEF UserTask
    <3>2. i \in Int
      OBVIOUS
    <3> HIDE DEF p, q
    <3>3. Len(q) \in Nat
      BY <1>1 DEF q
    <3>4. g /\ i - Len(q) = n + 1
      BY <1>1, <2>1, <3>1, <3>2, <3>3
    <3>5. i = e
      BY <1>1, <3>2, <3>3, <3>4
    <3> QED BY <2>1, <3>4, <3>5
  <2>5. ASSUME NEW i \in 1 .. Len(q), q[i].kind = "push"
        PROVE  st'[q[i].call] = "granted" /\ (g => q[i].call # h)
    <3>1. q[i].call \in Call
      BY <1>1, <2>5 DEF Task
    <3>2. st[q[i].call] = "granted"
      BY <2>5 DEF InPlace, PushesGranted
    <3> QED BY <1>4, <3>1, <3>2
  <2>6. \A i, j \in 1 .. Len(q) :
          q[i].kind = "push" /\ q[j].kind = "push" /\ q[i].call = q[j].call => i = j
    BY DEF InPlace, PushesGranted
  <2>7. g => PushTask(h).call = h /\ st'[h] = "granted"
    BY <1>3, <1>4 DEF PushTask
  <2> HIDE DEF p, q, e
  <2>8. \A i \in 1 .. Len(p) : p[i].kind = "push" => st'[p[i].call] = "granted"
    BY <2>4, <2>5, <2>7
  <2>9. ASSUME NEW i \in 1 .. Len(p), NEW j \in 1 .. Len(p),
               p[i].kind = "push", p[j].kind = "push", p[i].call = p[j].call
        PROVE  i = j
    BY <2>4, <2>5, <2>6, <2>7, <2>9
  <2> QED BY <2>8, <2>9 DEF PushesGranted, p
<1>9. TokensHeld'
  <2>1. r \subseteq InFlight /\ IsFiniteSet(r) /\ Cardinality(r) = n
    BY PolledCalls DEF r
  <2>2. IsFiniteSet(InFlight) /\ InFlight \cap r = r
    BY <2>1 DEF TokensHeld
  <2>3. IsFiniteSet(InFlight \ r) /\ Cardinality(InFlight \ r) = Cardinality(InFlight) - n
    <3>1. /\ IsFiniteSet(InFlight \ r)
          /\ Cardinality(InFlight \ r) = Cardinality(InFlight) - Cardinality(InFlight \cap r)
      BY <2>2, FS_Difference
    <3> QED BY <2>1, <2>2, <3>1
  <2>4. Cardinality(InFlight) \in Nat /\ sem.tokens \in Nat
    BY <2>2, FS_CardinalityType DEF Typing
  <2>5. CASE ~g
    <3>1. InFlight' = InFlight \ r
      BY <1>4, <2>5 DEF InFlight
    <3>2. sem'.tokens = sem.tokens + n
      BY <1>1, <1>2, <2>5 DEF AfterRelease, Typing, g
    <3> QED BY <1>1, <2>3, <2>4, <3>1, <3>2, SyscallsAssumption DEF TokensHeld, TokensMatchCalls
  <2>6. CASE g
    <3>1. InFlight' = (InFlight \ r) \cup {h} /\ h \notin InFlight \ r
      BY <1>3, <1>4, <2>6 DEF InFlight
    <3>2. sem'.tokens = sem.tokens + n - 1
      <4>1. Head(w).tokens = 1
        BY <1>1, <2>6, ReleaseTyping DEF Typing, Grants, g
      <4> QED BY <1>1, <1>2, <2>6, <4>1 DEF AfterRelease, Typing, g
    <3>3. IsFiniteSet(InFlight') /\ Cardinality(InFlight') = Cardinality(InFlight) - n + 1
      BY <2>3, <3>1, FS_AddElement
    <3> QED BY <1>1, <2>4, <3>2, <3>3, SyscallsAssumption DEF TokensHeld, TokensMatchCalls
  <2> QED BY <2>5, <2>6
<1> QED BY <1>5, <1>6, <1>7, <1>8, <1>9 DEF InPlace

\* The worker starts the call of the next slot.
LEMMA PlacesStart ==
  ASSUME Typing, InPlace, TokensHeld, StartCall
  PROVE  InPlace' /\ TokensHeld'
<1> DEFINE k == calls[done + 1]
<1>1. /\ done < taken /\ worker = "process" /\ worker' = "respond"
      /\ UNCHANGED <<task_queue, sem, calls, results, done>>
      /\ st' = [st EXCEPT ![k] = "executing"]
  BY DEF StartCall, cpuUnchanged
<1>2. done + 1 \in 1 .. Len(calls) /\ done + 1 \in done + 1 .. Len(calls) /\ k \in Call
  <2>1. done \in Nat /\ Len(calls) \in Nat /\ taken \in Nat /\ taken <= Len(calls)
    BY LenProperties DEF Typing
  <2>2. done + 1 \in 1 .. Len(calls) /\ done + 1 \in done + 1 .. Len(calls)
    BY <1>1, <2>1
  <2> QED BY <2>2 DEF Typing
<1>3. st[k] = "queued"
  BY <1>1, <1>2 DEF InPlace, CallsQueued
<1>4. st'[k] = "executing" /\ \A x \in Call : x # k => st'[x] = st[x]
  BY <1>1, <1>2 DEF Typing
<1>5. PushesGranted' /\ WaitersWait' /\ ResultsAnswered'
  BY <1>1, <1>3, <1>4, PushesKept, WaitersKept, ResultsKept DEF InPlace
<1>6. CallsQueued'
  <2>1. ASSUME NEW i \in done + 1 .. Len(calls), i # done + 1
        PROVE  st'[calls[i]] = "queued"
    <3>1. i \in 1 .. Len(calls)
      BY LenProperties DEF Typing
    <3>2. calls[i] \in Call
      BY <3>1 DEF Typing
    <3>3. calls[i] # k /\ st[calls[i]] = "queued"
      BY <1>1, <1>2, <2>1 DEF InPlace, CallsQueued
    <3> QED BY <1>4, <3>2, <3>3
  <2> QED BY <1>1, <1>4, <2>1 DEF InPlace, CallsQueued
<1>7. TokensHeld'
  <2>1. InFlight' = InFlight
    BY <1>2, <1>3, <1>4 DEF InFlight
  <2> QED BY <1>1, <2>1, TokensKept
<1> QED BY <1>5, <1>6, <1>7 DEF InPlace

\* The worker's answer takes the call from its slot to the other ring, if there is
\* room.
LEMMA PlacesRespond ==
  ASSUME Typing, InPlace, TokensHeld, Respond
  PROVE  InPlace' /\ TokensHeld'
<1> DEFINE k == calls[done + 1]
<1>1. /\ worker = "respond" /\ worker' = "process" /\ done' = done + 1
      /\ UNCHANGED <<task_queue, sem, calls, taken>>
      /\ \/ results' = Append(results, k) /\ st' = [st EXCEPT ![k] = "answered"]
         \/ results' = results /\ st' = [st EXCEPT ![k] = "lost"]
  BY DEF Respond, cpuUnchanged
<1>2. /\ done \in Nat /\ Len(calls) \in Nat
      /\ done + 1 \in 1 .. Len(calls) /\ done + 1 \in done + 1 .. Len(calls) /\ k \in Call
  <2>1. done \in Nat /\ Len(calls) \in Nat /\ taken \in Nat /\ taken <= Len(calls) /\ done < taken
    BY <1>1, LenProperties DEF Typing
  <2>2. done + 1 \in 1 .. Len(calls) /\ done + 1 \in done + 1 .. Len(calls)
    BY <2>1
  <2> QED BY <2>1, <2>2 DEF Typing
<1>3. st[k] = "executing"
  BY <1>1, <1>2 DEF InPlace, CallsQueued
<1>4. st'[k] \in {"answered", "lost"} /\ \A x \in Call : x # k => st'[x] = st[x]
  BY <1>1, <1>2 DEF Typing
<1>5. PushesGranted' /\ WaitersWait'
  BY <1>1, <1>3, <1>4, PushesKept, WaitersKept DEF InPlace
<1>6. CallsQueued'
  <2>1. ASSUME NEW i \in done' + 1 .. Len(calls)
        PROVE  i \in done + 1 .. Len(calls) /\ st'[calls[i]] = "queued"
    <3>1. i \in done + 1 .. Len(calls) /\ i \in 1 .. Len(calls) /\ i # done + 1
      BY <1>1, <1>2
    <3>2. calls[i] \in Call
      BY <3>1 DEF Typing
    <3>3. calls[i] # k /\ st[calls[i]] = "queued"
      BY <1>2, <3>1 DEF InPlace, CallsQueued
    <3> QED BY <1>4, <3>1, <3>2, <3>3
  <2> QED BY <1>1, <2>1 DEF InPlace, CallsQueued
<1>7. ResultsAnswered'
  <2> HIDE DEF k
  <2>1. ASSUME NEW i \in 1 .. Len(results) PROVE st'[results[i]] = "answered" /\ results[i] # k
    <3>1. results[i] \in Call /\ st[results[i]] = "answered"
      BY DEF Typing, InPlace, ResultsAnswered
    <3> QED BY <1>3, <1>4, <3>1
  <2>2. \A i, j \in 1 .. Len(results) : results[i] = results[j] => i = j
    BY DEF InPlace, ResultsAnswered
  <2>3. CASE results' = results
    BY <2>1, <2>2, <2>3 DEF ResultsAnswered
  <2>4. CASE results' = Append(results, k) /\ st'[k] = "answered"
    <3>1. /\ Len(results) \in Nat
          /\ Len(results') = Len(results) + 1 /\ results'[Len(results) + 1] = k
          /\ \A i \in 1 .. Len(results) : results'[i] = results[i]
      BY <1>2, <2>4, LenProperties, AppendProperties DEF Typing
    <3>2. \A i \in 1 .. Len(results') : i \in 1 .. Len(results) \/ i = Len(results) + 1
      BY <3>1
    <3> QED BY <2>1, <2>2, <2>4, <3>1, <3>2 DEF ResultsAnswered
  <2> QED BY <1>1, <1>2, <2>3, <2>4 DEF Typing
<1>8. TokensHeld'
  <2>1. InFlight' = InFlight
    BY <1>2, <1>3, <1>4 DEF InFlight
  <2> QED BY <1>1, <2>1, TokensKept
<1> QED BY <1>5, <1>6, <1>7, <1>8 DEF InPlace

\* Of the slots, those of the calls that have run are freed.
LEMMA PlacesFree ==
  ASSUME Typing, InPlace, TokensHeld, FreeBatch
  PROVE  InPlace' /\ TokensHeld'
<1>1. /\ done = taken /\ done' = 0 /\ worker = "process" /\ worker' = "wake"
      /\ calls' = SubSeq(calls, taken + 1, Len(calls))
      /\ UNCHANGED <<task_queue, sem, results, st>>
  BY DEF FreeBatch, cpuUnchanged
<1>2. /\ done \in Nat /\ Len(calls) \in Nat /\ done <= Len(calls) /\ calls \in Seq(Call)
  BY <1>1, LenProperties DEF Typing
<1>3. /\ Len(calls') = Len(calls) - done
      /\ \A i \in 1 .. Len(calls) - done : calls'[i] = calls[i + done]
  BY <1>1, <1>2
<1>4. CallsQueued'
  <2>1. ASSUME NEW i \in done' + 1 .. Len(calls')
        PROVE  i + done \in done + 1 .. Len(calls) /\ calls'[i] = calls[i + done]
    BY <1>1, <1>2, <1>3
  <2>2. ASSUME NEW i \in done' + 1 .. Len(calls'), NEW j \in done' + 1 .. Len(calls'),
               calls'[i] = calls'[j]
        PROVE  i = j
    <3>1. i + done = j + done
      BY <2>1, <2>2 DEF InPlace, CallsQueued
    <3> QED BY <1>2, <3>1
  <2>3. ASSUME NEW i \in done' + 1 .. Len(calls') PROVE st'[calls'[i]] = "queued"
    <3>1. st[calls[i + done]] = "queued"
      BY <1>1, <2>1 DEF InPlace, CallsQueued
    <3> QED BY <1>1, <2>1, <3>1
  <2> QED BY <1>1, <2>2, <2>3 DEF CallsQueued
<1>5. PushesGranted' /\ WaitersWait' /\ ResultsAnswered'
  BY <1>1, PushesKept, WaitersKept, ResultsKept DEF InPlace
<1>6. TokensHeld'
  <2>1. InFlight' = InFlight
    BY <1>1 DEF InFlight
  <2> QED BY <1>1, <2>1, TokensKept
<1> QED BY <1>4, <1>5, <1>6 DEF InPlace

LEMMA PlacesStep == Typing /\ InPlace /\ TokensHeld /\ [Next]_vars => InPlace' /\ TokensHeld'
<1> SUFFICES ASSUME Typing, InPlace, TokensHeld, [Next]_vars PROVE InPlace' /\ TokensHeld'
  OBVIOUS
<1>1. CASE UNCHANGED vars
  BY <1>1, NothingMoves DEF vars, reactorVars, workerVars
<1>2. CASE Boot \/ Signal \/ PollSignals \/ IdleOrRun \/ NextRound \/ Sleep \/ Poke
  BY <1>2, TypingReactor, NothingMoves
<1>3. CASE RunUser
  <2>1. /\ Head(task_queue[Me]).kind # "push" /\ TakeTask(Me, <<>>)
        /\ UNCHANGED <<sem, calls, results, done, worker, st>>
    BY <1>3 DEF RunUser, UserTask, workerVars
  <2>2. InFlight' = InFlight
    BY <2>1 DEF InFlight
  <2> QED BY <2>1, <2>2, PushesTaken, WaitersKept, CallsKept, ResultsKept, TokensKept DEF InPlace
<1>4. CASE TaskReturns \/ Interrupt
  BY <1>4, NothingMoves DEF TaskReturns, Interrupt, reactorVars, workerVars
<1>5. CASE WorkerWakes \/ Consume \/ WakeCpu
  BY <1>5, NothingMoves DEF WorkerWakes, Consume, WakeCpu, cpuUnchanged
<1> QED BY <1>1, <1>2, <1>3, <1>4, <1>5, PlacesSubmit, PlacesPush, PlacesPoll, PlacesStart,
           PlacesRespond, PlacesFree DEF Next, Run, Work

\* The invariant of the accounts.
LEMMA AccountsHold == Safe => [](Typing /\ InPlace /\ TokensHeld)
<1>1. Init => Typing /\ InPlace /\ TokensHeld
  BY TypingInit, PlacesInit
<1>2. Typing /\ InPlace /\ TokensHeld /\ [Next]_vars => (Typing /\ InPlace /\ TokensHeld)'
  BY TypingStep, PlacesStep
<1> QED BY <1>1, <1>2, PTL DEF Safe

\* Type correctness: neither ring is pushed beyond its size, and the semaphore
\* never counts more tokens than it was made with (syscall.cpp:29-42).
THEOREM TypeCorrect == Safe => []TypeOK
<1>1. Typing /\ TokensHeld => TypeOK
  <2> SUFFICES ASSUME Typing, TokensHeld PROVE TypeOK
    OBVIOUS
  <2>1. sem.tokens \in 0 .. QueueSize
    <3>1. Cardinality(InFlight) \in Nat /\ sem.tokens \in Nat
      BY FS_CardinalityType DEF TokensHeld, Typing
    <3> QED BY <3>1, SyscallsAssumption DEF TokensHeld, TokensMatchCalls
  <2>2. \A i \in DOMAIN task_queue[Me] : task_queue[Me][i] \in Task
    BY MeIsCpu DEF Typing
  <2>3. pc[Me] \in Places
    BY MeIsCpu DEF Typing
  <2> QED BY <2>1, <2>2, <2>3 DEF TypeOK, Typing, Places, Stages
<1> QED BY <1>1, AccountsHold, PTL

\* A token is held by each call from the moment it is let in until its result is
\* polled: submit_ takes one, release() gives back one for each result and lets in
\* at most one call, on the token it takes (syscall.cpp:29, 36).
THEOREM TokensAreAccounted == Safe => []TokensMatchCalls
<1>1. TokensHeld => TokensMatchCalls
  BY DEF TokensHeld
<1> QED BY <1>1, AccountsHold, PTL

\* The worker's push of a result, whose answer nobody looks at, succeeds: the call
\* it has run holds a token, and so does each whose result is in the ring
\* (syscall.cpp:42).
THEOREM NoResultIsRefused == Safe => []ResultsHaveRoom
<1>1. Typing /\ InPlace /\ TokensHeld => ResultsHaveRoom
  <2> SUFFICES ASSUME Typing, InPlace, TokensHeld, worker = "respond"
               PROVE  Len(results) < QueueSize
    BY DEF ResultsHaveRoom
  <2> DEFINE k == calls[done + 1]
             r == {results[i] : i \in 1 .. Len(results)}
  <2>1. k \in Call /\ st[k] = "executing"
    <3>1. done + 1 \in 1 .. Len(calls) /\ done + 1 \in done + 1 .. Len(calls)
      <4>1. done \in Nat /\ Len(calls) \in Nat /\ taken \in Nat /\ taken <= Len(calls) /\ done < taken
        BY LenProperties DEF Typing
      <4> QED BY <4>1
    <3> QED BY <3>1 DEF Typing, InPlace, CallsQueued
  <2>2. r \subseteq InFlight /\ IsFiniteSet(r) /\ Cardinality(r) = Len(results)
    BY PolledCalls
  <2>3. k \in InFlight /\ k \notin r
    BY <2>1 DEF InFlight, InPlace, ResultsAnswered
  <2> HIDE DEF k, r
  <2>4. IsFiniteSet(r \cup {k}) /\ Cardinality(r \cup {k}) = Len(results) + 1
    BY <2>2, <2>3, FS_AddElement
  <2>5. r \cup {k} \in SUBSET InFlight
    BY <2>2, <2>3
  <2>6. Len(results) + 1 <= Cardinality(InFlight)
    BY <2>4, <2>5, FS_Subset DEF TokensHeld
  <2>7. Cardinality(InFlight) \in Nat /\ sem.tokens \in Nat /\ Len(results) \in Nat
    BY FS_CardinalityType, LenProperties DEF TokensHeld, Typing
  <2> QED BY <2>6, <2>7, SyscallsAssumption DEF TokensHeld, TokensMatchCalls
<1> QED BY <1>1, AccountsHold, PTL

-----------------------------------------------------------------------------
(* Nobody sleeps on work.                                                  *)

\* User code runs inside the batch only.
UserInBatch == user => pc[Me] = "tasks"

\* The CPU will poll a result that is in the ring: it is on its way to do so, or a
\* signal that keeps it awake is under way, be it one the worker has yet to send.
ResultsAwaited ==
  results # <<>> => \/ raised[Me] \/ pending_signals[Me]
                    \/ worker \in {"process", "respond", "wake"}
                    \/ pc[Me] \in {"boot", "signal", "clear", "results"}

\* No token is left for a call that waits.
Settled == sem.waiting # <<>> => sem.tokens = 0

\* What the CPU has made sure of when it goes idle.
IdleOK ==
  /\ pc[Me] = "asleep" => ~pending_signals[Me]
  /\ pc[Me] = "decide" /\ Idle(Me) => Settled
  /\ pc[Me] \in {"masked", "asleep"} => Settled

AwakeInv == UserInBatch /\ ResultsAwaited /\ IdleOK /\ NoCallForgotten

LEMMA AwakeInit == Init => AwakeInv
<1> SUFFICES ASSUME Init PROVE AwakeInv
  OBVIOUS
<1>1. pc[Me] = "boot" /\ ~user /\ results = <<>> /\ calls = <<>>
  BY MeIsCpu DEF Init, ReactorInit
<1> QED BY <1>1 DEF AwakeInv, UserInBatch, ResultsAwaited, IdleOK, NoCallForgotten

\* The loop: the order of the poll, the mask and the check of pending_signals_.
LEMMA AwakeReactor ==
  ASSUME Typing, AwakeInv,
         Boot \/ Signal \/ PollSignals \/ IdleOrRun \/ NextRound \/ Sleep \/ Poke
  PROVE  AwakeInv'
<1> USE MeIsCpu
<1>1. /\ UNCHANGED <<task_queue, sem, calls, results, worker>> /\ Settled' = Settled
      /\ interrupt' = interrupt /\ user' = user
  BY TypingReactor DEF Settled, Boot, Signal, PollSignals, IdleOrRun, NextRound, Sleep, Poke,
                       othersUnchanged, workerVars
<1>2. CASE Boot
  <2>1. pc[Me] = "boot" /\ pc'[Me] = "signal" /\ UNCHANGED <<raised, pending_signals>>
    BY <1>2 DEF Boot, InitPollers, Goto, Typing
  <2> QED BY <1>1, <2>1 DEF AwakeInv, UserInBatch, ResultsAwaited, IdleOK, NoCallForgotten
<1>3. CASE Signal
  <2>1. /\ pending_signals'[Me] /\ pc'[Me] = IF pc[Me] = "asleep" THEN "signal" ELSE pc[Me]
        /\ pc[Me] # "masked" /\ cpu_active' = cpu_active
    BY <1>3 DEF Signal, Deliver, Typing
  <2>2. Idle(Me)' = Idle(Me)
    BY <1>1, <2>1 DEF Idle
  <2> QED BY <1>1, <2>1, <2>2 DEF AwakeInv, UserInBatch, ResultsAwaited, IdleOK, NoCallForgotten
<1>4. CASE LoadSignals(Me, "results")
  <2>1. /\ pc[Me] = "signal" /\ pc'[Me] \in {"clear", "results"}
        /\ UNCHANGED <<raised, pending_signals>>
    BY <1>4 DEF LoadSignals, Goto, Typing
  <2> QED BY <1>1, <2>1 DEF AwakeInv, UserInBatch, ResultsAwaited, IdleOK, NoCallForgotten
<1>5. CASE ClearSignals(Me, "results", <<>>)
  <2>1. pc[Me] = "clear" /\ pc'[Me] = "results"
    BY <1>5 DEF ClearSignals, Goto, Typing
  <2> QED BY <1>1, <2>1 DEF AwakeInv, UserInBatch, ResultsAwaited, IdleOK, NoCallForgotten
<1>6. CASE IdleOrRun
  <2>1. /\ pc[Me] = "decide" /\ pc'[Me] = IF Idle(Me) THEN "masked" ELSE "tasks"
        /\ UNCHANGED <<raised, pending_signals>>
    BY <1>6 DEF IdleOrRun, Decide, Goto, Typing
  <2> QED BY <1>1, <2>1 DEF AwakeInv, UserInBatch, ResultsAwaited, IdleOK, NoCallForgotten
<1>7. CASE NextRound
  <2>1. /\ ~user /\ pc[Me] = "tasks" /\ pc'[Me] = "signal"
        /\ UNCHANGED <<raised, pending_signals>>
    BY <1>7 DEF NextRound, EndBatch, Goto, Typing
  <2> QED BY <1>1, <2>1 DEF AwakeInv, UserInBatch, ResultsAwaited, IdleOK, NoCallForgotten
<1>8. CASE Sleep
  <2>1. /\ pc[Me] = "masked" /\ pc'[Me] = IF pending_signals[Me] THEN "signal" ELSE "asleep"
        /\ UNCHANGED <<raised, pending_signals>>
    BY <1>8 DEF Sleep, CheckPending, Goto, Typing
  <2> QED BY <1>1, <2>1 DEF AwakeInv, UserInBatch, ResultsAwaited, IdleOK, NoCallForgotten
<1>9. CASE Poke
  <2>1. raised'[Me] /\ UNCHANGED <<pc, pending_signals, cpu_active>>
    BY <1>9 DEF Poke, Wakeup, Typing
  <2>2. Idle(Me)' = Idle(Me)
    BY <1>1, <2>1 DEF Idle
  <2> QED BY <1>1, <2>1, <2>2 DEF AwakeInv, UserInBatch, ResultsAwaited, IdleOK, NoCallForgotten
<1> QED BY <1>2, <1>3, <1>4, <1>5, <1>6, <1>7, <1>8, <1>9 DEF PollSignals

\* The steps inside a batch.
LEMMA AwakeBatch ==
  ASSUME Typing, AwakeInv,
         RunUser \/ TaskReturns \/ RunPush \/ Interrupt \/ \E k \in Call : Submit(k)
  PROVE  AwakeInv'
<1> USE MeIsCpu
<1>1. pc[Me] \in {"tasks", "interrupt"} /\ pc'[Me] \in {"tasks", "interrupt"}
  BY TakenTask DEF RunUser, TaskReturns, RunPush, Interrupt, Submit, Goto, reactorVars,
                   Typing, AwakeInv, UserInBatch
<1>2. UNCHANGED <<raised, pending_signals, worker, results>>
  BY DEF RunUser, TaskReturns, RunPush, Interrupt, Submit, reactorVars, workerVars
<1>3. ResultsAwaited' /\ IdleOK'
  BY <1>1, <1>2 DEF AwakeInv, ResultsAwaited, IdleOK
<1>4. UserInBatch' /\ NoCallForgotten'
  <2>1. CASE RunUser
    BY <2>1, TakenTask DEF RunUser, workerVars, AwakeInv, UserInBatch, NoCallForgotten
  <2>2. CASE TaskReturns
    BY <2>2 DEF TaskReturns, reactorVars, workerVars, AwakeInv, UserInBatch, NoCallForgotten
  <2>3. CASE RunPush
    BY <2>3 DEF RunPush, Goto, Typing, UserInBatch, NoCallForgotten
  <2>4. CASE Interrupt
    BY <2>4 DEF Interrupt, Goto, Typing, AwakeInv, UserInBatch, NoCallForgotten
  <2>5. CASE \E k \in Call : Submit(k)
    BY <2>5 DEF Submit, workerVars, AwakeInv, UserInBatch, NoCallForgotten
  <2> QED BY <2>1, <2>2, <2>3, <2>4, <2>5
<1> QED BY <1>3, <1>4 DEF AwakeInv

\* poll_results calls release() even for no results, and so leaves no token unused
\* behind a call that waits, unless it makes the CPU run.
LEMMA AwakePoll ==
  ASSUME Typing, AwakeInv, PollResults
  PROVE  AwakeInv'
<1> USE MeIsCpu
<1> DEFINE n == Len(results)
<1>1. /\ pc[Me] = "results" /\ pc'[Me] = "decide" /\ results' = <<>>
      /\ cpu_active'[Me] = (cpu_active[Me] \/ n > 0)
      /\ sem' = AfterRelease(sem, n)
      /\ UNCHANGED <<calls, interrupt, worker, user>>
  BY DEF PollResults, Goto, SetActive, Typing, Released
<1>2. Idle(Me)' => Settled'
  <2> SUFFICES ASSUME Idle(Me)' PROVE Settled'
    OBVIOUS
  <2>1. n \in Nat /\ ~(n > 0)
    BY <1>1, LenProperties DEF Idle, Typing
  <2>2. n = 0
    BY <2>1
  <2>3. ~Grants(sem, n)
    <3>1. task_queue'[Me] = task_queue[Me] \o Scheduled(n) /\ task_queue'[Me] = <<>>
      BY DEF PollResults, Schedule, Scheduled, Granted, Typing, Idle
    <3>2. /\ task_queue[Me] \in Seq(Task) /\ Len(task_queue[Me]) \in Nat
          /\ Scheduled(n) \in Seq(Task)
          /\ Len(Scheduled(n)) = n + (IF Grants(sem, n) THEN 1 ELSE 0)
      BY <2>1, WhatIsScheduled, LenProperties DEF Typing
    <3> HIDE DEF n
    <3>3. Len(task_queue[Me] \o Scheduled(n)) = Len(task_queue[Me]) + Len(Scheduled(n))
      BY <3>2, ConcatProperties
    <3>4. Len(task_queue[Me] \o Scheduled(n)) = 0
      BY <3>1, EmptySeq
    <3>5. Len(task_queue[Me]) + Len(Scheduled(n)) = 0 /\ n \in Nat
      BY <2>1, <3>3, <3>4
    <3>6. CASE Grants(sem, n)
      <4>1. Len(Scheduled(n)) = n + 1
        BY <3>2, <3>6
      <4> DEFINE a == Len(task_queue[Me])
      <4>2. a \in Nat /\ a + (n + 1) = 0 /\ n \in Nat
        BY <3>2, <3>5, <4>1
      <4> HIDE DEF a
      <4>3. FALSE
        BY <4>2
      <4> QED BY <4>3
    <3> QED BY <3>6
  <2>4. sem'.waiting = sem.waiting /\ sem'.tokens = sem.tokens
    BY <1>1, <2>2, <2>3 DEF AfterRelease, Typing
  <2>5. sem.waiting # <<>> => ~(1 <= sem.tokens + n)
    BY <2>1, <2>3, ReleaseTyping DEF Typing
  <2>6. sem.tokens \in Nat
    BY DEF Typing
  <2> QED BY <2>2, <2>4, <2>5, <2>6 DEF Settled
<1> QED BY <1>1, <1>2 DEF AwakeInv, UserInBatch, ResultsAwaited, IdleOK, NoCallForgotten

\* The worker wakes the CPU after each batch and looks for more before it waits.
LEMMA AwakeWork ==
  ASSUME Typing, AwakeInv, Work
  PROVE  AwakeInv'
<1> USE MeIsCpu
<1>1. UNCHANGED <<pc, cpu_active, task_queue, pending_signals, sem, user>>
  BY DEF Work, WorkerWakes, Consume, StartCall, Respond, FreeBatch, WakeCpu, cpuUnchanged
<1>2. Settled' = Settled /\ Idle(Me)' = Idle(Me)
  BY <1>1 DEF Settled, Idle
<1>3. UserInBatch' /\ IdleOK'
  BY <1>1, <1>2 DEF AwakeInv, UserInBatch, IdleOK
<1>4. NoCallForgotten'
  <2>1. worker' = "wait" => Consume /\ calls = <<>> /\ calls' = calls
    BY DEF Work, WorkerWakes, Consume, StartCall, Respond, FreeBatch, WakeCpu
  <2> QED BY <2>1 DEF NoCallForgotten
<1>5. ResultsAwaited'
  <2>1. CASE WorkerWakes \/ Consume
    BY <1>1, <2>1 DEF WorkerWakes, Consume, AwakeInv, ResultsAwaited
  <2>2. CASE StartCall \/ Respond \/ FreeBatch
    BY <2>2 DEF StartCall, Respond, FreeBatch, ResultsAwaited
  <2>3. CASE WakeCpu
    BY <2>3 DEF WakeCpu, Wakeup, Typing, ResultsAwaited
  <2> QED BY <2>1, <2>2, <2>3 DEF Work
<1> QED BY <1>3, <1>4, <1>5 DEF AwakeInv

LEMMA AwakeStep == Typing /\ AwakeInv /\ [Next]_vars => AwakeInv'
<1>1. ASSUME AwakeInv, UNCHANGED vars PROVE AwakeInv'
  <2>1. Idle(Me)' = Idle(Me)
    BY <1>1 DEF vars, reactorVars, Idle
  <2> QED BY <1>1, <2>1 DEF vars, reactorVars, workerVars, AwakeInv, UserInBatch,
                            ResultsAwaited, IdleOK, Settled, NoCallForgotten
<1> QED BY <1>1, AwakeReactor, AwakeBatch, AwakePoll, AwakeWork DEF Next, Run

LEMMA AwakeHolds == Safe => []AwakeInv
<1>1. Safe => []Typing
  BY AccountsHold, PTL
<1> QED BY <1>1, AwakeInit, AwakeStep, PTL DEF Safe

\* The worker does not wait with calls in its ring unless its eventfd is, or is
\* about to be, signalled (syscall.cpp:37-61).
THEOREM NoCallIsForgotten == Safe => []NoCallForgotten
<1>1. AwakeInv => NoCallForgotten
  BY DEF AwakeInv
<1> QED BY <1>1, AwakeHolds, PTL

\* The CPU does not sleep with results in its ring unless it is signalled or the
\* worker, still inside its batch, will signal it (syscall.cpp:54-63, cpu.cpp:129).
THEOREM NoResultIsForgotten == Safe => []NoResultForgotten
<1>1. AwakeInv => NoResultForgotten
  BY DEF AwakeInv, ResultsAwaited, IdleOK, NoResultForgotten
<1> QED BY <1>1, AwakeHolds, PTL

\* The CPU does not sleep with a call waiting that a token could let in
\* (syscall.cpp:29).
THEOREM NoWaiterIsSleptOn == Safe => []NoAdmissibleWaiterSleeps
<1>1. AwakeInv => NoAdmissibleWaiterSleeps
  BY DEF AwakeInv, IdleOK, Settled, NoAdmissibleWaiterSleeps
<1> QED BY <1>1, AwakeHolds, PTL

-----------------------------------------------------------------------------
(* What is still to be run: Unrun, Pushes and Waiters, one after the other. *)

PushesOf(q) == Seqs!FlattenSeq([i \in 1 .. Len(q) |-> CallsOf(q[i])])

WaitersOf(w) == [i \in 1 .. Len(w) |-> w[i].who]

UnrunOf(q, first) == SubSeq(q, first, Len(q))

\* The slot of the first call that has yet to be run.
FirstUnrun == done + (IF worker = "respond" THEN 2 ELSE 1)

LEMMA CallsOfTask ==
  ASSUME NEW t \in Task
  PROVE  /\ CallsOf(t) \in Seq(Call)
         /\ CallsOf(t) = IF t.kind = "push" THEN <<t.call>> ELSE <<>>
         /\ t.kind = "push" => t.call \in Call
<1>1. CASE t.kind = "push"
  <2>1. t.call \in Call /\ t # UserTask
    BY <1>1 DEF Task, UserTask
  <2>2. CallsOf(t) = <<t.call>>
    BY <2>1 DEF CallsOf
  <2> QED BY <1>1, <2>1, <2>2
<1>2. CASE t.kind # "push"
  <2>1. t = UserTask
    BY <1>2 DEF Task, UserTask
  <2>2. CallsOf(t) = <<>>
    BY <2>1 DEF CallsOf
  <2> QED BY <1>2, <2>2, EmptySeq
<1> QED BY <1>1, <1>2

\* What each task pushes.
CallsPushed == [t \in Task |-> CallsOf(t)]

LEMMA PushesSpelled ==
  /\ CallsPushed \in [Task -> Seq(Call)]
  /\ \A t \in Task : CallsPushed[t] = CallsOf(t)
  /\ \A q \in Seq(Task) : PushesOf(q) = Spelled(q, CallsPushed)
<1>1. CallsPushed \in [Task -> Seq(Call)] /\ \A t \in Task : CallsPushed[t] = CallsOf(t)
  BY CallsOfTask DEF CallsPushed
<1>2. ASSUME NEW q \in Seq(Task) PROVE PushesOf(q) = Spelled(q, CallsPushed)
  <2>1. \A i \in 1 .. Len(q) : q[i] \in Task
    BY LenProperties
  <2>2. [i \in 1 .. Len(q) |-> CallsOf(q[i])] = [i \in 1 .. Len(q) |-> CallsPushed[q[i]]]
    BY <1>1, <2>1
  <2> QED BY <2>2 DEF PushesOf, Spelled
<1> QED BY <1>1, <1>2

LEMMA PushesOfConcat ==
  ASSUME NEW q \in Seq(Task), NEW s \in Seq(Task)
  PROVE  PushesOf(q) \in Seq(Call) /\ PushesOf(q \o s) = PushesOf(q) \o PushesOf(s)
<1>1. Spelled(q, CallsPushed) \in Seq(Call) /\ SpelledApart(q, s, CallsPushed)
  BY PushesSpelled, SpelledConcat
<1>2. PICK r \in Seq(Task) : r = q \o s
  BY ConcatProperties
<1>3. /\ PushesOf(q) = Spelled(q, CallsPushed) /\ PushesOf(s) = Spelled(s, CallsPushed)
      /\ PushesOf(r) = Spelled(r, CallsPushed)
  BY PushesSpelled
<1> QED BY <1>1, <1>2, <1>3 DEF SpelledApart

LEMMA PushesOfOne ==
  ASSUME NEW t \in Task
  PROVE  PushesOf(<<>>) = <<>> /\ <<t>> \in Seq(Task) /\ PushesOf(<<t>>) = CallsOf(t)
<1>1. /\ Spelled(<<>>, CallsPushed) = <<>>
      /\ <<t>> \in Seq(Task) /\ Spelled(<<t>>, CallsPushed) = CallsPushed[t]
  BY PushesSpelled, SpelledOne
<1>2. <<>> \in Seq(Task)
  BY EmptySeq
<1> QED BY <1>1, <1>2, PushesSpelled

\* The head of the task queue, and what is behind it.
LEMMA PushesOfHead ==
  ASSUME NEW q \in Seq(Task), q # <<>>
  PROVE  /\ Head(q) \in Task /\ Tail(q) \in Seq(Task) /\ PushesOf(Tail(q)) \in Seq(Call)
         /\ PushesOf(q) = CallsOf(Head(q)) \o PushesOf(Tail(q))
<1>1. /\ Head(q) \in Task /\ Tail(q) \in Seq(Task) /\ Spelled(Tail(q), CallsPushed) \in Seq(Call)
      /\ Spelled(q, CallsPushed) = CallsPushed[Head(q)] \o Spelled(Tail(q), CallsPushed)
  BY PushesSpelled, SpelledHead
<1>2. PICK t \in Task, r \in Seq(Task) : t = Head(q) /\ r = Tail(q)
  BY <1>1
<1>3. /\ CallsPushed[t] = CallsOf(t) /\ PushesOf(r) = Spelled(r, CallsPushed)
      /\ PushesOf(q) = Spelled(q, CallsPushed)
  BY PushesSpelled
<1> QED BY <1>1, <1>2, <1>3

\* The tasks of user code push nothing.
LEMMA PushesOfUsers ==
  ASSUME NEW q \in Seq(Task), \A i \in 1 .. Len(q) : q[i] = UserTask
  PROVE  PushesOf(q) = <<>>
<1>1. \A i \in 1 .. Len(q) : CallsPushed[q[i]] = <<>>
  BY PushesSpelled, LenProperties DEF CallsOf
<1>2. Spelled(q, CallsPushed) = <<>>
  BY <1>1, PushesSpelled, SpelledNothing
<1> QED BY <1>2, PushesSpelled

LEMMA WaitersOfParts ==
  ASSUME NEW w \in Seq(Client)
  PROVE  /\ WaitersOf(w) \in Seq(Call)
         /\ w = <<>> => WaitersOf(w) = <<>>
         /\ \A k \in Call : WaitersOf(Append(w, [tokens |-> 1, who |-> k])) = Append(WaitersOf(w), k)
         /\ w # <<>> => /\ Head(w).who \in Call /\ WaitersOf(Tail(w)) \in Seq(Call)
                        /\ WaitersOf(w) = <<Head(w).who>> \o WaitersOf(Tail(w))
<1>1. ASSUME NEW v \in Seq(Client)
      PROVE  WaitersOf(v) \in Seq(Call) /\ Len(WaitersOf(v)) = Len(v)
             /\ \A i \in 1 .. Len(v) : WaitersOf(v)[i] = v[i].who
  <2>1. Len(v) \in Nat /\ \A i \in 1 .. Len(v) : v[i] \in Client
    BY LenProperties
  <2>2. \A i \in 1 .. Len(v) : v[i].who \in Call
    BY <2>1 DEF Client
  <2>3. WaitersOf(v) \in [1 .. Len(v) -> Call] /\ \A i \in 1 .. Len(v) : WaitersOf(v)[i] = v[i].who
    BY <2>2 DEF WaitersOf
  <2>4. WaitersOf(v) \in Seq(Call)
    BY <2>1, <2>3, SeqDef
  <2> QED BY <2>1, <2>3, <2>4, LenProperties
<1>2. w = <<>> => WaitersOf(w) = <<>>
  BY DEF WaitersOf
<1>3. ASSUME NEW k \in Call PROVE WaitersOf(Append(w, [tokens |-> 1, who |-> k])) = Append(WaitersOf(w), k)
  <2>1. PICK c \in Client : c = [tokens |-> 1, who |-> k] /\ c.who = k
    <3>1. [tokens |-> 1, who |-> k] \in Client /\ [tokens |-> 1, who |-> k].who = k
      BY DEF Client
    <3> QED BY <3>1
  <2>2. /\ Append(w, c) \in Seq(Client) /\ Len(Append(w, c)) = Len(w) + 1 /\ Len(w) \in Nat
        /\ Append(w, c)[Len(w) + 1] = c /\ \A i \in 1 .. Len(w) : Append(w, c)[i] = w[i]
    BY AppendProperties, LenProperties
  <2>3. PICK v \in Seq(Client) : v = Append(w, c)
    BY <2>2
  <2>4. PICK a \in Seq(Call), b \in Seq(Call) : a = WaitersOf(w) /\ b = WaitersOf(v)
    BY <1>1
  <2>5. /\ Append(a, k) \in Seq(Call) /\ Len(Append(a, k)) = Len(a) + 1
        /\ Append(a, k)[Len(a) + 1] = k /\ \A i \in 1 .. Len(a) : Append(a, k)[i] = a[i]
    BY AppendProperties
  <2>6. Len(a) = Len(w) /\ Len(b) = Len(w) + 1 /\ \A i \in 1 .. Len(w) : a[i] = w[i].who
    BY <1>1, <2>2, <2>3, <2>4
  <2>7. ASSUME NEW i \in 1 .. Len(w) + 1 PROVE b[i] = Append(a, k)[i]
    <3>1. b[i] = v[i].who
      BY <1>1, <2>2, <2>3, <2>4, <2>6
    <3>2. i \in 1 .. Len(w) \/ i = Len(w) + 1
      BY <2>2
    <3> QED BY <2>1, <2>2, <2>3, <2>5, <2>6, <3>1, <3>2
  <2>8. b = Append(a, k)
    BY <2>5, <2>6, <2>7, SeqEqual
  <2> QED BY <2>1, <2>3, <2>4, <2>8
<1>4. ASSUME w # <<>>
      PROVE  /\ Head(w).who \in Call /\ WaitersOf(Tail(w)) \in Seq(Call)
             /\ WaitersOf(w) = <<Head(w).who>> \o WaitersOf(Tail(w))
  <2>1. /\ Head(w) \in Client /\ Head(w) = w[1] /\ Tail(w) \in Seq(Client)
        /\ Len(w) \in Nat \ {0} /\ Len(Tail(w)) = Len(w) - 1
        /\ \A i \in 1 .. Len(Tail(w)) : Tail(w)[i] = w[i + 1]
    BY <1>4, HeadTailProperties, LenProperties, EmptySeq
  <2>2. PICK t \in Seq(Client) : t = Tail(w)
    BY <2>1
  <2>3. PICK a \in Seq(Call), b \in Seq(Call) : a = WaitersOf(w) /\ b = WaitersOf(t)
    BY <1>1
  <2>4. Len(a) = Len(w) /\ Len(b) = Len(w) - 1
    BY <1>1, <2>1, <2>2, <2>3
  <2>5. a # <<>>
    BY <2>1, <2>4, EmptySeq
  <2>6. /\ a = <<Head(a)>> \o Tail(a) /\ Tail(a) \in Seq(Call) /\ Len(Tail(a)) = Len(a) - 1
        /\ \A i \in 1 .. Len(Tail(a)) : Tail(a)[i] = a[i + 1]
    BY <2>5, HeadThenTail, HeadTailProperties
  <2>7. Head(a) = Head(w).who
    BY <1>1, <2>1, <2>3
  <2>8. ASSUME NEW i \in 1 .. Len(w) - 1 PROVE Tail(a)[i] = b[i]
    <3>1. i + 1 \in 1 .. Len(w)
      BY <2>1
    <3>2. a[i + 1] = w[i + 1].who
      BY <1>1, <2>3, <3>1
    <3>3. b[i] = t[i].who /\ t[i] = w[i + 1]
      BY <1>1, <2>1, <2>2, <2>3
    <3> QED BY <2>4, <2>6, <3>2, <3>3
  <2>9. Tail(a) = b
    BY <2>4, <2>6, <2>8, SeqEqual
  <2>10. Head(w).who \in Call
    BY <2>1 DEF Client
  <2> QED BY <2>2, <2>3, <2>6, <2>7, <2>9, <2>10
<1> QED BY <1>1, <1>2, <1>3, <1>4

\* Three sequences in a row, and what is put in front of one or behind it.
Join(a, b) == a \o b
Row(a, b, c) == Join(Join(a, b), c)
Front(k, b) == Join(<<k>>, b)
Behind(b, k) == Append(b, k)

LEMMA JoinAll ==
  ASSUME NEW S
  PROVE  /\ \A x, y \in Seq(S) : Join(x, y) \in Seq(S)
         /\ \A x, y, z \in Seq(S) : Join(Join(x, y), z) = Join(x, Join(y, z))
         /\ \A x \in Seq(S) : Join(x, <<>>) = x
         /\ \A k \in S : <<k>> \in Seq(S) /\ \A x \in Seq(S) : Behind(x, k) = Join(x, <<k>>)
<1>1. ASSUME NEW x \in Seq(S), NEW y \in Seq(S) PROVE Join(x, y) \in Seq(S)
  BY ConcatProperties DEF Join
<1>2. ASSUME NEW x \in Seq(S), NEW y \in Seq(S), NEW z \in Seq(S)
      PROVE  Join(Join(x, y), z) = Join(x, Join(y, z))
  BY ConcatAssociative DEF Join
<1>3. ASSUME NEW x \in Seq(S) PROVE Join(x, <<>>) = x
  BY ConcatEmptySeq DEF Join
<1>4. ASSUME NEW k \in S PROVE <<k>> \in Seq(S)
  OBVIOUS
<1>5. ASSUME NEW k \in S, NEW x \in Seq(S) PROVE Behind(x, k) = Join(x, <<k>>)
  BY AppendIsConcat DEF Join, Behind
<1> QED BY <1>1, <1>2, <1>3, <1>4, <1>5

\* A call that moves from one of the sequences to the next.
LEMMA InARow ==
  ASSUME NEW S, NEW a \in Seq(S), NEW b \in Seq(S), NEW c \in Seq(S), NEW k \in S
  PROVE  /\ Row(a, b, c) \in Seq(S)
         /\ Row(a, b, Behind(c, k)) = Behind(Row(a, b, c), k)
         /\ Row(a, Behind(b, k), <<>>) = Behind(Row(a, b, <<>>), k)
         /\ Row(Behind(a, k), b, c) = Row(a, Front(k, b), c)
         /\ Row(a, Behind(b, k), c) = Row(a, b, Front(k, c))
         /\ Row(a, Front(k, b), c) = Join(a, Front(k, Join(b, c)))
         /\ Row(a, b, c) = Join(a, Join(b, c))
         /\ Row(Front(k, a), b, c) = Front(k, Row(a, b, c))
<1>1. PICK o \in Seq(S) : o = <<k>>
  BY JoinAll
<1>2. \A x, y, z \in Seq(S) : Join(Join(x, y), z) = Join(x, Join(y, z))
  BY JoinAll
<1>3. /\ \A x, y \in Seq(S) : Join(x, y) \in Seq(S)
      /\ \A x \in Seq(S) : Join(x, <<>>) = x
      /\ \A x \in Seq(S) : Behind(x, k) = Join(x, o)
  BY <1>1, JoinAll
<1>4. \A x : Front(k, x) = Join(o, x)
  BY <1>1 DEF Front
<1>5. \A x, y, z : Row(x, y, z) = Join(Join(x, y), z)
  BY DEF Row
<1>7. Row(a, b, c) \in Seq(S)
  BY <1>3, <1>5
<1>8. Row(a, b, Behind(c, k)) = Behind(Row(a, b, c), k)
  <2>1. Join(a, b) \in Seq(S)
    BY <1>3
  <2>2. Join(Join(a, b), Join(c, o)) = Join(Join(Join(a, b), c), o)
    BY <1>2, <2>1
  <2> QED BY <1>3, <1>5, <1>7, <2>2
<1>9. Row(a, Behind(b, k), <<>>) = Behind(Row(a, b, <<>>), k)
  <2>1. Join(a, b) \in Seq(S) /\ Join(b, o) \in Seq(S) /\ Join(a, Join(b, o)) \in Seq(S)
    BY <1>3
  <2>2. Join(a, Join(b, o)) = Join(Join(a, b), o)
    BY <1>2
  <2>3. Join(Join(a, Join(b, o)), <<>>) = Join(a, Join(b, o)) /\ Join(Join(a, b), <<>>) = Join(a, b)
    BY <1>3, <2>1
  <2> QED BY <1>3, <1>5, <2>1, <2>2, <2>3
<1>10. Row(Behind(a, k), b, c) = Row(a, Front(k, b), c)
  <2>1. Join(Join(a, o), b) = Join(a, Join(o, b))
    BY <1>2
  <2> QED BY <1>3, <1>4, <1>5, <2>1
<1>11. Row(a, Behind(b, k), c) = Row(a, b, Front(k, c))
  <2>1. Join(Join(a, b), o) = Join(a, Join(b, o)) /\ Join(a, b) \in Seq(S)
    BY <1>2, <1>3
  <2>2. Join(Join(Join(a, b), o), c) = Join(Join(a, b), Join(o, c))
    BY <1>2, <2>1
  <2> QED BY <1>3, <1>4, <1>5, <2>1, <2>2
<1>12. Row(a, Front(k, b), c) = Join(a, Front(k, Join(b, c)))
  <2>1. Join(o, b) \in Seq(S)
    BY <1>3
  <2>2. Join(Join(a, Join(o, b)), c) = Join(a, Join(Join(o, b), c))
    BY <1>2, <2>1
  <2>3. Join(Join(o, b), c) = Join(o, Join(b, c))
    BY <1>2
  <2> QED BY <1>4, <1>5, <2>2, <2>3
<1>13. Row(a, b, c) = Join(a, Join(b, c))
  BY <1>2, <1>5
<1>14. Row(Front(k, a), b, c) = Front(k, Row(a, b, c))
  <2>1. Join(Join(o, a), b) = Join(o, Join(a, b)) /\ Join(a, b) \in Seq(S)
    BY <1>2, <1>3
  <2>2. Join(Join(o, Join(a, b)), c) = Join(o, Join(Join(a, b), c))
    BY <1>2, <2>1
  <2> QED BY <1>4, <1>5, <2>1, <2>2
<1> QED BY <1>7, <1>8, <1>9, <1>10, <1>11, <1>12, <1>13, <1>14

\* The same of calls, to be used where much else is known of them.
RowFacts(a, b, c, k) ==
  /\ Row(a, b, c) \in Seq(Call)
  /\ Row(Behind(a, k), b, c) = Row(a, Front(k, b), c)
  /\ Row(a, Behind(b, k), c) = Row(a, b, Front(k, c))
  /\ Row(Front(k, a), b, c) = Front(k, Row(a, b, c))
  /\ WithoutItem(Row(a, Front(k, b), c), k, Row(a, b, c))
  /\ \A q \in Seq(Call) : Head(Front(k, q)) = k /\ Tail(Front(k, q)) = q /\ Front(k, q) # <<>>

LEMMA RowsOfCalls ==
  ASSUME NEW a \in Seq(Call), NEW b \in Seq(Call), NEW c \in Seq(Call), NEW k \in Call
  PROVE  RowFacts(a, b, c, k)
<1>1. /\ Row(a, b, c) \in Seq(Call)
      /\ Row(Behind(a, k), b, c) = Row(a, Front(k, b), c)
      /\ Row(a, Behind(b, k), c) = Row(a, b, Front(k, c))
      /\ Row(Front(k, a), b, c) = Front(k, Row(a, b, c))
      /\ Row(a, Front(k, b), c) = Join(a, Front(k, Join(b, c)))
      /\ Row(a, b, c) = Join(a, Join(b, c))
  BY InARow
<1>2. PICK d \in Seq(Call) : d = Join(b, c)
  BY JoinAll
<1>3. PICK q : q = Row(a, Front(k, b), c) /\ q = a \o (<<k>> \o d)
  BY <1>1, <1>2 DEF Front, Join
<1>4. WithoutItem(q, k, a \o d)
  BY <1>3, TakenOut
<1>5. Row(a, b, c) = a \o d
  BY <1>1, <1>2 DEF Join
<1>6. ASSUME NEW p \in Seq(Call)
      PROVE  Head(Front(k, p)) = k /\ Tail(Front(k, p)) = p /\ Front(k, p) # <<>>
  BY FrontTaken DEF Front, Join
<1> QED BY <1>1, <1>3, <1>4, <1>5, <1>6 DEF RowFacts

LEMMA ToDoParts ==
  ToDo = Row(UnrunOf(calls, FirstUnrun), PushesOf(task_queue[Me]), WaitersOf(sem.waiting))
BY DEF ToDo, Unrun, Pushes, Waiters, UnrunOf, FirstUnrun, PushesOf, WaitersOf, Row, Join

LEMMA ToDoPartsNext ==
  ToDo' = Row(UnrunOf(calls', FirstUnrun'), PushesOf(task_queue'[Me]), WaitersOf(sem'.waiting))
BY DEF ToDo, Unrun, Pushes, Waiters, UnrunOf, FirstUnrun, PushesOf, WaitersOf, Row, Join

\* The parts are sequences of calls.
LEMMA PartsTyping ==
  ASSUME Typing
  PROVE  /\ UnrunOf(calls, FirstUnrun) \in Seq(Call)
         /\ task_queue[Me] \in Seq(Task) /\ PushesOf(task_queue[Me]) \in Seq(Call)
         /\ sem.waiting \in Seq(Client) /\ WaitersOf(sem.waiting) \in Seq(Call)
         /\ FirstUnrun \in Nat \ {0} /\ FirstUnrun <= Len(calls) + 1 /\ Len(calls) \in Nat
<1>1. task_queue[Me] \in Seq(Task) /\ sem.waiting \in Seq(Client)
  BY MeIsCpu DEF Typing
<1>2. PushesOf(task_queue[Me]) \in Seq(Call) /\ WaitersOf(sem.waiting) \in Seq(Call)
  BY <1>1, PushesOfConcat, WaitersOfParts
<1>3. FirstUnrun \in Nat \ {0} /\ FirstUnrun <= Len(calls) + 1 /\ Len(calls) \in Nat
  BY LenProperties DEF Typing, FirstUnrun
<1>4. UnrunOf(calls, FirstUnrun) \in Seq(Call)
  <2>1. \A i \in FirstUnrun .. Len(calls) : calls[i] \in Call
    BY <1>3 DEF Typing
  <2> QED BY <1>3, <2>1, SubSeqProperties DEF UnrunOf
<1> QED BY <1>1, <1>2, <1>3, <1>4

\* Where nothing touches what is still to be run.
LEMMA ToDoKept ==
  ASSUME UNCHANGED <<task_queue, sem, calls, done>>, (worker' = "respond") <=> (worker = "respond")
  PROVE  ToDo' = ToDo
<1>1. FirstUnrun' = FirstUnrun
  BY DEF FirstUnrun
<1>2. Unrun' = Unrun
  BY DEF Unrun
<1>3. Pushes' = Pushes /\ Waiters' = Waiters
  BY DEF Pushes, Waiters
<1> QED BY <1>2, <1>3 DEF ToDo

LEMMA ToDoSubmit ==
  ASSUME Typing, NEW k \in Call, Submit(k)
  PROVE  ToDo' = Append(ToDo, k)
<1> USE MeIsCpu
<1>1. PICK a \in Seq(Call), b \in Seq(Call), c \in Seq(Call) :
        a = UnrunOf(calls, FirstUnrun) /\ b = PushesOf(task_queue[Me]) /\ c = WaitersOf(sem.waiting)
  BY PartsTyping
<1>2. ToDo = Row(a, b, c)
  BY <1>1, ToDoParts
<1>3. UnrunOf(calls', FirstUnrun') = a
  BY <1>1 DEF Submit, workerVars, UnrunOf, FirstUnrun
<1>4. CASE Admits(sem, 1)
  <2>1. sem.waiting = <<>> /\ sem'.waiting = <<>>
    BY <1>4 DEF Submit, AfterWait, Admits, Typing
  <2>2. c = <<>> /\ WaitersOf(sem'.waiting) = <<>>
    BY <1>1, <2>1 DEF WaitersOf
  <2>3. task_queue'[Me] = task_queue[Me] \o <<PushTask(k)>>
    BY <1>4 DEF Submit, Schedule, Typing
  <2>4. PushTask(k) \in Task /\ CallsOf(PushTask(k)) = <<k>>
    BY DEF PushTask, Task, CallsOf, UserTask
  <2>5. PushesOf(task_queue'[Me]) = Behind(b, k)
    <3>1. PICK t \in Task, q \in Seq(Task) : t = PushTask(k) /\ q = task_queue[Me]
      BY <2>4, PartsTyping
    <3>2. <<t>> \in Seq(Task) /\ PushesOf(<<t>>) = <<k>>
      BY <2>4, <3>1, PushesOfOne
    <3>3. PushesOf(q \o <<t>>) = PushesOf(q) \o PushesOf(<<t>>)
      BY <3>2, PushesOfConcat
    <3>4. Behind(b, k) = b \o <<k>>
      BY AppendIsConcat DEF Behind
    <3> QED BY <1>1, <2>3, <3>1, <3>2, <3>3, <3>4
  <2>6. ToDo' = Row(a, Behind(b, k), <<>>)
    BY <1>3, <2>2, <2>5, ToDoPartsNext
  <2>7. Row(a, Behind(b, k), <<>>) = Behind(Row(a, b, <<>>), k)
    BY InARow
  <2> QED BY <1>2, <2>2, <2>6, <2>7 DEF Behind
<1>5. CASE ~Admits(sem, 1)
  <2>1. task_queue' = task_queue /\ sem'.waiting = Append(sem.waiting, [tokens |-> 1, who |-> k])
    BY <1>5 DEF Submit, AfterWait, Typing
  <2>2. WaitersOf(sem'.waiting) = Behind(c, k)
    BY <1>1, <2>1, PartsTyping, WaitersOfParts DEF Behind
  <2>3. ToDo' = Row(a, b, Behind(c, k))
    BY <1>1, <1>3, <2>1, <2>2, ToDoPartsNext
  <2>4. Row(a, b, Behind(c, k)) = Behind(Row(a, b, c), k)
    BY InARow
  <2> QED BY <1>2, <2>3, <2>4 DEF Behind
<1> QED BY <1>4, <1>5

\* A task that is taken, and what it pushes.
LEMMA TakenCalls ==
  ASSUME Typing, TakeTask(Me, <<>>)
  PROVE  /\ Head(task_queue[Me]) \in Task /\ task_queue'[Me] \in Seq(Task)
         /\ PushesOf(task_queue'[Me]) \in Seq(Call)
         /\ PushesOf(task_queue[Me]) = CallsOf(Head(task_queue[Me])) \o PushesOf(task_queue'[Me])
<1>1. task_queue[Me] \in Seq(Task) /\ task_queue[Me] # <<>> /\ task_queue'[Me] = Tail(task_queue[Me])
  BY TakenTask, MeIsCpu DEF Typing
<1> QED BY <1>1, PushesOfHead

LEMMA ToDoUser ==
  ASSUME Typing, RunUser
  PROVE  ToDo' = ToDo
<1>1. CallsOf(Head(task_queue[Me])) = <<>> /\ TakeTask(Me, <<>>)
  BY DEF RunUser, CallsOf
<1>2. PushesOf(task_queue'[Me]) = PushesOf(task_queue[Me])
  BY <1>1, TakenCalls, ConcatEmptySeq
<1>3. UnrunOf(calls', FirstUnrun') = UnrunOf(calls, FirstUnrun) /\ sem' = sem
  BY DEF RunUser, workerVars, UnrunOf, FirstUnrun
<1> QED BY <1>2, <1>3, ToDoParts, ToDoPartsNext

\* The call that the task at the head pushes.
Pushed(k) == k = Head(task_queue[Me]).call

\* A push takes the call from its task to the ring, or drops it.
LEMMA ToDoPush ==
  ASSUME Typing, RunPush, NEW k \in Call, Pushed(k)
  PROVE  \/ st' = [st EXCEPT ![k] = "queued"] /\ ToDo' = ToDo
         \/ st' = [st EXCEPT ![k] = "lost"] /\ WithoutItem(ToDo, k, ToDo')
<1>1. /\ TakeTask(Me, <<>>) /\ Head(task_queue[Me]).kind = "push"
      /\ UNCHANGED <<sem, done, worker>>
  BY DEF RunPush, Pushed
<1>2. CallsOf(Head(task_queue[Me])) = <<k>>
  BY <1>1, TakenCalls, CallsOfTask DEF Pushed
<1>3. PICK a \in Seq(Call), b \in Seq(Call), c \in Seq(Call) :
        /\ a = UnrunOf(calls, FirstUnrun) /\ b = PushesOf(task_queue'[Me]) /\ c = WaitersOf(sem.waiting)
  BY <1>1, TakenCalls, PartsTyping
<1>4. ToDo = Row(a, Front(k, b), c)
  BY <1>1, <1>2, <1>3, TakenCalls, ToDoParts DEF Front, Join
<1>5. FirstUnrun' = FirstUnrun /\ WaitersOf(sem'.waiting) = c
  BY <1>1, <1>3 DEF FirstUnrun, WaitersOf
<1>6. RowFacts(a, b, c, k)
  BY RowsOfCalls
<1>7. CASE calls' = Append(calls, k) /\ st' = [st EXCEPT ![k] = "queued"]
  <2>1. UnrunOf(calls', FirstUnrun') = Behind(a, k)
    <3> DEFINE f == FirstUnrun
               m == Len(calls)
               p == Append(calls, k)
    <3>1. /\ f \in Nat \ {0} /\ f <= m + 1 /\ m \in Nat /\ calls \in Seq(Call)
      BY PartsTyping DEF Typing
    <3>2. /\ p \in Seq(Call) /\ Len(p) = m + 1 /\ p[m + 1] = k /\ \A i \in 1 .. m : p[i] = calls[i]
      BY <1>1, <3>1, AppendProperties
    <3> HIDE DEF f, m, p
    <3>3. /\ f \in 1 .. Len(p) /\ m + 1 \in f .. Len(p) /\ (m + 1) - 1 = m
          /\ \A i \in f .. m : i \in 1 .. m /\ i \in Int
      BY <3>1, <3>2
    <3>4. SubSeq(p, f, m + 1) = SubSeq(p, f, m) \o <<k>>
      BY <3>2, <3>3, SubSeqRecursiveSecond
    <3>5. SubSeq(p, f, m) = SubSeq(calls, f, m)
      <4>1. \A i \in f .. m : p[i] \in Call /\ calls[i] \in Call /\ p[i] = calls[i]
        BY <3>1, <3>2, <3>3 DEF m
      <4>2. f \in Int /\ m \in Int
        BY <3>1
      <4> QED BY <4>1, <4>2, SameSubSeq
    <3>6. UnrunOf(calls', FirstUnrun') = SubSeq(p, f, m + 1)
      BY <1>5, <1>7, <3>2 DEF UnrunOf, f, p
    <3>7. a = SubSeq(calls, f, m)
      BY <1>3 DEF UnrunOf, f, m
    <3>8. Append(a, k) = a \o <<k>>
      BY <1>1, AppendIsConcat
    <3> QED BY <3>4, <3>5, <3>6, <3>7, <3>8 DEF Behind
  <2>2. ToDo' = Row(Behind(a, k), b, c)
    BY <1>3, <1>5, <2>1, ToDoPartsNext
  <2>3. ToDo' = ToDo
    BY <1>4, <1>6, <2>2 DEF RowFacts
  <2> QED BY <1>1, <1>7, <2>3
<1>8. CASE calls' = calls /\ st' = [st EXCEPT ![k] = "lost"]
  <2>1. UnrunOf(calls', FirstUnrun') = a
    BY <1>3, <1>5, <1>8 DEF UnrunOf
  <2>2. ToDo' = Row(a, b, c)
    BY <1>3, <1>5, <2>1, ToDoPartsNext
  <2>3. WithoutItem(ToDo, k, ToDo')
    BY <1>4, <1>6, <2>2 DEF RowFacts
  <2> QED BY <1>1, <1>8, <2>3
<1> QED BY <1>7, <1>8 DEF RunPush, Pushed

\* What poll_results schedules pushes the call that is let in, and nothing else.
LEMMA ScheduledPushes ==
  ASSUME Typing, NEW n \in Nat
  PROVE  PushesOf(Scheduled(n)) = IF Grants(sem, n) THEN <<Head(sem.waiting).who>> ELSE <<>>
<1> DEFINE us == [i \in 1 .. n |-> UserTask]
           h == Head(sem.waiting).who
           ps == [i \in 1 .. Cardinality(Granted(n)) |-> PushTask(h)]
<1>1. us \in Seq(Task) /\ PushesOf(us) = <<>>
  <2>1. us \in [1 .. n -> Task]
    BY DEF UserTask, Task
  <2>2. us \in Seq(Task) /\ Len(us) = n /\ \A i \in 1 .. n : us[i] = UserTask
    BY <2>1
  <2> HIDE DEF us
  <2> QED BY <2>2, PushesOfUsers
<1>2. CASE Grants(sem, n)
  <2>1. Granted(n) = {h} /\ h \in Call
    BY <1>2, WhoIsGranted, ReleaseTyping DEF Typing, Grants
  <2>2. Cardinality(Granted(n)) = 1
    BY <2>1, FS_Singleton
  <2>3. PICK t \in Task : t = PushTask(h) /\ CallsOf(t) = <<h>>
    <3>1. PushTask(h) \in Task /\ CallsOf(PushTask(h)) = <<h>>
      BY <2>1 DEF PushTask, Task, CallsOf, UserTask
    <3> QED BY <3>1
  <2>4. ps = <<t>>
    BY <2>2, <2>3
  <2>5. <<t>> \in Seq(Task) /\ PushesOf(<<t>>) = <<h>>
    BY <2>3, PushesOfOne
  <2>6. Scheduled(n) = us \o ps
    BY DEF Scheduled
  <2> HIDE DEF us, ps
  <2>7. PushesOf(us \o <<t>>) = PushesOf(us) \o PushesOf(<<t>>)
    BY <1>1, <2>5, PushesOfConcat
  <2>8. <<>> \o <<h>> = <<h>>
    <3>1. <<h>> \in Seq(Call)
      BY <2>1
    <3> QED BY <3>1, ConcatEmptySeq
  <2> QED BY <1>1, <1>2, <2>4, <2>5, <2>6, <2>7, <2>8 DEF h
<1>3. CASE ~Grants(sem, n)
  <2>1. Scheduled(n) \in Seq(Task) /\ Len(Scheduled(n)) = n /\ \A i \in 1 .. n : Scheduled(n)[i] = UserTask
    BY <1>3, WhatIsScheduled
  <2>2. PushesOf(Scheduled(n)) = <<>>
    BY <2>1, PushesOfUsers
  <2> QED BY <1>3, <2>2
<1> QED BY <1>2, <1>3

\* A call that is let in moves from the waiting ones to the tasks.
LEMMA ToDoPoll ==
  ASSUME Typing, PollResults
  PROVE  ToDo' = ToDo
<1> DEFINE n == Len(results)
<1>1. /\ n \in Nat /\ sem' = AfterRelease(sem, n) /\ UNCHANGED <<calls, done, worker>>
      /\ task_queue'[Me] = task_queue[Me] \o Scheduled(n)
  BY MeIsCpu, LenProperties DEF PollResults, Schedule, Scheduled, Granted, Typing, Released
<1> HIDE DEF n
<1>2. PICK a \in Seq(Call), b \in Seq(Call) :
        a = UnrunOf(calls, FirstUnrun) /\ b = PushesOf(task_queue[Me])
  BY PartsTyping
<1>3. UnrunOf(calls', FirstUnrun') = a
  BY <1>1, <1>2 DEF UnrunOf, FirstUnrun
<1>4. PICK q \in Seq(Task), s \in Seq(Task) : q = task_queue[Me] /\ s = Scheduled(n)
  BY <1>1, PartsTyping, WhatIsScheduled
<1>5. PushesOf(task_queue'[Me]) = b \o PushesOf(s)
  BY <1>1, <1>2, <1>4, PushesOfConcat
<1>6. CASE Grants(sem, n)
  <2>1. sem'.waiting = Tail(sem.waiting) /\ sem.waiting # <<>> /\ sem.waiting \in Seq(Client)
    BY <1>1, <1>6 DEF AfterRelease, Grants, Typing
  <2>2. PICK k \in Call, c \in Seq(Call) : k = Head(sem.waiting).who /\ c = WaitersOf(Tail(sem.waiting))
    BY <2>1, WaitersOfParts
  <2>3. WaitersOf(sem.waiting) = Front(k, c)
    BY <2>1, <2>2, WaitersOfParts DEF Front, Join
  <2>4. PushesOf(s) = <<k>>
    BY <1>1, <1>4, <1>6, <2>2, ScheduledPushes
  <2>5. Behind(b, k) = b \o <<k>>
    BY AppendIsConcat DEF Behind
  <2>6. ToDo = Row(a, b, Front(k, c))
    BY <1>2, <2>3, ToDoParts
  <2>7. ToDo' = Row(a, Behind(b, k), c)
    BY <1>3, <1>5, <2>1, <2>2, <2>4, <2>5, ToDoPartsNext
  <2>8. RowFacts(a, b, c, k)
    BY RowsOfCalls
  <2> QED BY <2>6, <2>7, <2>8 DEF RowFacts
<1>7. CASE ~Grants(sem, n)
  <2>1. sem'.waiting = sem.waiting
    BY <1>1, <1>7 DEF AfterRelease, Typing
  <2>2. PushesOf(s) = <<>>
    BY <1>1, <1>4, <1>7, ScheduledPushes
  <2>3. PushesOf(task_queue'[Me]) = b
    BY <1>5, <2>2, ConcatEmptySeq
  <2> QED BY <1>2, <1>3, <2>1, <2>3, ToDoParts, ToDoPartsNext
<1> QED BY <1>6, <1>7

\* The worker takes the first of those that are still to be run.
LEMMA ToDoStart ==
  ASSUME Typing, StartCall
  PROVE  /\ ToDo # <<>> /\ Head(ToDo) = calls[done + 1] /\ ToDo' = Tail(ToDo)
         /\ calls[done + 1] \in Call
<1> DEFINE f == done + 1
           m == Len(calls)
<1>1. /\ f \in 1 .. m /\ m \in Nat /\ done \in Nat /\ calls \in Seq(Call)
      /\ UNCHANGED <<calls, done, task_queue, sem>>
      /\ worker = "process" /\ worker' = "respond"
  BY LenProperties DEF StartCall, cpuUnchanged, Typing
<1>2. FirstUnrun = f /\ FirstUnrun' = f + 1
  BY <1>1 DEF FirstUnrun
<1>3. UnrunOf(calls, FirstUnrun) = SubSeq(calls, f, m) /\ UnrunOf(calls', FirstUnrun') = SubSeq(calls, f + 1, m)
  BY <1>1, <1>2 DEF UnrunOf
<1>4. PICK k \in Call : k = calls[f]
  BY <1>1
<1>5. SubSeq(calls, f, m) = <<k>> \o SubSeq(calls, f + 1, m)
  <2> HIDE DEF f, m
  <2>1. m \in f .. Len(calls)
    BY <1>1 DEF m
  <2> QED BY <1>1, <1>4, <2>1, SubSeqRecursiveFirst DEF m
<1>6. PICK a \in Seq(Call) : a = SubSeq(calls, f + 1, m)
  <2>1. \A i \in f + 1 .. m : calls[i] \in Call
    BY <1>1
  <2>2. f + 1 \in Int /\ m \in Int
    BY <1>1
  <2> HIDE DEF f, m
  <2> QED BY <2>1, <2>2, SubSeqProperties
<1> HIDE DEF f, m
<1>7. PICK b \in Seq(Call), c \in Seq(Call) : b = PushesOf(task_queue[Me]) /\ c = WaitersOf(sem.waiting)
  BY PartsTyping
<1>8. ToDo = Row(Front(k, a), b, c)
  BY <1>3, <1>5, <1>6, <1>7, ToDoParts DEF Front, Join
<1>9. ToDo' = Row(a, b, c)
  BY <1>1, <1>3, <1>6, <1>7, ToDoPartsNext
<1>10. RowFacts(a, b, c, k)
  BY RowsOfCalls
<1>11. PICK r \in Seq(Call) : r = Row(a, b, c) /\ ToDo = Front(k, r)
  BY <1>8, <1>10 DEF RowFacts
<1>12. Head(Front(k, r)) = k /\ Tail(Front(k, r)) = r /\ Front(k, r) # <<>>
  BY <1>10 DEF RowFacts
<1> QED BY <1>4, <1>9, <1>11, <1>12 DEF f

\* A call that is answered was already counted as run, and so were those whose
\* slots are freed.
LEMMA ToDoAnswered ==
  ASSUME Typing, Respond \/ FreeBatch
  PROVE  ToDo' = ToDo
<1>1. UNCHANGED <<task_queue, sem>>
  BY DEF Respond, FreeBatch, cpuUnchanged
<1>2. UnrunOf(calls', FirstUnrun') = UnrunOf(calls, FirstUnrun)
  <2>1. CASE Respond
    <3>1. calls' = calls /\ FirstUnrun' = FirstUnrun
      BY <2>1 DEF Respond, FirstUnrun, Typing
    <3> QED BY <3>1 DEF UnrunOf
  <2>2. CASE FreeBatch
    <3>1. /\ calls' = UnrunOf(calls, FirstUnrun) /\ FirstUnrun' = 1
      BY <2>2 DEF FreeBatch, FirstUnrun, UnrunOf
    <3>2. PICK q \in Seq(Call) : q = calls'
      BY <3>1, PartsTyping
    <3>3. UnrunOf(q, 1) = q
      BY SubSeqFull DEF UnrunOf
    <3> QED BY <3>1, <3>2, <3>3
  <2> QED BY <2>1, <2>2
<1> QED BY <1>1, <1>2, ToDoParts, ToDoPartsNext

-----------------------------------------------------------------------------
(* RemoteCalls is what the runner implements, but for the calls it drops.  *)

Ends == {"cpu", "worker"}

StageMap == [k \in Call |-> StageOf(k)]

InboxMap ==
  [o \in Ends |-> [t \in Ends |-> IF o = "cpu" /\ t = "worker" THEN ToDo ELSE <<>>]]

Submitter == [k \in Call |-> "cpu"]
Runner == [k \in Call |-> "worker"]

LEMMA MovesNothing ==
  ASSUME ToDo' = ToDo, \A k \in Call : StageOf(k)' = StageOf(k)
  PROVE  Abstract!vars' = Abstract!vars
<1>1. StageMap' = StageMap /\ InboxMap' = InboxMap
  BY DEF StageMap, InboxMap
<1> QED BY <1>1 DEF Abstract!vars, StageMap, InboxMap, Ends

\* One call gets to another stage.
LEMMA OneMoves ==
  ASSUME Typing, NEW k \in Call, NEW v \in Stages, st' = [st EXCEPT ![k] = v],
         NEW s, s = IF v \in {"waiting", "granted", "queued"} THEN "submitted" ELSE v
  PROVE  StageMap' = [StageMap EXCEPT ![k] = s]
<1>1. \A j \in Call : st'[j] = IF j = k THEN v ELSE st[j]
  BY DEF Typing
<1>2. \A j \in Call : StageOf(j)' = IF j = k THEN s ELSE StageOf(j)
  BY <1>1 DEF StageOf
<1> QED BY <1>2 DEF StageMap

LEMMA InboxMoves ==
  ASSUME NEW q, ToDo' = q
  PROVE  /\ InboxMap["cpu"]["worker"] = ToDo
         /\ InboxMap' = [InboxMap EXCEPT !["cpu"]["worker"] = q]
BY DEF InboxMap, Ends

LEMMA InboxStays ==
  ASSUME ToDo' = ToDo
  PROVE  InboxMap' = InboxMap
BY DEF InboxMap

LEMMA SubmitImplements ==
  ASSUME Typing, NEW k \in Call, Submit(k)
  PROVE  Abstract!Submit(k)
<1>1. /\ st[k] = "new"
      /\ \/ st' = [st EXCEPT ![k] = "granted"]
         \/ st' = [st EXCEPT ![k] = "waiting"]
  BY DEF Submit
<1>2. StageMap' = [StageMap EXCEPT ![k] = "submitted"]
  BY <1>1, OneMoves DEF Stages
<1>3. StageMap[k] = "new"
  BY <1>1 DEF StageMap, StageOf
<1>4. PICK q : q = Append(ToDo, k) /\ ToDo' = q
  BY ToDoSubmit
<1>5. /\ InboxMap["cpu"]["worker"] = ToDo
      /\ InboxMap' = [InboxMap EXCEPT !["cpu"]["worker"] = q]
  BY <1>4, InboxMoves
<1>6. InboxMap' = [InboxMap EXCEPT !["cpu"]["worker"] = Append(@, k)]
  BY <1>4, <1>5
<1> QED BY <1>2, <1>3, <1>6 DEF Abstract!Submit, StageMap, InboxMap, Ends

LEMMA PushImplements ==
  ASSUME Typing, InPlace, RunPush
  PROVE  Abstract!vars' = Abstract!vars \/ \E k \in Call : Abstract!Lose(k)
<1>1. PICK k \in Call : k = Head(task_queue[Me]).call
  BY TypingPush
<1>2. st[k] = "granted"
  <2>1. Head(task_queue[Me]) = task_queue[Me][1] /\ 1 \in 1 .. Len(task_queue[Me])
    BY TakenTask DEF RunPush
  <2> QED BY <1>1, <2>1 DEF InPlace, PushesGranted, RunPush
<1>3. Pushed(k)
  BY <1>1 DEF Pushed
<1>4. \/ st' = [st EXCEPT ![k] = "queued"] /\ ToDo' = ToDo
      \/ st' = [st EXCEPT ![k] = "lost"] /\ WithoutItem(ToDo, k, ToDo')
  BY <1>3, ToDoPush
<1>5. CASE st' = [st EXCEPT ![k] = "queued"] /\ ToDo' = ToDo
  <2>1. \A j \in Call : StageOf(j)' = StageOf(j)
    BY <1>2, <1>5 DEF StageOf, Typing
  <2> QED BY <1>5, <2>1, MovesNothing
<1>6. CASE st' = [st EXCEPT ![k] = "lost"] /\ WithoutItem(ToDo, k, ToDo')
  <2>1. StageMap' = [StageMap EXCEPT ![k] = "lost"] /\ StageMap[k] = "submitted"
    <3>1. StageMap' = [StageMap EXCEPT ![k] = "lost"]
      BY <1>6, OneMoves DEF Stages
    <3> QED BY <1>2, <3>1 DEF StageMap, StageOf
  <2>2. PICK q : q = ToDo' /\ WithoutItem(ToDo, k, q)
    BY <1>6
  <2>3. PICK i \in 1 .. Len(ToDo) : ToDo[i] = k /\ q = SubSeq(ToDo, 1, i - 1) \o SubSeq(ToDo, i + 1, Len(ToDo))
    BY <2>2 DEF WithoutItem
  <2>4. /\ InboxMap["cpu"]["worker"] = ToDo
        /\ InboxMap' = [InboxMap EXCEPT !["cpu"]["worker"] = q]
    BY <2>2, InboxMoves
  <2>5. Submitter[k] = "cpu" /\ Runner[k] = "worker"
    BY DEF Submitter, Runner
  <2>6. /\ i \in 1 .. Len(InboxMap[Submitter[k]][Runner[k]])
        /\ InboxMap[Submitter[k]][Runner[k]][i] = k
        /\ InboxMap' = [InboxMap EXCEPT ![Submitter[k]][Runner[k]] =
                          SubSeq(@, 1, i - 1) \o SubSeq(@, i + 1, Len(@))]
    BY <2>3, <2>4, <2>5
  <2>7. \E n \in 1 .. Len(InboxMap[Submitter[k]][Runner[k]]) :
          /\ InboxMap[Submitter[k]][Runner[k]][n] = k
          /\ InboxMap' = [InboxMap EXCEPT ![Submitter[k]][Runner[k]] =
                            SubSeq(@, 1, n - 1) \o SubSeq(@, n + 1, Len(@))]
    BY <2>6
  <2>8. Abstract!Lose(k)
    BY <2>1, <2>7, Zenon DEF Abstract!Lose, StageMap, InboxMap, Submitter, Runner, Ends
  <2> QED BY <2>8
<1> QED BY <1>4, <1>5, <1>6

LEMMA StartImplements ==
  ASSUME Typing, StartCall
  PROVE  Abstract!Run("cpu", "worker")
<1>1. PICK k \in Call : k = calls[done + 1] /\ st' = [st EXCEPT ![k] = "executing"]
  BY ToDoStart DEF StartCall
<1>2. PICK q : q = Tail(ToDo)
  OBVIOUS
<1>3. ToDo # <<>> /\ Head(ToDo) = k /\ ToDo' = q
  BY <1>1, <1>2, ToDoStart
<1>4. StageMap' = [StageMap EXCEPT ![k] = "executing"]
  BY <1>1, OneMoves DEF Stages
<1>5. /\ InboxMap["cpu"]["worker"] = ToDo
      /\ InboxMap' = [InboxMap EXCEPT !["cpu"]["worker"] = q]
  BY <1>3, InboxMoves
<1>6. /\ InboxMap["cpu"]["worker"] # <<>>
      /\ InboxMap' = [InboxMap EXCEPT !["cpu"]["worker"] = Tail(@)]
      /\ StageMap' = [StageMap EXCEPT ![Head(InboxMap["cpu"]["worker"])] = "executing"]
  BY <1>2, <1>3, <1>4, <1>5
<1> QED BY <1>6 DEF Abstract!Run, StageMap, InboxMap, Ends

\* The ring of the results never refuses an answer, so that no call that was run
\* is lost.
LEMMA RespondImplements ==
  ASSUME Typing, InPlace, ResultsHaveRoom, Respond
  PROVE  \E k \in Call : Abstract!Answer(k)
<1>1. PICK k \in Call : k = calls[done + 1] /\ st[k] = "executing"
  <2>1. done + 1 \in 1 .. Len(calls) /\ done + 1 \in done + 1 .. Len(calls) /\ worker = "respond"
    BY LenProperties DEF Respond, Typing
  <2>2. calls[done + 1] \in Call
    BY <2>1 DEF Typing
  <2> QED BY <2>1, <2>2 DEF InPlace, CallsQueued
<1>2. st' = [st EXCEPT ![k] = "answered"]
  BY <1>1 DEF Respond, ResultsHaveRoom
<1>3. StageMap' = [StageMap EXCEPT ![k] = "answered"] /\ StageMap[k] = "executing"
  <2>1. StageMap' = [StageMap EXCEPT ![k] = "answered"]
    BY <1>2, OneMoves DEF Stages
  <2> QED BY <1>1, <2>1 DEF StageMap, StageOf
<1>4. InboxMap' = InboxMap
  BY ToDoAnswered, InboxStays
<1>5. Abstract!Answer(k)
  BY <1>3, <1>4 DEF Abstract!Answer, StageMap, InboxMap, Ends
<1> QED BY <1>5

LEMMA PollImplements ==
  ASSUME Typing, InPlace, PollResults
  PROVE  \/ Abstract!vars' = Abstract!vars
         \/ \E m \in (SUBSET Call) \ {{}} : Abstract!Complete(m)
<1> DEFINE n == Len(results)
           m == {results[i] : i \in 1 .. n}
<1>1. n \in Nat /\ m \subseteq Call
  BY LenProperties DEF Typing
<1>2. \A k \in Call : /\ k \in m => StageOf(k) = "answered"
                      /\ StageOf(k)' = IF k \in m THEN "completed" ELSE StageOf(k)
  <2> SUFFICES ASSUME NEW k \in Call
               PROVE  /\ k \in m => StageOf(k) = "answered"
                      /\ StageOf(k)' = IF k \in m THEN "completed" ELSE StageOf(k)
    OBVIOUS
  <2> DEFINE g == Grants(sem, n) /\ k = Head(sem.waiting).who
  <2>1. k \in m <=> \E i \in 1 .. n : results[i] = k
    OBVIOUS
  <2>2. /\ st'[k] = IF g THEN "granted" ELSE IF k \in m THEN "completed" ELSE st[k]
        /\ g => st[k] = "waiting"
        /\ k \in m => st[k] = "answered"
    BY <2>1, PolledStages
  <2> HIDE DEF g, m, n
  <2> QED BY <2>2 DEF StageOf
<1> HIDE DEF m, n
<1>3. ToDo' = ToDo
  BY ToDoPoll
<1>4. CASE m = {}
  <2>1. \A k \in Call : StageOf(k)' = StageOf(k)
    BY <1>2, <1>4
  <2> QED BY <1>3, <2>1, MovesNothing
<1>5. CASE m # {}
  <2>1. /\ \A k \in m : StageMap[k] = "answered"
        /\ StageMap' = [k \in Call |-> IF k \in m THEN "completed" ELSE StageMap[k]]
    BY <1>1, <1>2 DEF StageMap
  <2>2. InboxMap' = InboxMap
    BY <1>3, InboxStays
  <2>3. Abstract!Complete(m)
    BY <2>1, <2>2 DEF Abstract!Complete, StageMap, InboxMap, Ends
  <2>4. m \in (SUBSET Call) \ {{}}
    BY <1>1, <1>5
  <2> QED BY <2>3, <2>4
<1> QED BY <1>4, <1>5

LEMMA StepImplements ==
  ASSUME Typing, InPlace, ResultsHaveRoom, [Next]_vars
  PROVE  [Abstract!Next]_Abstract!vars
<1>1. ASSUME ToDo' = ToDo, st' = st PROVE Abstract!vars' = Abstract!vars
  BY <1>1, MovesNothing DEF StageOf
<1>2. CASE UNCHANGED vars
  <2>1. UNCHANGED <<task_queue, sem, calls, done, worker, st>>
    BY <1>2 DEF vars, reactorVars, workerVars
  <2> QED BY <1>1, <2>1, ToDoKept
<1>3. CASE Boot \/ Signal \/ PollSignals \/ IdleOrRun \/ NextRound \/ Sleep \/ Poke
  <2>1. UNCHANGED <<task_queue, sem, calls, done, worker, st>>
    BY <1>3, TypingReactor
  <2> QED BY <1>1, <2>1, ToDoKept
<1>4. CASE TaskReturns \/ Interrupt
  <2>1. UNCHANGED <<task_queue, sem, calls, done, worker, st>>
    BY <1>4 DEF TaskReturns, Interrupt, reactorVars, workerVars
  <2> QED BY <1>1, <2>1, ToDoKept
<1>5. CASE RunUser
  <2>1. st' = st
    BY <1>5 DEF RunUser
  <2> QED BY <1>1, <1>5, <2>1, ToDoUser
<1>6. CASE RunPush
  BY <1>6, PushImplements DEF Abstract!Next
<1>7. CASE PollResults
  BY <1>7, PollImplements DEF Abstract!Next
<1>8. CASE WorkerWakes \/ Consume \/ WakeCpu
  <2>1. /\ UNCHANGED <<task_queue, sem, calls, done, st>>
        /\ worker # "respond" /\ worker' # "respond"
    BY <1>8 DEF WorkerWakes, Consume, WakeCpu, cpuUnchanged
  <2> QED BY <1>1, <2>1, ToDoKept
<1>9. CASE StartCall
  <2>1. \E o, t \in Ends : Abstract!Run(o, t)
    BY <1>9, StartImplements DEF Ends
  <2> QED BY <2>1 DEF Abstract!Next, Ends
<1>10. CASE Respond
  BY <1>10, RespondImplements DEF Abstract!Next
<1>11. CASE FreeBatch
  <2>1. st' = st
    BY <1>11 DEF FreeBatch
  <2> QED BY <1>1, <1>11, <2>1, ToDoAnswered
<1>12. ASSUME NEW k \in Call, Submit(k) PROVE Abstract!Next
  BY <1>12, SubmitImplements DEF Abstract!Next
<1> QED BY <1>2, <1>3, <1>4, <1>5, <1>6, <1>7, <1>8, <1>9, <1>10, <1>11, <1>12 DEF Next, Run, Work

\* What "run syscall in background thread" promises (syscall.h:76): a call that is
\* submitted is run by the worker exactly once, unless a full ring drops it, and in
\* the order of submission, whether it had room at once or waited for it; its
\* result is there before its future is resolved, once.  For any set of calls and
\* any size of the queues.
THEOREM RunnerImplementsRemoteCalls == Safe => Abstract!Safe
<1>1. Init => Abstract!Init
  <2> SUFFICES ASSUME Init PROVE Abstract!Init
    OBVIOUS
  <2>1. \A k \in Call : StageOf(k) = "new"
    BY DEF Init, StageOf
  <2>2. ToDo = <<>>
    <3>1. /\ UnrunOf(calls, FirstUnrun) = <<>> /\ WaitersOf(sem.waiting) = <<>>
      <4>1. calls = <<>> /\ sem.waiting = <<>> /\ FirstUnrun = 1 /\ <<>> \in Seq(Call)
        BY EmptySeq DEF Init, NewSemaphore, FirstUnrun
      <4>2. SubSeq(<<>>, 1, Len(<<>>)) = <<>>
        BY <4>1, SubSeqFull
      <4> QED BY <4>1, <4>2 DEF UnrunOf, WaitersOf
    <3>2. PushesOf(task_queue[Me]) = <<>>
      <4>1. UserTask \in Task /\ task_queue[Me] = <<UserTask>> /\ CallsOf(UserTask) = <<>>
        BY MeIsCpu DEF Init, ReactorInit, UserTask, Task, CallsOf
      <4> QED BY <4>1, PushesOfOne
    <3>3. Row(<<>>, <<>>, <<>>) = <<>>
      <4>1. <<>> \in Seq(Call)
        BY EmptySeq
      <4>2. Join(<<>>, <<>>) = <<>>
        BY <4>1, JoinAll
      <4> QED BY <4>2 DEF Row
    <3> QED BY <3>1, <3>2, <3>3, ToDoParts
  <2> QED BY <2>1, <2>2 DEF Abstract!Init
<1>2. Safe => [](Typing /\ InPlace /\ ResultsHaveRoom)
  BY AccountsHold, NoResultIsRefused, PTL
<1>3. Typing /\ InPlace /\ ResultsHaveRoom /\ [Next]_vars => [Abstract!Next]_Abstract!vars
  BY StepImplements
<1> QED BY <1>1, <1>2, <1>3, PTL DEF Safe, Abstract!Safe

-----------------------------------------------------------------------------
(* Every call that is under way is somewhere.                              *)

\* What InPlace says the other way round: a call at a stage is in the place for it.
Present ==
  /\ \A k \in Call : StageOf(k) = "submitted" => k \in Items(ToDo)
  /\ \A k \in Call : st[k] = "executing" => worker = "respond" /\ k = calls[done + 1]
  /\ \A k \in Call : st[k] = "answered" => k \in Items(results)

\* The CPU sleeps with an empty queue only.
NothingToRun == pc[Me] \in {"masked", "asleep"} => task_queue[Me] = <<>>

LEMMA PresentInit == Init => Present /\ NothingToRun
<1> SUFFICES ASSUME Init PROVE Present /\ NothingToRun
  OBVIOUS
<1>1. pc[Me] = "boot" /\ \A k \in Call : st[k] = "new"
  BY MeIsCpu DEF Init, ReactorInit
<1> QED BY <1>1 DEF Present, NothingToRun, StageOf

LEMMA ToDoTyping == Typing => ToDo \in Seq(Call)
<1> SUFFICES ASSUME Typing PROVE ToDo \in Seq(Call)
  OBVIOUS
<1>1. PICK a \in Seq(Call), b \in Seq(Call), c \in Seq(Call) :
        a = UnrunOf(calls, FirstUnrun) /\ b = PushesOf(task_queue[Me]) /\ c = WaitersOf(sem.waiting)
  BY PartsTyping
<1>2. Row(a, b, c) \in Seq(Call)
  <2>1. Join(a, b) \in Seq(Call)
    BY JoinAll
  <2> QED BY <2>1, JoinAll DEF Row
<1> QED BY <1>1, <1>2, ToDoParts

\* What is unrun is in a slot of the ring, behind those that have run.
LEMMA UnrunItems ==
  ASSUME Typing
  PROVE  \A x \in Items(UnrunOf(calls, FirstUnrun)) : \E i \in FirstUnrun .. Len(calls) : x = calls[i]
<1>1. FirstUnrun \in Nat \ {0} /\ FirstUnrun <= Len(calls) + 1 /\ Len(calls) \in Nat
  BY PartsTyping
<1>2. PICK n \in Nat : n = FirstUnrun
  BY <1>1
<1>3. PICK m \in Nat : m = Len(calls)
  BY <1>1
<1>4. /\ Len(SubSeq(calls, n, m)) = m - n + 1
      /\ \A i \in 1 .. m - n + 1 : SubSeq(calls, n, m)[i] = calls[n + i - 1]
  <2>1. \A i \in n .. m : calls[i] \in Call
    BY <1>1, <1>2, <1>3 DEF Typing
  <2> QED BY <1>1, <1>2, <1>3, <2>1, SubSeqProperties
<1>5. ASSUME NEW i \in 1 .. m - n + 1 PROVE n + i - 1 \in n .. m
  OBVIOUS
<1> QED BY <1>2, <1>3, <1>4, <1>5 DEF Items, UnrunOf

\* Where no call changes its stage.
LEMMA PresentKept ==
  ASSUME Present, ToDo' = ToDo, UNCHANGED <<st, calls, done, worker, results>>
  PROVE  Present'
<1>1. Items(ToDo)' = Items(ToDo) /\ Items(results)' = Items(results)
  BY DEF Items
<1> QED BY <1>1 DEF Present, StageOf

LEMMA PresentSubmit ==
  ASSUME Typing, Present, NEW k \in Call, Submit(k)
  PROVE  Present'
<1>1. /\ UNCHANGED <<calls, done, worker, results>>
      /\ \/ st' = [st EXCEPT ![k] = "granted"]
         \/ st' = [st EXCEPT ![k] = "waiting"]
  BY DEF Submit, workerVars
<1>2. PICK q \in Seq(Call) : q = ToDo
  BY ToDoTyping
<1>3. Items(Append(q, k)) = Items(q) \cup {k}
  BY ItemsAppend
<1>4. Items(ToDo)' = Items(ToDo) \cup {k} /\ Items(results)' = Items(results)
  BY <1>1, <1>2, <1>3, ToDoSubmit DEF Items
<1>5. \A x \in Call : x # k => st'[x] = st[x]
  BY <1>1 DEF Typing
<1>6. st'[k] \in {"granted", "waiting"}
  BY <1>1 DEF Typing
<1> QED BY <1>1, <1>4, <1>5, <1>6 DEF Present, StageOf

LEMMA PresentPush ==
  ASSUME Typing, InPlace, Present, RunPush
  PROVE  Present'
<1>1. PICK k \in Call : k = Head(task_queue[Me]).call
  BY TypingPush
<1>2. st[k] = "granted"
  <2>1. Head(task_queue[Me]) = task_queue[Me][1] /\ 1 \in 1 .. Len(task_queue[Me])
    BY TakenTask DEF RunPush
  <2> QED BY <1>1, <2>1 DEF InPlace, PushesGranted, RunPush
<1>3. Pushed(k)
  BY <1>1 DEF Pushed
<1>4. /\ UNCHANGED <<done, worker, results>>
      /\ calls' = calls \/ calls' = Append(calls, k)
  BY <1>1 DEF RunPush
<1>5. worker = "respond" => calls'[done + 1] = calls[done + 1]
  <2>1. Len(calls) \in Nat /\ (worker = "respond" => done + 1 \in 1 .. Len(calls))
    BY LenProperties DEF Typing
  <2>2. \A i \in 1 .. Len(calls) : Append(calls, k)[i] = calls[i]
    BY AppendProperties DEF Typing
  <2> QED BY <1>4, <2>1, <2>2
<1>6. Items(results)' = Items(results)
  BY <1>4 DEF Items
<1>7. CASE st' = [st EXCEPT ![k] = "queued"] /\ ToDo' = ToDo
  <2>1. \A x \in Call : st'[x] = IF x = k THEN "queued" ELSE st[x]
    BY <1>7 DEF Typing
  <2>2. Items(ToDo)' = Items(ToDo)
    BY <1>7 DEF Items
  <2>3. k \in Items(ToDo)
    BY <1>2 DEF Present, StageOf
  <2> QED BY <1>4, <1>5, <1>6, <2>1, <2>2, <2>3 DEF Present, StageOf
<1>8. CASE st' = [st EXCEPT ![k] = "lost"] /\ WithoutItem(ToDo, k, ToDo')
  <2>1. \A x \in Call : st'[x] = IF x = k THEN "lost" ELSE st[x]
    BY <1>8 DEF Typing
  <2>2. \A x \in Items(ToDo) : x # k => x \in Items(ToDo)'
    <3>1. PICK q \in Seq(Call) : q = ToDo
      BY ToDoTyping
    <3>2. PICK r : r = ToDo'
      OBVIOUS
    <3>3. \A x \in Items(q) : x # k => x \in Items(r)
      BY <1>8, <3>1, <3>2, ItemsWithout
    <3> QED BY <3>1, <3>2, <3>3 DEF Items
  <2> QED BY <1>4, <1>5, <1>6, <2>1, <2>2 DEF Present, StageOf
<1> QED BY <1>3, <1>7, <1>8, ToDoPush

LEMMA PresentStart ==
  ASSUME Typing, Present, StartCall
  PROVE  Present'
<1>1. PICK k \in Call : k = calls[done + 1] /\ st' = [st EXCEPT ![k] = "executing"]
  BY ToDoStart DEF StartCall
<1>2. UNCHANGED <<calls, done, results>> /\ worker = "process" /\ worker' = "respond"
  BY DEF StartCall
<1>3. \A x \in Call : st'[x] = IF x = k THEN "executing" ELSE st[x]
  BY <1>1 DEF Typing
<1>4. \A x \in Items(ToDo) : x # k => x \in Items(ToDo)'
  <2>1. PICK q \in Seq(Call) : q = ToDo
    BY ToDoTyping
  <2>2. q # <<>> /\ Head(q) = k /\ ToDo' = Tail(q)
    BY <1>1, <2>1, ToDoStart
  <2>3. Items(q) = {Head(q)} \cup Items(Tail(q))
    BY <2>2, OrderedTail
  <2> QED BY <2>1, <2>2, <2>3 DEF Items
<1>5. Items(results)' = Items(results)
  BY <1>2 DEF Items
<1> QED BY <1>1, <1>2, <1>3, <1>4, <1>5 DEF Present, StageOf

LEMMA PresentRespond ==
  ASSUME Typing, Present, ResultsHaveRoom, Respond
  PROVE  Present'
<1>1. PICK k \in Call : k = calls[done + 1]
  <2>1. done + 1 \in 1 .. Len(calls)
    BY LenProperties DEF Respond, Typing
  <2> QED BY <2>1 DEF Typing
<1>2. st' = [st EXCEPT ![k] = "answered"] /\ results' = Append(results, k) /\ worker = "respond"
  BY <1>1 DEF Respond, ResultsHaveRoom
<1>3. \A x \in Call : st'[x] = IF x = k THEN "answered" ELSE st[x]
  BY <1>2 DEF Typing
<1>4. Items(Append(results, k)) = Items(results) \cup {k}
  BY ItemsAppend DEF Typing
<1>5. Items(results)' = Items(results) \cup {k}
  BY <1>2, <1>4 DEF Items
<1>6. Items(ToDo)' = Items(ToDo)
  BY ToDoAnswered DEF Items
<1> QED BY <1>1, <1>2, <1>3, <1>5, <1>6 DEF Present, StageOf

LEMMA PresentPoll ==
  ASSUME Typing, InPlace, Present, PollResults
  PROVE  Present'
<1>1. UNCHANGED <<calls, done, worker>> /\ results' = <<>>
  BY DEF PollResults
<1>2. Items(ToDo)' = Items(ToDo)
  BY ToDoPoll DEF Items
<1>3. ASSUME NEW x \in Call
      PROVE  /\ st'[x] = "executing" => st[x] = "executing"
             /\ st'[x] # "answered"
             /\ StageOf(x)' = "submitted" => StageOf(x) = "submitted"
  <2> DEFINE n == Len(results)
             g == Grants(sem, n) /\ x = Head(sem.waiting).who
             r == \E i \in 1 .. n : results[i] = x
  <2>1. /\ st'[x] = IF g THEN "granted" ELSE IF r THEN "completed" ELSE st[x]
        /\ g => st[x] = "waiting"
    BY PolledStages
  <2>2. st[x] = "answered" => r
    BY DEF Present, Items
  <2> HIDE DEF g, r
  <2> QED BY <2>1, <2>2 DEF StageOf
<1> QED BY <1>1, <1>2, <1>3 DEF Present

\* The worker is not in a call when it frees its batch, or looks for another.
LEMMA PresentWork ==
  ASSUME Typing, Present, WorkerWakes \/ Consume \/ FreeBatch \/ WakeCpu
  PROVE  Present'
<1>1. UNCHANGED <<st, results>> /\ worker # "respond" /\ worker' # "respond"
  BY DEF WorkerWakes, Consume, FreeBatch, WakeCpu
<1>2. ToDo' = ToDo
  <2>1. CASE FreeBatch
    BY <2>1, ToDoAnswered
  <2>2. CASE WorkerWakes \/ Consume \/ WakeCpu
    <3>1. UNCHANGED <<task_queue, sem, calls, done>>
      BY <2>2 DEF WorkerWakes, Consume, WakeCpu, cpuUnchanged
    <3> QED BY <1>1, <3>1, ToDoKept
  <2> QED BY <2>1, <2>2
<1>3. Items(ToDo)' = Items(ToDo) /\ Items(results)' = Items(results)
  BY <1>1, <1>2 DEF Items
<1> QED BY <1>1, <1>3 DEF Present, StageOf

LEMMA PresentStep ==
  ASSUME Typing, InPlace, ResultsHaveRoom, Present, [Next]_vars
  PROVE  Present'
<1>1. CASE UNCHANGED vars \/ TaskReturns \/ Interrupt
  <2>1. UNCHANGED <<task_queue, sem, calls, done, worker, st, results>>
    BY <1>1 DEF vars, reactorVars, workerVars, TaskReturns, Interrupt
  <2> QED BY <2>1, ToDoKept, PresentKept
<1>2. CASE Boot \/ Signal \/ PollSignals \/ IdleOrRun \/ NextRound \/ Sleep \/ Poke
  <2>1. UNCHANGED <<task_queue, sem, calls, done, worker, st, results>>
    BY <1>2, TypingReactor
  <2>2. done' = done
    BY <2>1
  <2> QED BY <2>1, ToDoKept, PresentKept
<1>3. CASE RunUser
  <2>1. UNCHANGED <<calls, done, worker, st, results>>
    BY <1>3 DEF RunUser, workerVars
  <2> QED BY <1>3, <2>1, ToDoUser, PresentKept
<1> QED BY <1>1, <1>2, <1>3, PresentSubmit, PresentPush, PresentStart, PresentRespond,
           PresentPoll, PresentWork DEF Next, Run, Work

LEMMA NothingToRunStep == Typing /\ AwakeInv /\ NothingToRun /\ [Next]_vars => NothingToRun'
<1> SUFFICES ASSUME Typing, AwakeInv, NothingToRun, [Next]_vars PROVE NothingToRun'
  OBVIOUS
<1> USE MeIsCpu DEF NothingToRun
<1>1. CASE UNCHANGED <<pc, task_queue>>
  BY <1>1
<1>2. CASE Boot
  BY <1>2 DEF Boot, InitPollers, Goto, Typing
<1>3. CASE PollSignals
  BY <1>3 DEF PollSignals, LoadSignals, ClearSignals, Goto, Typing
<1>4. CASE IdleOrRun
  BY <1>4 DEF IdleOrRun, Decide, Idle, Goto, Typing
<1>5. CASE NextRound
  BY <1>5 DEF NextRound, EndBatch, Goto, Typing
<1>6. CASE Sleep
  BY <1>6 DEF Sleep, CheckPending, Goto, Typing
<1>7. CASE PollResults
  BY <1>7 DEF PollResults, Goto, Typing
<1>8. CASE RunPush \/ Interrupt
  BY <1>8 DEF RunPush, Interrupt, Goto, Typing
<1>9. CASE RunUser
  BY <1>9 DEF RunUser, TakeTask
<1>10. CASE Signal
  BY <1>10 DEF Signal, Deliver, Typing
<1>11. ASSUME NEW k \in Call, Submit(k) PROVE NothingToRun'
  BY <1>11 DEF Submit, AwakeInv, UserInBatch
<1>12. CASE TaskReturns \/ Poke \/ Work \/ UNCHANGED vars
  <2>1. UNCHANGED <<pc, task_queue>>
    BY <1>12 DEF TaskReturns, Poke, Work, WorkerWakes, Consume, StartCall, Respond, FreeBatch,
                 WakeCpu, cpuUnchanged, othersUnchanged, vars, reactorVars
  <2> QED BY <1>1, <2>1
<1> QED BY <1>2, <1>3, <1>4, <1>5, <1>6, <1>7, <1>8, <1>9, <1>10, <1>11, <1>12 DEF Next, Run

LEMMA PresentHolds == Safe => [](Present /\ NothingToRun)
<1>1. Safe => [](Typing /\ InPlace /\ ResultsHaveRoom)
  BY AccountsHold, NoResultIsRefused, PTL
<1>2. Typing /\ InPlace /\ ResultsHaveRoom /\ Present /\ [Next]_vars => Present'
  BY PresentStep
<1> QED BY <1>1, <1>2, AwakeHolds, PresentInit, NothingToRunStep, PTL DEF Safe

\* While the CPU sleeps, each call that is under way is with the worker, which has
\* it or will be interrupted for it, comes back with a signal, or waits for a token
\* when none is left (syscall.cpp:21-63, cpu.cpp:116-137).
THEOREM NoCallIsUnattended == Safe => []EveryCallIsAttended
<1>1. ASSUME Typing, InPlace, AwakeInv, Present, NothingToRun PROVE EveryCallIsAttended
  <2> SUFFICES ASSUME pc[Me] = "asleep", NEW k \in Call,
                      st[k] \notin {"new", "completed", "lost"}
               PROVE  \/ st[k] = "waiting" /\ sem.tokens = 0
                      \/ st[k] \in {"queued", "executing"} /\ (interrupt \/ worker # "wait")
                      \/ st[k] = "answered" /\ (raised[Me] \/ worker \in {"process", "respond", "wake"})
    BY DEF EveryCallIsAttended
  <2>1. st[k] \in {"waiting", "granted", "queued", "executing", "answered"}
    BY <1>1 DEF Typing, Stages
  <2>2. CASE st[k] = "executing"
    BY <1>1, <2>2 DEF Present
  <2>3. CASE st[k] = "answered"
    <3>1. results # <<>>
      <4>1. k \in Items(results) /\ Items(<<>>) = {}
        BY <1>1, <2>3, ItemsEmpty DEF Present
      <4> QED BY <4>1
    <3> QED BY <1>1, <2>3, <3>1 DEF AwakeInv, ResultsAwaited, IdleOK
  <2>4. CASE st[k] \in {"waiting", "granted", "queued"}
    <3>1. k \in Items(ToDo)
      BY <1>1, <2>4 DEF Present, StageOf
    <3>2. PICK a \in Seq(Call), c \in Seq(Call), w \in Seq(Client) :
            a = UnrunOf(calls, FirstUnrun) /\ w = sem.waiting /\ c = WaitersOf(w)
      BY <1>1, PartsTyping
    <3>3. ToDo = a \o c
      <4>1. PushesOf(task_queue[Me]) = <<>>
        <5>1. task_queue[Me] = <<>>
          BY <1>1 DEF NothingToRun
        <5>2. <<>> \in Seq(Task) /\ \A i \in 1 .. Len(<<>>) : <<>>[i] = UserTask
          BY EmptySeq
        <5>3. PushesOf(<<>>) = <<>>
          BY <5>2, PushesOfUsers
        <5> QED BY <5>1, <5>3
      <4>2. Join(a, <<>>) = a
        BY JoinAll
      <4> QED BY <3>2, <4>1, <4>2, ToDoParts DEF Row, Join
    <3>4. k \in Items(a) \/ k \in Items(c)
      <4>1. Items(a \o c) = Items(a) \cup Items(c)
        BY OrderedConcat
      <4> QED BY <3>1, <3>3, <4>1
    <3>5. CASE k \in Items(a)
      <4>1. PICK i \in FirstUnrun .. Len(calls) : k = calls[i]
        BY <1>1, <3>2, <3>5, UnrunItems
      <4>2. calls # <<>> /\ i \in done + 1 .. Len(calls)
        <5>1. FirstUnrun \in Nat \ {0} /\ done + 1 <= FirstUnrun /\ Len(calls) \in Nat /\ done \in Nat
          BY <1>1, PartsTyping DEF FirstUnrun, Typing
        <5>2. Len(<<>>) = 0
          OBVIOUS
        <5> QED BY <5>1, <5>2
      <4>3. st[k] \in {"queued", "executing"}
        BY <1>1, <4>1, <4>2 DEF InPlace, CallsQueued
      <4> QED BY <1>1, <4>2, <4>3 DEF AwakeInv, NoCallForgotten
    <3>6. CASE k \in Items(c)
      <4>1. PICK i \in 1 .. Len(w) : k = w[i].who
        <5>1. Len(c) = Len(w) /\ \A i \in 1 .. Len(w) : c[i] = w[i].who
          BY <3>2, LenProperties DEF WaitersOf
        <5> QED BY <3>6, <5>1 DEF Items
      <4>2. w # <<>>
        BY <4>1, EmptySeq
      <4>3. st[k] = "waiting"
        BY <1>1, <3>2, <4>1 DEF InPlace, WaitersWait
      <4> QED BY <1>1, <3>2, <4>2, <4>3 DEF AwakeInv, IdleOK, Settled
    <3> QED BY <3>4, <3>5, <3>6
  <2> QED BY <2>1, <2>2, <2>3, <2>4
<1>2. Safe => [](Typing /\ InPlace)
  BY AccountsHold, PTL
<1> QED BY <1>1, <1>2, AwakeHolds, PresentHolds, PTL

\* Nobody has anything to do: the CPU sleeps, no signal is raised for it, and the worker
\* waits for its eventfd.
Quiet == pc[Me] = "asleep" /\ ~raised[Me] /\ worker = "wait" /\ ~interrupt

Lost == {k \in Call : st[k] = "lost"}

QuietMeansDone ==
  Quiet => \A k \in Call : \/ st[k] \in {"new", "completed", "lost"}
                           \/ st[k] = "waiting" /\ Cardinality(Lost) = QueueSize

\* When all is quiet every call that user code made has completed, but for those that
\* a full ring refused, and those that wait because these hold every token
\* (syscall.cpp:21-63: nobody looks at the answer of push(), nor gives the token back).
THEOREM AllDoneWhenQuiet == Safe => []QuietMeansDone
<1>1. ASSUME EveryCallIsAttended, TokensHeld PROVE QuietMeansDone
  <2> SUFFICES ASSUME Quiet, NEW k \in Call, st[k] \notin {"new", "completed", "lost"}
               PROVE  st[k] = "waiting" /\ Cardinality(Lost) = QueueSize
    BY DEF QuietMeansDone
  <2>1. \A j \in Call : st[j] \in {"new", "completed", "lost"} \/ (st[j] = "waiting" /\ sem.tokens = 0)
    BY <1>1 DEF EveryCallIsAttended, Quiet
  <2>2. InFlight = Lost
    BY <2>1 DEF InFlight, Lost
  <2>3. sem.tokens = 0 /\ st[k] = "waiting"
    BY <2>1
  <2>4. Cardinality(Lost) \in Nat => Cardinality(Lost) = QueueSize
    BY <1>1, <2>2, <2>3 DEF TokensHeld, TokensMatchCalls
  <2>5. Cardinality(Lost) \in Nat
    BY <1>1, <2>2, FS_CardinalityType DEF TokensHeld
  <2> QED BY <2>3, <2>4, <2>5
<1> QED BY <1>1, NoCallIsUnattended, AccountsHold, PTL
=============================================================================
