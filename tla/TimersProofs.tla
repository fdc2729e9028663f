---------------------------- MODULE TimersProofs ----------------------------
(***************************************************************************)
(* Timers: types, that no timer is forgotten, slept through or run before  *)
(* its deadline, for any set of timers and intervals and any horizon.      *)
(***************************************************************************)
EXTENDS Timers, QueueLemmas

Places == {"boot", "signal", "clear", "clock", "complete", "rearm", "decide",
           "tasks", "arm", "masked", "asleep"}

Task == Timer \cup {UserTask}

\* The CPU there is: Reactor needs one at least.
LEMMA MeIsCpu == Me \in Cpu
BY ReactorAssumption DEF Me, Cpu

-----------------------------------------------------------------------------
(* Types.                                                                  *)

LEMMA TypeInit == Init => TypeOK
<1> SUFFICES ASSUME Init PROVE TypeOK
  OBVIOUS
<1>1. <<UserTask>> \in Seq(Task) /\ <<>> \in Seq(Timer)
  BY EmptySeq DEF Task
<1>2. TaskBatch \in Nat /\ Horizon \in Nat \ {0}
  BY ReactorAssumption, TimersAssumption
<1>3. task_queue \in [Cpu -> Seq(Task)] /\ budget \in [Cpu -> 0 .. TaskBatch]
  BY <1>1, <1>2 DEF Init, ReactorInit
<1>4. /\ now \in Deadline /\ armed \in 0 .. Horizon /\ seen \in 0 .. now
      /\ deadline \in [Timer -> 0 .. Horizon]
  BY <1>2 DEF Init, Deadline
<1>5. timers \in [Deadline -> Seq(Timer)] /\ ran \in Seq(Timer) /\ user \in BOOLEAN
  BY <1>1 DEF Init
<1>6. /\ pc \in [Cpu -> Places] /\ cpu_active \in [Cpu -> BOOLEAN]
      /\ raised \in [Cpu -> BOOLEAN] /\ pending_signals \in [Cpu -> BOOLEAN]
  BY DEF Init, ReactorInit, Places
<1> QED BY <1>3, <1>4, <1>5, <1>6 DEF TypeOK, Places, Task

\* The steps of the loop that Reactor has.
LEMMA TypeReactor ==
  ASSUME TypeOK, Boot \/ Signal \/ PollSignals \/ IdleOrRun \/ NextRound \/ Sleep
  PROVE  TypeOK'
<1> USE MeIsCpu DEF timersUnchanged
<1>1. CASE Boot
  BY <1>1 DEF Boot, InitPollers, Goto, TypeOK
<1>2. CASE Signal
  BY <1>2 DEF Signal, Deliver, TypeOK
<1>3. CASE LoadSignals(Me, "decide") /\ timersUnchanged /\ UNCHANGED now
  BY <1>3 DEF LoadSignals, Goto, TypeOK
<1>4. CASE ClearSignals(Me, "clock", <<>>) /\ timersUnchanged /\ UNCHANGED now
  <2>1. task_queue[Me] \in Seq(Task) /\ <<>> \in Seq(Task)
    BY EmptySeq DEF TypeOK, Task
  <2>2. task_queue[Me] \o <<>> \in Seq(Task)
    BY <2>1, ConcatProperties
  <2> QED BY <1>4, <2>2 DEF ClearSignals, SetActive, Schedule, Goto, TypeOK, Task
<1>5. CASE IdleOrRun
  <2>1. budget' \in [Cpu -> 0 .. TaskBatch]
    <3>1. TaskBatch \in 0 .. TaskBatch /\ budget \in [Cpu -> 0 .. TaskBatch]
      BY ReactorAssumption DEF TypeOK
    <3>2. budget' = budget \/ budget' = [budget EXCEPT ![Me] = TaskBatch]
      BY <1>5 DEF IdleOrRun, Decide
    <3> QED BY <3>1, <3>2
  <2>2. pc' \in [Cpu -> Places] /\ cpu_active' \in [Cpu -> BOOLEAN]
    BY <1>5 DEF IdleOrRun, Decide, Goto, TypeOK, Places
  <2>3. /\ task_queue' = task_queue /\ raised' = raised /\ pending_signals' = pending_signals
        /\ now' = now /\ timers' = timers /\ armed' = armed /\ seen' = seen
        /\ deadline' = deadline /\ ran' = ran /\ user' = user
    BY <1>5 DEF IdleOrRun, Decide
  <2> HIDE DEF timersUnchanged
  <2> QED BY <2>1, <2>2, <2>3 DEF TypeOK, Places
<1>6. CASE NextRound
  BY <1>6, ReactorAssumption DEF NextRound, EndBatch, Goto, TypeOK
<1>7. CASE Sleep
  BY <1>7 DEF Sleep, CheckPending, Goto, TypeOK
<1> QED BY <1>1, <1>2, <1>3, <1>4, <1>5, <1>6, <1>7 DEF PollSignals

LEMMA TypeRunTask == TypeOK /\ RunTask => TypeOK'
<1> SUFFICES ASSUME TypeOK, RunTask PROVE TypeOK'
  OBVIOUS
<1> USE MeIsCpu
<1>1. task_queue[Me] \in Seq(Task) /\ task_queue[Me] # <<>> /\ <<>> \in Seq(Task)
  BY EmptySeq DEF TypeOK, Task, RunTask, TakeTask
<1>2. Head(task_queue[Me]) \in Task /\ Tail(task_queue[Me]) \in Seq(Task)
  BY <1>1, HeadTailProperties
<1>3. Tail(task_queue[Me]) \o <<>> \in Seq(Task)
  BY <1>1, <1>2, ConcatProperties
<1>4. task_queue' \in [Cpu -> Seq(Task)]
  BY <1>3 DEF RunTask, TakeTask, TypeOK, Task
<1>5. budget' \in [Cpu -> 0 .. TaskBatch]
  BY ReactorAssumption DEF RunTask, TakeTask, TypeOK
<1>6. ran' \in Seq(Timer)
  <2>1. CASE Head(task_queue[Me]) = UserTask
    BY <2>1 DEF RunTask, TypeOK
  <2>2. CASE Head(task_queue[Me]) # UserTask
    <3>1. Head(task_queue[Me]) \in Timer /\ ran \in Seq(Timer)
      BY <1>2, <2>2 DEF Task, TypeOK
    <3>2. Append(ran, Head(task_queue[Me])) \in Seq(Timer)
      BY <3>1, AppendProperties
    <3> QED BY <2>2, <3>2 DEF RunTask
  <2> QED BY <2>1, <2>2
<1> QED BY <1>4, <1>5, <1>6 DEF RunTask, TypeOK, Task

LEMMA TypeAdd ==
  ASSUME TypeOK, NEW k \in Timer, NEW i \in Interval, AddTimer(k, i)
  PROVE  TypeOK'
<1> USE MeIsCpu
<1>1. now + i \in Deadline
  BY DEF AddTimer
<1>2. Append(timers[now + i], k) \in Seq(Timer)
  BY <1>1, AppendProperties DEF TypeOK
<1>3. deadline' \in [Timer -> 0 .. Horizon] /\ timers' \in [Deadline -> Seq(Timer)]
  BY <1>1, <1>2, TimersAssumption DEF AddTimer, TypeOK, Deadline
<1>4. pc' \in [Cpu -> Places]
  BY DEF AddTimer, Goto, TypeOK, Places
<1> QED BY <1>3, <1>4 DEF AddTimer, TypeOK, Places

LEMMA TypeComplete ==
  ASSUME TypeOK, ReadClock \/ CompleteEntry \/ CompleteEnd \/ Rearm
  PROVE  TypeOK'
<1> USE MeIsCpu
<1>1. CASE ReadClock
  BY <1>1, TimersAssumption DEF ReadClock, Goto, TypeOK, Deadline
<1>2. CASE CompleteEntry
  <2>1. PICK d \in Deadline : /\ task_queue' = [task_queue EXCEPT ![Me] = @ \o timers[d]]
                              /\ timers' = [timers EXCEPT ![d] = <<>>]
    BY <1>2 DEF CompleteEntry, Entries, Schedule
  <2>2. timers[d] \in Seq(Task) /\ task_queue[Me] \in Seq(Task)
    <3>1. timers[d] \in Seq(Timer)
      BY DEF TypeOK
    <3>2. \A j \in 1 .. Len(timers[d]) : timers[d][j] \in Task
      BY <3>1 DEF Task
    <3> QED BY <3>1, <3>2, SeqDef DEF TypeOK, Task
  <2>3. task_queue[Me] \o timers[d] \in Seq(Task)
    BY <2>2, ConcatProperties
  <2>4. <<>> \in Seq(Timer)
    BY EmptySeq
  <2>5. task_queue' \in [Cpu -> Seq(Task)] /\ timers' \in [Deadline -> Seq(Timer)]
    BY <2>1, <2>3, <2>4 DEF TypeOK, Task
  <2> QED BY <1>2, <2>5 DEF CompleteEntry, TypeOK, Task
<1>3. CASE CompleteEnd
  BY <1>3 DEF CompleteEnd, AfterComplete, Goto, TypeOK
<1>4. CASE Rearm
  BY <1>4, TimersAssumption DEF Rearm, Goto, Entries, Deadline, TypeOK
<1> QED BY <1>1, <1>2, <1>3, <1>4

LEMMA TypeStep == TypeOK /\ [Next]_vars => TypeOK'
<1> SUFFICES ASSUME TypeOK, [Next]_vars PROVE TypeOK'
  OBVIOUS
<1> USE MeIsCpu
<1>1. CASE UNCHANGED vars
  BY <1>1 DEF vars, reactorVars, TypeOK
<1>2. CASE TaskReturns
  BY <1>2 DEF TaskReturns, reactorVars, TypeOK
<1>3. CASE Tick
  BY <1>3, TimersAssumption DEF Tick, timersUnchanged, reactorVars, TypeOK, Deadline
<1>4. CASE Expire
  BY <1>4, TimersAssumption DEF Expire, Wakeup, TypeOK
<1>5. CASE Poke
  BY <1>5 DEF Poke, Wakeup, timersUnchanged, TypeOK
<1> QED BY <1>1, <1>2, <1>3, <1>4, <1>5, TypeReactor, TypeRunTask, TypeAdd, TypeComplete
        DEF Next, Run

\* Type correctness: clock, deadlines and the kernel's instant stay in range, and
\* nothing but tasks gets into the queue and the map (timer.cpp:43-76).
THEOREM TypeCorrect == Safe => []TypeOK
<1> QED BY TypeInit, TypeStep, PTL DEF Safe

-----------------------------------------------------------------------------
(* No timer is forgotten.                                                  *)

\* The invariant is inductive as it stands: what arms the kernel timer or sends
\* the signal keeps one of its two sides.
LEMMA ArmedInit == Init => NoTimerForgotten
BY DEF Init, NoTimerForgotten, Entries

LEMMA EntriesKept == UNCHANGED timers => Entries' = Entries
BY DEF Entries

\* A step of the loop moves the CPU on with the signal still raised, pending or
\* being handled.
LEMMA ArmedReactor ==
  ASSUME TypeOK, NoTimerForgotten,
         Boot \/ Signal \/ PollSignals \/ IdleOrRun \/ NextRound \/ Sleep
  PROVE  NoTimerForgotten'
<1> USE MeIsCpu DEF timersUnchanged
<1>1. Entries' = Entries /\ armed' = armed
  BY EntriesKept DEF Boot, Signal, PollSignals, IdleOrRun, NextRound, Sleep
<1>2. HandlerComing => HandlerComing'
  <2>1. CASE Boot
    BY <2>1 DEF Boot, InitPollers, Goto, HandlerComing, TypeOK
  <2>2. CASE Signal
    BY <2>2 DEF Signal, Deliver, HandlerComing, TypeOK
  <2>3. CASE LoadSignals(Me, "decide")
    BY <2>3 DEF LoadSignals, Goto, HandlerComing, TypeOK
  <2>4. CASE ClearSignals(Me, "clock", <<>>)
    BY <2>4 DEF ClearSignals, Goto, HandlerComing, TypeOK
  <2>5. CASE IdleOrRun
    BY <2>5 DEF IdleOrRun, Decide, Goto, HandlerComing, TypeOK
  <2>6. CASE NextRound
    BY <2>6 DEF NextRound, EndBatch, Goto, HandlerComing, TypeOK
  <2>7. CASE Sleep
    BY <2>7 DEF Sleep, CheckPending, Goto, HandlerComing, TypeOK
  <2> QED BY <2>1, <2>2, <2>3, <2>4, <2>5, <2>6, <2>7 DEF PollSignals
<1> QED BY <1>1, <1>2 DEF NoTimerForgotten

LEMMA ArmedAdd ==
  ASSUME TypeOK, NoTimerForgotten, NEW k \in Timer, NEW i \in Interval, AddTimer(k, i)
  PROVE  NoTimerForgotten'
<1> USE MeIsCpu
<1> DEFINE d == now + i
<1>1. /\ d \in Deadline /\ armed' = armed
      /\ UNCHANGED <<raised, pending_signals>>
      /\ timers' = [timers EXCEPT ![d] = Append(@, k)]
      /\ pc[Me] = "tasks"
  BY DEF AddTimer
<1>2. CASE NeedsArming(d)
  <2>1. pc'[Me] = "arm"
    BY <1>2 DEF AddTimer, Goto, TypeOK
  <2> QED BY <2>1 DEF NoTimerForgotten, HandlerComing
<1>3. CASE ~NeedsArming(d)
  <2>1. pc' = pc
    BY <1>3 DEF AddTimer
  <2>2. PICK e \in Entries : ~(d < e)
    BY <1>3 DEF NeedsArming
  <2>3. d \in Nat /\ (\A x \in Entries : x \in Nat) /\ armed \in Nat
    BY <1>1, TimersAssumption DEF TypeOK, Entries, Deadline
  <2>4. e <= d
    BY <2>2, <2>3
  <2>5. Entries' \subseteq Entries \cup {d}
    BY <1>1 DEF Entries, TypeOK
  <2>6. HandlerComing' = HandlerComing
    BY <1>1, <2>1 DEF HandlerComing
  <2> HIDE DEF d
  <2>7. CASE HandlerComing
    BY <2>6, <2>7 DEF NoTimerForgotten
  <2>8. CASE armed # 0 /\ \A x \in Entries : armed <= x
    <3>1. armed <= d
      BY <2>2, <2>3, <2>4, <2>8
    <3> QED BY <1>1, <2>5, <2>8, <3>1 DEF NoTimerForgotten
  <2> QED BY <2>2, <2>7, <2>8 DEF NoTimerForgotten
<1> QED BY <1>2, <1>3

LEMMA ArmedComplete ==
  ASSUME TypeOK, NoTimerForgotten, ReadClock \/ CompleteEntry \/ CompleteEnd \/ Rearm
  PROVE  NoTimerForgotten'
<1> USE MeIsCpu
<1>1. CASE ReadClock
  BY <1>1 DEF ReadClock, Goto, NoTimerForgotten, HandlerComing, TypeOK
<1>2. CASE CompleteEntry
  BY <1>2 DEF CompleteEntry, NoTimerForgotten, HandlerComing
<1>3. CASE CompleteEnd
  <2>1. Entries' = Entries
    BY <1>3, EntriesKept DEF CompleteEnd
  <2>2. Entries # {} => pc'[Me] = "rearm"
    BY <1>3 DEF CompleteEnd, AfterComplete, Goto, TypeOK
  <2> QED BY <2>1, <2>2 DEF NoTimerForgotten, HandlerComing
<1>4. CASE Rearm
  <2>1. Entries' = Entries
    BY <1>4, EntriesKept DEF Rearm
  <2>2. armed' # 0 /\ \A d \in Entries : armed' <= d
    BY <1>4, TimersAssumption DEF Rearm, First, Entries, Deadline
  <2> QED BY <2>1, <2>2 DEF NoTimerForgotten
<1> QED BY <1>1, <1>2, <1>3, <1>4

LEMMA ArmedStep == TypeOK /\ NoTimerForgotten /\ [Next]_vars => NoTimerForgotten'
<1> SUFFICES ASSUME TypeOK, NoTimerForgotten, [Next]_vars PROVE NoTimerForgotten'
  OBVIOUS
<1> USE MeIsCpu
<1>1. CASE UNCHANGED vars
  BY <1>1, EntriesKept DEF vars, reactorVars, NoTimerForgotten, HandlerComing
<1>2. CASE RunTask
  BY <1>2, EntriesKept DEF RunTask, NoTimerForgotten, HandlerComing
<1>3. CASE TaskReturns
  BY <1>3, EntriesKept DEF TaskReturns, reactorVars, NoTimerForgotten, HandlerComing
<1>4. CASE Tick
  BY <1>4, EntriesKept DEF Tick, timersUnchanged, reactorVars, NoTimerForgotten, HandlerComing
<1>5. CASE Expire
  <2>1. raised'[Me]
    BY <1>5 DEF Expire, Wakeup, TypeOK
  <2> QED BY <2>1 DEF NoTimerForgotten, HandlerComing
<1>6. CASE Poke
  <2>1. raised'[Me]
    BY <1>6 DEF Poke, Wakeup, TypeOK
  <2> QED BY <2>1 DEF NoTimerForgotten, HandlerComing
<1> QED BY <1>1, <1>2, <1>3, <1>4, <1>5, <1>6, ArmedReactor, ArmedAdd, ArmedComplete
        DEF Next, Run

\* Whatever the order of add_timer, complete_timers and the kernel's signal, a timer
\* in the map has the kernel timer armed for it or the handler on its way
\* (timer.cpp:52, 73).
THEOREM NoTimerIsForgotten == Safe => []NoTimerForgotten
<1>1. Init => TypeOK /\ NoTimerForgotten
  BY TypeInit, ArmedInit
<1>2. TypeOK /\ NoTimerForgotten /\ [Next]_vars => (TypeOK /\ NoTimerForgotten)'
  BY TypeStep, ArmedStep
<1> QED BY <1>1, <1>2, PTL DEF Safe

-----------------------------------------------------------------------------
(* No deadline is slept through.                                           *)

\* A CPU goes to sleep only when it has nothing to run, and stays asleep, only
\* without a handled signal.
AsleepOK ==
  /\ pc[Me] = "asleep" => ~pending_signals[Me]
  /\ pc[Me] \in {"masked", "asleep"} => task_queue[Me] = <<>>

LEMMA AsleepInit == Init => AsleepOK
BY MeIsCpu DEF Init, ReactorInit, AsleepOK

LEMMA AsleepStep == TypeOK /\ AsleepOK /\ [Next]_vars => AsleepOK'
<1> SUFFICES ASSUME TypeOK, AsleepOK, [Next]_vars PROVE AsleepOK'
  OBVIOUS
<1> USE MeIsCpu DEF AsleepOK
<1>1. CASE UNCHANGED <<pc, pending_signals, task_queue>>
  BY <1>1
<1>2. CASE Boot
  BY <1>2 DEF Boot, InitPollers, Goto, TypeOK
<1>3. CASE Signal
  BY <1>3 DEF Signal, Deliver, TypeOK
<1>4. CASE PollSignals
  BY <1>4 DEF PollSignals, LoadSignals, ClearSignals, Goto, TypeOK
<1>5. CASE IdleOrRun
  BY <1>5 DEF IdleOrRun, Decide, Idle, Goto, TypeOK
<1>6. CASE NextRound
  BY <1>6 DEF NextRound, EndBatch, Goto, TypeOK
<1>7. CASE Sleep
  BY <1>7 DEF Sleep, CheckPending, Goto, TypeOK
<1>8. CASE \E k \in Timer, i \in Interval : AddTimer(k, i)
  BY <1>8 DEF AddTimer, Goto, TypeOK
<1>9. CASE ReadClock \/ CompleteEnd \/ Rearm
  BY <1>9 DEF ReadClock, CompleteEnd, AfterComplete, Rearm, Goto, TypeOK
<1>10. CASE RunTask
  BY <1>10 DEF RunTask, TakeTask
<1>11. CASE CompleteEntry
  BY <1>11 DEF CompleteEntry
<1>12. CASE TaskReturns \/ Tick \/ Expire \/ Poke \/ UNCHANGED vars
  BY <1>1, <1>12 DEF TaskReturns, Tick, Expire, Poke, vars, reactorVars
<1> QED BY <1>2, <1>3, <1>4, <1>5, <1>6, <1>7, <1>8, <1>9, <1>10, <1>11, <1>12 DEF Next, Run

LEMMA AsleepHolds == Safe => []AsleepOK
<1>1. Safe => []TypeOK
  BY TypeCorrect
<1> QED BY <1>1, AsleepInit, AsleepStep, PTL DEF Safe

-----------------------------------------------------------------------------
(* No timer runs early.                                                    *)

\* An entry holds the timers of its deadline.
FiledRight == \A d \in Deadline : \A j \in 1 .. Len(timers[d]) : deadline[timers[d][j]] = d

\* The deadline of a timer is over.
Over(k) == 0 < deadline[k] /\ deadline[k] <= now

\* What was scheduled, and what has run, was due by then.
DueWhenScheduled ==
  /\ \A j \in 1 .. Len(task_queue[Me]) : task_queue[Me][j] # UserTask => Over(task_queue[Me][j])
  /\ \A j \in 1 .. Len(ran) : Over(ran[j])

OnTime == FiledRight /\ DueWhenScheduled

LEMMA OnTimeInit == Init => OnTime
<1> SUFFICES ASSUME Init PROVE OnTime
  OBVIOUS
<1>1. /\ task_queue[Me] = <<UserTask>> /\ ran = <<>>
      /\ \A d \in Deadline : timers[d] = <<>>
  BY MeIsCpu DEF Init, ReactorInit
<1>2. FiledRight
  BY <1>1 DEF FiledRight
<1>3. DueWhenScheduled
  BY <1>1 DEF DueWhenScheduled
<1> QED BY <1>2, <1>3 DEF OnTime

\* A timer whose deadline is over stays so: the clock goes forward, and a deadline
\* that is set is not set again.
LEMMA OverKept ==
  ASSUME TypeOK, NEW k \in Timer, Over(k),
         now' = now \/ now' = now + 1, deadline'[k] = deadline[k]
  PROVE  Over(k)'
BY TimersAssumption DEF Over, TypeOK, Deadline

\* The entry of a new timer is that of its deadline.
LEMMA OnTimeAdd ==
  ASSUME TypeOK, OnTime, NEW k \in Timer, NEW i \in Interval, AddTimer(k, i)
  PROVE  OnTime'
<1> DEFINE e == now + i
<1>1. /\ e \in Deadline /\ deadline[k] = 0
      /\ deadline' = [deadline EXCEPT ![k] = e]
      /\ timers' = [timers EXCEPT ![e] = Append(@, k)]
      /\ now' = now /\ task_queue' = task_queue /\ ran' = ran
  BY DEF AddTimer
<1>2. deadline \in [Timer -> 0 .. Horizon] /\ timers \in [Deadline -> Seq(Timer)]
  BY DEF TypeOK
<1> HIDE DEF e
<1>3. deadline'[k] = e /\ \A x \in Timer : x # k => deadline'[x] = deadline[x]
  BY <1>1, <1>2
<1>4. FiledRight'
  <2> SUFFICES ASSUME NEW d \in Deadline, NEW j \in 1 .. Len(timers'[d])
               PROVE  deadline'[timers'[d][j]] = d
    BY DEF FiledRight
  <2>1. ASSUME NEW x \in 1 .. Len(timers[d]) PROVE deadline'[timers[d][x]] = d
    <3>1. timers[d][x] \in Timer /\ deadline[timers[d][x]] = d /\ d # 0
      BY <1>2, TimersAssumption DEF OnTime, FiledRight, Deadline
    <3> QED BY <1>1, <1>3, <3>1
  <2>2. CASE d # e
    <3>1. timers'[d] = timers[d]
      BY <1>1, <1>2, <2>2
    <3> QED BY <2>1, <3>1
  <2>3. CASE d = e
    <3>1. timers[d] \in Seq(Timer) /\ timers'[d] = Append(timers[d], k)
      BY <1>1, <1>2, <2>3
    <3>2. CASE j \in 1 .. Len(timers[d])
      <4>1. timers'[d][j] = timers[d][j]
        BY <3>1, <3>2, AppendProperties
      <4> QED BY <2>1, <3>2, <4>1
    <3>3. CASE j = Len(timers[d]) + 1
      <4>1. timers'[d][j] = k
        BY <3>1, <3>3, AppendProperties
      <4> QED BY <1>3, <2>3, <4>1
    <3>4. Len(timers[d]) \in Nat /\ Len(timers'[d]) = Len(timers[d]) + 1
      BY <3>1, AppendProperties, LenProperties
    <3> QED BY <3>2, <3>3, <3>4
  <2> QED BY <2>2, <2>3
<1>5. ASSUME NEW x \in Timer, Over(x) PROVE Over(x)'
  <2>1. x # k
    BY <1>1, <1>5 DEF Over
  <2> QED BY <1>1, <1>3, <1>5, <2>1, OverKept
<1>6. DueWhenScheduled'
  <2>1. ASSUME NEW j \in 1 .. Len(task_queue[Me]), task_queue[Me][j] # UserTask
        PROVE  Over(task_queue[Me][j])'
    <3>1. task_queue[Me][j] \in Timer
      BY <2>1, MeIsCpu DEF TypeOK
    <3> QED BY <1>1, <1>5, <2>1, <3>1 DEF OnTime, DueWhenScheduled, Over
  <2>2. ASSUME NEW j \in 1 .. Len(ran) PROVE Over(ran[j])'
    <3>1. ran[j] \in Timer
      BY <2>2 DEF TypeOK
    <3> QED BY <1>1, <1>5, <3>1 DEF OnTime, DueWhenScheduled, Over
  <2> QED BY <1>1, <2>1, <2>2 DEF DueWhenScheduled, Over
<1> QED BY <1>4, <1>6 DEF OnTime

\* What an entry moves to the queue is due by the clock that was read.
LEMMA OnTimeComplete ==
  ASSUME TypeOK, OnTime, CompleteEntry
  PROVE  OnTime'
<1>1. PICK e \in Deadline : /\ e <= seen
                            /\ task_queue' = [task_queue EXCEPT ![Me] = @ \o timers[e]]
                            /\ timers' = [timers EXCEPT ![e] = <<>>]
  BY DEF CompleteEntry, Entries, Schedule, Due
<1>2. now' = now /\ deadline' = deadline /\ ran' = ran
  BY DEF CompleteEntry
<1>3. FiledRight'
  <2> SUFFICES ASSUME NEW d \in Deadline, NEW j \in 1 .. Len(timers'[d])
               PROVE  deadline'[timers'[d][j]] = d
    BY DEF FiledRight
  <2>1. timers'[d] = timers[d] \/ timers'[d] = <<>>
    BY <1>1 DEF TypeOK
  <2>2. timers'[d] # <<>>
    BY EmptySeq
  <2> QED BY <1>2, <2>1, <2>2 DEF OnTime, FiledRight
<1>4. timers[e] \in Seq(Task) /\ task_queue[Me] \in Seq(Task)
  <2>1. timers[e] \in Seq(Timer)
    BY DEF TypeOK
  <2>2. \A j \in 1 .. Len(timers[e]) : timers[e][j] \in Task
    BY <2>1 DEF Task
  <2> QED BY <2>1, <2>2, SeqDef, MeIsCpu DEF TypeOK, Task
<1>5. task_queue'[Me] = task_queue[Me] \o timers[e]
  BY <1>1, MeIsCpu DEF TypeOK
<1>6. ASSUME NEW j \in 1 .. Len(timers[e]) PROVE Over(timers[e][j])
  <2>1. deadline[timers[e][j]] = e
    BY DEF OnTime, FiledRight
  <2>2. e \in Nat /\ 0 < e /\ seen \in Nat /\ now \in Nat /\ seen <= now
    BY TimersAssumption DEF TypeOK, Deadline
  <2> QED BY <1>1, <2>1, <2>2 DEF Over
<1>7. ASSUME NEW j \in 1 .. Len(task_queue'[Me]), task_queue'[Me][j] # UserTask
      PROVE  Over(task_queue'[Me][j])
  <2> DEFINE a == Len(task_queue[Me])
             b == Len(timers[e])
  <2>1. a \in Nat /\ b \in Nat /\ Len(task_queue'[Me]) = a + b
    BY <1>4, <1>5, ConcatProperties, LenProperties
  <2>2. task_queue'[Me][j] = IF j <= a THEN task_queue[Me][j] ELSE timers[e][j - a]
    BY <1>4, <1>5, <2>1, ConcatProperties
  <2>3. CASE j <= a
    <3>1. j \in 1 .. a /\ task_queue'[Me][j] = task_queue[Me][j]
      BY <2>1, <2>2, <2>3
    <3>2. task_queue[Me][j] # UserTask
      BY <1>7, <3>1
    <3> QED BY <3>1, <3>2 DEF OnTime, DueWhenScheduled
  <2>4. CASE ~(j <= a)
    <3>1. j \in 1 .. a + b
      BY <2>1
    <3>2. task_queue'[Me][j] = timers[e][j - a]
      BY <2>2, <2>4
    <3> HIDE DEF a, b
    <3>3. j - a \in 1 .. b
      BY <2>1, <2>4, <3>1
    <3> QED BY <1>6, <3>2, <3>3 DEF b
  <2> QED BY <2>3, <2>4
<1>8. DueWhenScheduled'
  BY <1>2, <1>7 DEF OnTime, DueWhenScheduled, Over
<1> QED BY <1>3, <1>8 DEF OnTime

\* A task that runs was in the queue.
LEMMA OnTimeRun ==
  ASSUME TypeOK, OnTime, RunTask
  PROVE  OnTime'
<1> DEFINE h == Head(task_queue[Me])
<1>1. task_queue[Me] \in Seq(Task) /\ task_queue[Me] # <<>>
  BY MeIsCpu DEF TypeOK, RunTask, TakeTask, Task
<1>2. /\ Tail(task_queue[Me]) \in Seq(Task) /\ h = task_queue[Me][1]
      /\ Len(task_queue[Me]) \in Nat \ {0}
      /\ Len(Tail(task_queue[Me])) = Len(task_queue[Me]) - 1
      /\ \A j \in 1 .. Len(Tail(task_queue[Me])) : Tail(task_queue[Me])[j] = task_queue[Me][j + 1]
  BY <1>1, HeadTailProperties, EmptySeq
<1>3. now' = now /\ deadline' = deadline /\ timers' = timers
  BY DEF RunTask
<1>4. task_queue'[Me] = Tail(task_queue[Me])
  <2>1. Tail(task_queue[Me]) \o <<>> = Tail(task_queue[Me])
    BY <1>2, ConcatEmptySeq
  <2> QED BY <2>1, MeIsCpu DEF RunTask, TakeTask, TypeOK
<1>5. ASSUME NEW j \in 1 .. Len(task_queue'[Me]), task_queue'[Me][j] # UserTask
      PROVE  Over(task_queue'[Me][j])
  <2>1. j + 1 \in 1 .. Len(task_queue[Me]) /\ task_queue'[Me][j] = task_queue[Me][j + 1]
    BY <1>2, <1>4
  <2> QED BY <1>5, <2>1 DEF OnTime, DueWhenScheduled
<1>6. ASSUME NEW j \in 1 .. Len(ran') PROVE Over(ran'[j])
  <2>1. ran \in Seq(Timer) /\ Len(ran) \in Nat
    BY LenProperties DEF TypeOK
  <2>2. ASSUME NEW x \in 1 .. Len(ran) PROVE Over(ran[x])
    BY DEF OnTime, DueWhenScheduled
  <2>3. CASE h = UserTask
    <3>1. ran' = ran
      BY <2>3 DEF RunTask
    <3> QED BY <2>2, <3>1
  <2>4. CASE h # UserTask
    <3>1. h \in Timer /\ ran' = Append(ran, h)
      BY <1>1, <2>4, HeadTailProperties DEF RunTask, Task
    <3>2. Over(h)
      <4>1. 1 \in 1 .. Len(task_queue[Me])
        BY <1>2
      <4> QED BY <1>2, <2>4, <4>1 DEF OnTime, DueWhenScheduled
    <3>3. /\ Len(ran') = Len(ran) + 1 /\ ran'[Len(ran) + 1] = h
          /\ \A x \in 1 .. Len(ran) : ran'[x] = ran[x]
      BY <2>1, <3>1, AppendProperties
    <3>4. j \in 1 .. Len(ran) \/ j = Len(ran) + 1
      BY <2>1, <3>3
    <3> HIDE DEF h
    <3>5. CASE j \in 1 .. Len(ran)
      BY <2>2, <3>3, <3>5
    <3>6. CASE j = Len(ran) + 1
      BY <3>2, <3>3, <3>6
    <3> QED BY <3>4, <3>5, <3>6
  <2> QED BY <2>3, <2>4
<1>7. DueWhenScheduled'
  BY <1>3, <1>5, <1>6 DEF DueWhenScheduled, Over
<1>8. FiledRight'
  BY <1>3 DEF OnTime, FiledRight
<1> QED BY <1>7, <1>8 DEF OnTime

\* Every other step leaves the queue, the map and the deadlines as they are.
LEMMA OnTimeKept ==
  ASSUME TypeOK, OnTime, UNCHANGED <<task_queue, timers, deadline, ran>>,
         now' = now \/ now' = now + 1
  PROVE  OnTime'
<1>1. ASSUME NEW k \in Timer, Over(k) PROVE Over(k)'
  BY <1>1, OverKept
<1>2. ASSUME NEW j \in 1 .. Len(task_queue[Me]), task_queue[Me][j] # UserTask
      PROVE  Over(task_queue[Me][j])'
  <2>1. task_queue[Me][j] \in Timer
    BY <1>2, MeIsCpu DEF TypeOK
  <2> QED BY <1>1, <1>2, <2>1 DEF OnTime, DueWhenScheduled
<1>3. ASSUME NEW j \in 1 .. Len(ran) PROVE Over(ran[j])'
  <2>1. ran[j] \in Timer
    BY <1>3 DEF TypeOK
  <2> QED BY <1>1, <2>1 DEF OnTime, DueWhenScheduled
<1>4. DueWhenScheduled'
  BY <1>2, <1>3 DEF DueWhenScheduled, Over
<1> QED BY <1>4 DEF OnTime, FiledRight

LEMMA OnTimeStep == TypeOK /\ OnTime /\ [Next]_vars => OnTime'
<1> SUFFICES ASSUME TypeOK, OnTime, [Next]_vars PROVE OnTime'
  OBVIOUS
<1>1. CASE ClearSignals(Me, "clock", <<>>) /\ timersUnchanged /\ UNCHANGED now
  <2>1. task_queue[Me] \o <<>> = task_queue[Me]
    BY ConcatEmptySeq, MeIsCpu DEF TypeOK
  <2>2. task_queue' = task_queue
    BY <1>1, <2>1, MeIsCpu DEF ClearSignals, Schedule, TypeOK
  <2> QED BY <1>1, <2>2, OnTimeKept DEF timersUnchanged
<1>2. CASE LoadSignals(Me, "decide") /\ timersUnchanged /\ UNCHANGED now
  BY <1>2, OnTimeKept DEF LoadSignals, timersUnchanged
<1>3. CASE Boot \/ Signal \/ IdleOrRun \/ NextRound \/ Sleep
  BY <1>3, OnTimeKept DEF Boot, InitPollers, Signal, Deliver, IdleOrRun, Decide,
                          NextRound, EndBatch, Sleep, CheckPending, timersUnchanged
<1>4. CASE TaskReturns \/ ReadClock \/ CompleteEnd \/ Rearm
  BY <1>4, OnTimeKept DEF TaskReturns, ReadClock, CompleteEnd, Rearm, reactorVars
<1>5. CASE Tick \/ Expire \/ Poke
  BY <1>5, OnTimeKept DEF Tick, Expire, Poke, timersUnchanged, reactorVars
<1>6. CASE UNCHANGED vars
  BY <1>6, OnTimeKept DEF vars, reactorVars
<1> QED BY <1>1, <1>2, <1>3, <1>4, <1>5, <1>6, OnTimeAdd, OnTimeComplete, OnTimeRun
        DEF Next, Run, PollSignals

LEMMA OnTimeHolds == Safe => [](TypeOK /\ OnTime)
<1>1. Init => TypeOK /\ OnTime
  BY TypeInit, OnTimeInit
<1>2. TypeOK /\ OnTime /\ [Next]_vars => (TypeOK /\ OnTime)'
  BY TypeStep, OnTimeStep
<1> QED BY <1>1, <1>2, PTL DEF Safe

-----------------------------------------------------------------------------
(* Alarms is what the service implements.                                  *)

Held == Seqs!FlattenSeq(timers)

Gone == ran \o InQueue

\* What a task of the queue is the start of.
TimersNamed == [t \in Task |-> TimersOf(t)]

LEMMA TimersNamedType ==
  /\ TimersNamed \in [Task -> Seq(Timer)]
  /\ TimersNamed[UserTask] = <<>>
  /\ \A k \in Timer : k \in Task /\ k # UserTask /\ TimersNamed[k] = <<k>>
<1>1. ASSUME NEW k \in Timer PROVE k \in Task /\ k # UserTask /\ TimersOf(k) = <<k>> /\ <<k>> \in Seq(Timer)
  BY TimersAssumption DEF Task, TimersOf
<1>2. UserTask \in Task /\ TimersOf(UserTask) = <<>> /\ <<>> \in Seq(Timer)
  BY EmptySeq DEF Task, TimersOf
<1>3. \A t \in Task : TimersOf(t) \in Seq(Timer)
  BY <1>1, <1>2 DEF Task
<1> QED BY <1>1, <1>2, <1>3 DEF TimersNamed

LEMMA InQueueSpelled ==
  ASSUME NEW q \in Seq(Task)
  PROVE  Seqs!FlattenSeq([i \in 1 .. Len(q) |-> TimersOf(q[i])]) = Spelled(q, TimersNamed)
<1>1. \A i \in 1 .. Len(q) : TimersNamed[q[i]] = TimersOf(q[i])
  BY LenProperties DEF TimersNamed
<1>2. [i \in 1 .. Len(q) |-> TimersOf(q[i])] = [i \in 1 .. Len(q) |-> TimersNamed[q[i]]]
  BY <1>1
<1> QED BY <1>2 DEF Spelled

LEMMA QueueTyping ==
  ASSUME TypeOK
  PROVE  /\ task_queue[Me] \in Seq(Task) /\ ran \in Seq(Timer)
         /\ InQueue = Spelled(task_queue[Me], TimersNamed) /\ InQueue \in Seq(Timer)
<1>1. task_queue[Me] \in Seq(Task) /\ ran \in Seq(Timer)
  BY MeIsCpu DEF TypeOK, Task
<1>2. InQueue = Spelled(task_queue[Me], TimersNamed)
  BY <1>1, InQueueSpelled DEF InQueue
<1>3. Spelled(task_queue[Me], TimersNamed) \in Seq(Timer)
  BY <1>1, TimersNamedType, SpelledConcat
<1> QED BY <1>1, <1>2, <1>3

LEMMA QueueTypingNext ==
  ASSUME TypeOK'
  PROVE  /\ task_queue'[Me] \in Seq(Task) /\ ran' \in Seq(Timer)
         /\ InQueue' = Spelled(task_queue'[Me], TimersNamed)
<1>1. task_queue'[Me] \in Seq(Task) /\ ran' \in Seq(Timer)
  BY MeIsCpu DEF TypeOK, Task
<1>2. InQueue' = Spelled(task_queue'[Me], TimersNamed)
  BY <1>1, InQueueSpelled DEF InQueue
<1> QED BY <1>1, <1>2

\* a and b are what the map holds before and behind the entry of d.
Beside(a, b, d) ==
  /\ \A k \in Items(a) : deadline[k] < d
  /\ \A k \in Items(b) : d < deadline[k]
  /\ (\A e \in Deadline : e < d => timers[e] = <<>>) => a = <<>>
  /\ Held = a \o (timers[d] \o b)
  /\ \A s \in Seq(Timer) : timers' = [timers EXCEPT ![d] = s] => Held' = a \o (s \o b)

LEMMA MapAround ==
  ASSUME TypeOK, FiledRight, NEW d \in Deadline
  PROVE  \E a, b \in Seq(Timer) : Beside(a, b, d)
<1>1. PICK ss \in Seq(Seq(Timer)) : ss = timers /\ Len(ss) = Horizon /\ Horizon \in Nat \ {0}
  <2>1. timers \in [1 .. Horizon -> Seq(Timer)] /\ Horizon \in Nat \ {0}
    BY TimersAssumption DEF TypeOK, Deadline
  <2>2. PICK C : C = Seq(Timer)
    OBVIOUS
  <2>3. timers \in Seq(C)
    BY <2>1, <2>2, SeqDef
  <2>4. Len(timers) = Horizon
    BY <2>1, <2>2, <2>3, LenProperties
  <2> QED BY <2>1, <2>2, <2>3, <2>4
<1>2. d \in 1 .. Len(ss) /\ d \in Nat
  BY <1>1 DEF Deadline
<1>3. PICK a \in Seq(Timer), b \in Seq(Timer) : Around(a, b, ss, d, Timer)
  BY <1>2, FlattenAround
<1>4. ASSUME NEW e \in 1 .. Len(ss) PROVE Items(ss[e]) \subseteq {k \in Timer : deadline[k] = e}
  <2>1. e \in Deadline /\ ss[e] = timers[e] /\ timers[e] \in Seq(Timer)
    BY <1>1 DEF Deadline, TypeOK
  <2>2. \A i \in 1 .. Len(timers[e]) : deadline[timers[e][i]] = e
    BY <2>1 DEF FiledRight
  <2> QED BY <2>1, <2>2, LenProperties DEF Items
<1>5. \A k \in Items(a) : deadline[k] < d
  <2>1. ASSUME NEW i \in 1 .. d - 1 PROVE Items(ss[i]) \subseteq {k \in Timer : deadline[k] < d}
    <3>1. i \in 1 .. Len(ss) /\ i < d
      BY <1>1, <1>2
    <3> QED BY <1>4, <3>1
  <2> QED BY <1>3, <2>1 DEF Around
<1>6. \A k \in Items(b) : d < deadline[k]
  <2>1. ASSUME NEW i \in d + 1 .. Len(ss) PROVE Items(ss[i]) \subseteq {k \in Timer : d < deadline[k]}
    <3>1. i \in 1 .. Len(ss) /\ d < i
      BY <1>1, <1>2
    <3> QED BY <1>4, <3>1
  <2> QED BY <1>3, <2>1 DEF Around
<1>7. ASSUME \A e \in Deadline : e < d => timers[e] = <<>> PROVE a = <<>>
  <2>1. ASSUME NEW i \in 1 .. d - 1 PROVE Items(ss[i]) \subseteq {}
    <3>1. i \in Deadline /\ i < d
      BY <1>1, <1>2 DEF Deadline
    <3>2. ss[i] = <<>>
      BY <1>1, <1>7, <3>1
    <3> QED BY <3>2, ItemsEmpty
  <2>2. Items(a) \subseteq {}
    BY <1>3, <2>1 DEF Around
  <2>3. Len(a) = 0
    <3>1. Len(a) \in Nat
      BY LenProperties
    <3>2. 1 \notin 1 .. Len(a)
      BY <2>2 DEF Items
    <3> QED BY <3>1, <3>2
  <2> QED BY <2>3, EmptySeq
<1>8. Held = a \o (timers[d] \o b)
  <2>1. PICK s \in Seq(Timer) : s = ss[d]
    BY <1>2
  <2>2. [ss EXCEPT ![d] = s] = ss
    BY <2>1
  <2>3. Seqs!FlattenSeq([ss EXCEPT ![d] = s]) = a \o (s \o b)
    BY <1>3 DEF Around
  <2> QED BY <1>1, <2>1, <2>2, <2>3 DEF Held
<1>9. ASSUME NEW s \in Seq(Timer), timers' = [timers EXCEPT ![d] = s] PROVE Held' = a \o (s \o b)
  BY <1>1, <1>3, <1>9 DEF Held, Around
<1> QED BY <1>5, <1>6, <1>7, <1>8, <1>9 DEF Beside

LEMMA HeldKept == timers' = timers => Held' = Held
BY DEF Held

LEMMA GoneKept == task_queue' = task_queue /\ ran' = ran => Gone' = Gone
BY DEF Gone, InQueue

\* A timer that is added goes behind those due no later (timer.cpp:43-50).
LEMMA SetImplements ==
  ASSUME TypeOK, FiledRight, NEW k \in Timer, NEW i \in Interval, AddTimer(k, i)
  PROVE  Abstract!Set(k, i)
<1>1. /\ now + i \in Deadline /\ deadline[k] = 0 /\ deadline' = [deadline EXCEPT ![k] = now + i]
      /\ timers' = [timers EXCEPT ![now + i] = Append(@, k)]
      /\ now' = now /\ task_queue' = task_queue /\ ran' = ran
  BY DEF AddTimer
<1>2. PICK d \in Deadline : d = now + i
  BY <1>1
<1>3. PICK a \in Seq(Timer), b \in Seq(Timer) : Beside(a, b, d)
  BY MapAround
<1>4. PICK e \in Seq(Timer), o \in Seq(Timer) : e = timers[d] /\ o = <<k>> /\ Append(e, k) = e \o o
  <2>1. timers[d] \in Seq(Timer) /\ <<k>> \in Seq(Timer)
    BY DEF TypeOK
  <2>2. Append(timers[d], k) = timers[d] \o <<k>>
    BY <2>1, AppendIsConcat
  <2> QED BY <2>1, <2>2
<1>5. PICK u \in Seq(Timer) : u = a \o e
  BY ConcatProperties
<1>6. Held = u \o b
  <2>1. Held = a \o (e \o b)
    BY <1>3, <1>4 DEF Beside
  <2>2. (a \o e) \o b = a \o (e \o b)
    <3>1. Regroups(a, e, b)
      BY ConcatRegroups
    <3> QED BY <3>1 DEF Regroups
  <2> QED BY <1>5, <2>1, <2>2
<1>7. Held' = (u \o o) \o b
  <2>1. PICK s \in Seq(Timer) : s = e \o o
    BY ConcatProperties
  <2>2. timers' = [timers EXCEPT ![d] = s]
    BY <1>1, <1>2, <1>4, <2>1
  <2>3. Held' = a \o (s \o b)
    BY <1>3, <2>2 DEF Beside
  <2>4. (a \o s) \o b = a \o (s \o b)
    <3>1. Regroups(a, s, b)
      BY ConcatRegroups
    <3> QED BY <3>1 DEF Regroups
  <2>5. (a \o e) \o o = a \o (e \o o)
    <3>1. Regroups(a, e, o)
      BY ConcatRegroups
    <3> QED BY <3>1 DEF Regroups
  <2> QED BY <1>5, <2>1, <2>3, <2>4, <2>5
<1>8. PICK h \in Seq(Timer) : h = Held /\ h = u \o b
  <2>1. u \o b \in Seq(Timer)
    BY ConcatProperties
  <2> QED BY <1>6, <2>1
<1>9. /\ Len(h) = Len(u) + Len(b) /\ Len(u) \in Nat /\ Len(b) \in Nat
      /\ SubSeq(h, 1, Len(u)) = u /\ SubSeq(h, Len(u) + 1, Len(h)) = b
      /\ \A j \in 1 .. Len(h) : h[j] \in IF j <= Len(u) THEN Items(u) ELSE Items(b)
  <2>1. Cut(h, u, b)
    BY <1>8, CutApart
  <2> QED BY <2>1 DEF Cut
<1>10. \A x \in Items(u) : deadline[x] <= d
  <2>1. /\ Len(u) = Len(a) + Len(e) /\ Len(a) \in Nat /\ Len(e) \in Nat
        /\ \A j \in 1 .. Len(u) : u[j] \in IF j <= Len(a) THEN Items(a) ELSE Items(e)
    <3>1. Cut(u, a, e)
      BY <1>5, CutApart
    <3> QED BY <3>1 DEF Cut
  <2>2. \A x \in Items(e) : deadline[x] = d
    BY <1>4 DEF FiledRight, Items
  <2>3. \A x \in Items(a) : deadline[x] < d
    BY <1>3 DEF Beside
  <2>4. Items(a) \subseteq Timer /\ \A x \in Timer : deadline[x] \in Nat
    BY LenProperties, TimersAssumption DEF Items, TypeOK
  <2>5. d \in Nat
    BY TimersAssumption DEF Deadline
  <2>6. ASSUME NEW j \in 1 .. Len(u) PROVE deadline[u[j]] <= d
    BY <2>1, <2>2, <2>3, <2>4, <2>5
  <2> QED BY <2>6 DEF Items
<1>11. \A x \in Items(b) : ~(deadline[x] <= d)
  <2>1. Items(b) \subseteq Timer /\ \A x \in Timer : deadline[x] \in Nat
    BY LenProperties, TimersAssumption DEF Items, TypeOK
  <2>2. d \in Nat
    BY TimersAssumption DEF Deadline
  <2> QED BY <1>3, <2>1, <2>2 DEF Beside
<1>12. PICK n \in 0 .. Len(h) : n = Len(u)
  <2>1. /\ Len(h) = Len(u) + Len(b) /\ Len(u) \in Nat /\ Len(b) \in Nat
    BY <1>9
  <2>2. Len(u) \in 0 .. Len(h)
    BY ONLY <2>1
  <2> QED BY <2>2
<1>13. \A j \in 1 .. Len(h) : j <= n <=> deadline[h[j]] <= now + i
  BY <1>2, <1>9, <1>10, <1>11, <1>12
<1>14. Held' = SubSeq(h, 1, n) \o <<k>> \o SubSeq(h, n + 1, Len(h))
  BY <1>4, <1>7, <1>9, <1>12
<1>15. \E m \in 0 .. Len(Held) :
         /\ \A j \in 1 .. Len(Held) : j <= m <=> deadline[Held[j]] <= now + i
         /\ Held' = SubSeq(Held, 1, m) \o <<k>> \o SubSeq(Held, m + 1, Len(Held))
  BY <1>8, <1>12, <1>13, <1>14
<1>16. now + i <= Horizon
  BY <1>1, TimersAssumption DEF Deadline, TypeOK
<1>17. Gone' = Gone
  BY <1>1, GoneKept
<1> QED BY <1>1, <1>15, <1>16, <1>17, Zenon DEF Abstract!Set, Held, Gone

\* What complete_timers schedules has left, the first of the map's timers
\* (timer.cpp:59-71).
LEMMA LeaveImplements ==
  ASSUME TypeOK, TypeOK', FiledRight, CompleteEntry
  PROVE  Abstract!Leave
<1>0. \A x, y, z \in Seq(Timer) : (x \o y) \o z = x \o (y \o z)
  BY ConcatAssociative
<1>1. PICK d \in Deadline :
        /\ timers[d] # <<>> /\ d <= seen
        /\ \A other \in Deadline : timers[other] # <<>> => d <= other
        /\ task_queue' = [task_queue EXCEPT ![Me] = @ \o timers[d]]
        /\ timers' = [timers EXCEPT ![d] = <<>>]
  BY DEF CompleteEntry, Entries, First, Due, Schedule
<1>2. now' = now /\ deadline' = deadline /\ ran' = ran
  BY DEF CompleteEntry
<1>3. PICK a \in Seq(Timer), b \in Seq(Timer) : Beside(a, b, d)
  BY MapAround
<1>4. a = <<>>
  <2>1. ASSUME NEW other \in Deadline, other < d PROVE timers[other] = <<>>
    BY <1>1, <2>1, TimersAssumption DEF Deadline
  <2> QED BY <1>3, <2>1 DEF Beside
<1>5. PICK e \in Seq(Timer) : e = timers[d] /\ e # <<>>
  BY <1>1 DEF TypeOK
<1>6. Held = e \o b
  <2>1. PICK h \in Seq(Timer) : h = e \o b
    BY ConcatProperties
  <2>2. <<>> \o h = h
    BY ConcatEmptySeq
  <2>3. Held = a \o (e \o b)
    BY <1>3, <1>5 DEF Beside
  <2> QED BY <1>4, <2>1, <2>2, <2>3
<1>7. Held' = b
  <2>1. <<>> \in Seq(Timer)
    BY EmptySeq
  <2>2. Held' = a \o (<<>> \o b)
    BY <1>1, <1>3, <2>1 DEF Beside
  <2>3. <<>> \o b = b
    BY ConcatEmptySeq
  <2> QED BY <1>4, <2>2, <2>3
<1>8. PICK h \in Seq(Timer) : h = Held /\ h = e \o b
  <2>1. e \o b \in Seq(Timer)
    BY ConcatProperties
  <2> QED BY <1>6, <2>1
<1>9. Cut(h, e, b)
  BY <1>8, CutApart
<1>10. PICK n \in 1 .. Len(h) : n = Len(e)
  <2>1. /\ Len(h) = Len(e) + Len(b) /\ Len(e) \in Nat /\ Len(b) \in Nat
    BY <1>9 DEF Cut
  <2>2. Len(e) # 0
    BY <1>5, EmptySeq
  <2>3. Len(e) \in 1 .. Len(h)
    BY ONLY <2>1, <2>2
  <2> QED BY <2>3
<1>11. SubSeq(h, 1, n) = e /\ SubSeq(h, n + 1, Len(h)) = b
  BY <1>9, <1>10 DEF Cut
<1>12. deadline[h[n]] <= now
  <2>1. h[n] \in Items(e)
    <3>1. n <= Len(e)
      BY <1>10
    <3> QED BY <1>9, <1>10, <3>1 DEF Cut
  <2>2. \A x \in Items(e) : deadline[x] = d
    BY <1>5 DEF FiledRight, Items
  <2>3. seen <= now /\ seen \in Nat /\ now \in Nat /\ d \in Nat
    BY TimersAssumption DEF TypeOK, Deadline
  <2> QED BY <1>1, <2>1, <2>2, <2>3
<1>13. Gone' = Gone \o e
  <2>1. PICK q \in Seq(Task) : q = task_queue[Me] /\ task_queue'[Me] = q \o e
    BY <1>1, <1>5, MeIsCpu, QueueTyping DEF TypeOK
  <2>2. e \in Seq(Task)
    <3>1. \A j \in 1 .. Len(e) : e[j] \in Task
      BY DEF Task
    <3> QED BY <3>1, SeqDef
  <2>3. Spelled(e, TimersNamed) = e
    <3>1. \A j \in 1 .. Len(e) : TimersNamed[e[j]] = <<e[j]>>
      BY TimersNamedType
    <3> QED BY <2>2, <3>1, TimersNamedType, SpelledSame
  <2>4. PICK s \in Seq(Timer) : s = Spelled(q, TimersNamed) /\ SpelledApart(q, e, TimersNamed)
    <3>1. Spelled(q, TimersNamed) \in Seq(Timer) /\ SpelledApart(q, e, TimersNamed)
      BY <2>2, TimersNamedType, SpelledConcat
    <3> QED BY <3>1
  <2>5. PICK r \in Seq(Timer) : r = ran /\ InQueue = s
    BY <2>1, <2>4, QueueTyping
  <2>6. InQueue' = s \o e
    BY <2>1, <2>3, <2>4, QueueTypingNext DEF SpelledApart
  <2>7. (r \o s) \o e = r \o (s \o e)
    BY <1>0
  <2> QED BY <1>2, <2>5, <2>6, <2>7 DEF Gone
<1>14. \E m \in 1 .. Len(Held) :
         /\ deadline[Held[m]] <= now
         /\ Gone' = Gone \o SubSeq(Held, 1, m)
         /\ Held' = SubSeq(Held, m + 1, Len(Held))
  BY <1>7, <1>8, <1>10, <1>11, <1>12, <1>13
<1> QED BY <1>2, <1>14, Zenon DEF Abstract!Leave, Held, Gone

\* A task that starts has left before: it goes from the queue to ran.
LEMMA RunTaskKeeps ==
  ASSUME TypeOK, TypeOK', RunTask
  PROVE  Gone' = Gone
<1>1. /\ task_queue[Me] # <<>>
      /\ task_queue'[Me] = Tail(task_queue[Me]) \o <<>>
      /\ ran' = IF Head(task_queue[Me]) = UserTask THEN ran ELSE Append(ran, Head(task_queue[Me]))
  BY MeIsCpu DEF RunTask, TakeTask, TypeOK
<1>2. PICK q \in Seq(Task), r \in Seq(Timer) : q = task_queue[Me] /\ r = ran
  BY QueueTyping
<1>3. PICK t \in Task, rest \in Seq(Task), s \in Seq(Timer) :
        /\ t = Head(q) /\ rest = Tail(q) /\ s = Spelled(rest, TimersNamed)
        /\ Spelled(q, TimersNamed) = TimersNamed[t] \o s
  <2>1. /\ Head(q) \in Task /\ Tail(q) \in Seq(Task) /\ Spelled(Tail(q), TimersNamed) \in Seq(Timer)
        /\ Spelled(q, TimersNamed) = TimersNamed[Head(q)] \o Spelled(Tail(q), TimersNamed)
    BY <1>1, <1>2, TimersNamedType, SpelledHead
  <2> QED BY <2>1
<1>4. task_queue'[Me] = rest
  BY <1>1, <1>2, <1>3, ConcatEmptySeq
<1>5. InQueue = TimersNamed[t] \o s /\ InQueue' = s
  BY <1>2, <1>3, <1>4, QueueTyping, QueueTypingNext
<1>6. CASE t = UserTask
  <2>1. <<>> \o s = s
    BY ConcatEmptySeq
  <2>2. ran' = ran
    BY <1>1, <1>2, <1>3, <1>6
  <2> QED BY <1>5, <1>6, <2>1, <2>2, TimersNamedType DEF Gone
<1>7. CASE t # UserTask
  <2>1. t \in Timer
    BY <1>7 DEF Task
  <2>2. PICK o \in Seq(Timer) : o = <<t>> /\ o = TimersNamed[t]
    BY <2>1, TimersNamedType
  <2>3. Append(r, t) = r \o o
    BY <2>1, <2>2, AppendIsConcat
  <2>4. ran' = r \o o
    BY <1>1, <1>2, <1>3, <1>7, <2>3
  <2>5. (r \o o) \o s = r \o (o \o s)
    <3>1. Regroups(r, o, s)
      BY ConcatRegroups
    <3> QED BY <3>1 DEF Regroups
  <2> QED BY <1>2, <1>5, <2>2, <2>4, <2>5 DEF Gone
<1> QED BY <1>6, <1>7

LEMMA ReactorKeeps ==
  ASSUME TypeOK, Boot \/ Signal \/ PollSignals \/ IdleOrRun \/ NextRound \/ Sleep
  PROVE  Gone' = Gone /\ Held' = Held /\ now' = now /\ deadline' = deadline
<1>1. /\ timers' = timers /\ ran' = ran /\ now' = now /\ deadline' = deadline
  BY DEF Boot, Signal, PollSignals, IdleOrRun, NextRound, Sleep, timersUnchanged
<1>2. task_queue' = task_queue
  <2>1. CASE ClearSignals(Me, "clock", <<>>)
    <3>1. task_queue[Me] \o <<>> = task_queue[Me]
      BY QueueTyping, ConcatEmptySeq
    <3>2. task_queue' = [task_queue EXCEPT ![Me] = task_queue[Me]]
      BY <2>1, <3>1 DEF ClearSignals, Schedule
    <3> QED BY <3>2, MeIsCpu DEF TypeOK
  <2>2. CASE ~ClearSignals(Me, "clock", <<>>)
    BY <2>2 DEF Boot, InitPollers, Signal, Deliver, PollSignals, LoadSignals,
                IdleOrRun, Decide, NextRound, EndBatch, Sleep, CheckPending
  <2> QED BY <2>1, <2>2
<1> QED BY <1>1, <1>2, GoneKept, HeldKept

\* A step that leaves the abstract state alone.
LEMMA Stutters ==
  ASSUME Gone' = Gone, Held' = Held, now' = now, deadline' = deadline
  PROVE  UNCHANGED Abstract!vars
BY DEF Abstract!vars, Gone, Held

LEMMA StepImplements ==
  ASSUME TypeOK, TypeOK', FiledRight, [Next]_vars
  PROVE  [Abstract!Next]_(Abstract!vars)
<1>1. CASE Boot \/ Signal \/ PollSignals \/ IdleOrRun \/ NextRound \/ Sleep
  BY <1>1, ReactorKeeps, Stutters
<1>2. CASE RunTask
  <2>1. timers' = timers /\ now' = now /\ deadline' = deadline
    BY <1>2 DEF RunTask
  <2> QED BY <1>2, <2>1, RunTaskKeeps, HeldKept, Stutters
<1>3. CASE TaskReturns \/ ReadClock \/ CompleteEnd \/ Rearm \/ Expire \/ Poke \/ UNCHANGED vars
  <2>1. /\ timers' = timers /\ now' = now /\ deadline' = deadline
        /\ task_queue' = task_queue /\ ran' = ran
    BY <1>3 DEF TaskReturns, ReadClock, CompleteEnd, Rearm, Expire, Poke, vars, reactorVars, timersUnchanged
  <2> QED BY <2>1, GoneKept, HeldKept, Stutters
<1>4. CASE CompleteEntry
  BY <1>4, LeaveImplements DEF Abstract!Next
<1>5. CASE Tick
  <2>1. /\ now < Horizon /\ now' = now + 1
        /\ timers' = timers /\ deadline' = deadline /\ task_queue' = task_queue /\ ran' = ran
    BY <1>5 DEF Tick, reactorVars, timersUnchanged
  <2>2. Gone' = Gone /\ Held' = Held
    BY <2>1, GoneKept, HeldKept
  <2>3. Abstract!Tick
    BY <2>1, <2>2, Zenon DEF Abstract!Tick, Gone, Held
  <2> QED BY <2>3 DEF Abstract!Next
<1>6. ASSUME NEW k \in Timer, NEW i \in Interval, AddTimer(k, i) PROVE Abstract!Next
  BY <1>6, SetImplements DEF Abstract!Next
<1> QED BY <1>1, <1>2, <1>3, <1>4, <1>5, <1>6 DEF Next, Run

LEMMA InitImplements == Init => Abstract!Init
<1> SUFFICES ASSUME Init PROVE Abstract!Init
  OBVIOUS
<1>1. /\ now = 1 /\ deadline = [k \in Timer |-> 0] /\ ran = <<>>
      /\ timers = [d \in Deadline |-> <<>>] /\ task_queue[Me] = <<UserTask>>
  BY MeIsCpu DEF Init, ReactorInit
<1>2. Held = <<>>
  <2>1. timers \in Seq(Seq(Timer)) /\ \A i \in 1 .. Len(timers) : timers[i] = <<>>
    <3>1. Horizon \in Nat /\ <<>> \in Seq(Timer)
      BY TimersAssumption, EmptySeq
    <3>2. PICK C : C = Seq(Timer)
      OBVIOUS
    <3>3. timers \in [1 .. Horizon -> C]
      BY <1>1, <3>1, <3>2 DEF Deadline
    <3>4. timers \in Seq(C)
      BY <3>1, <3>3, SeqDef
    <3>5. Len(timers) = Horizon
      BY <3>1, <3>3, <3>4, LenProperties
    <3> QED BY <1>1, <3>2, <3>4, <3>5 DEF Deadline
  <2> QED BY <2>1, FlattenNothing DEF Held
<1>3. Gone = <<>>
  <2>1. TypeOK
    BY TypeInit
  <2>2. UserTask \in Task
    BY DEF Task
  <2>3. Spelled(<<UserTask>>, TimersNamed) = TimersNamed[UserTask]
    BY <2>2, TimersNamedType, SpelledOne
  <2>4. InQueue = <<>>
    BY <1>1, <2>1, <2>3, QueueTyping, TimersNamedType
  <2>5. <<>> \in Seq(Timer)
    BY EmptySeq
  <2>6. <<>> \o <<>> = <<>>
    BY <2>5, ConcatEmptySeq
  <2> QED BY <1>1, <2>4, <2>6 DEF Gone
<1> QED BY <1>1, <1>2, <1>3, Zenon DEF Abstract!Init, Held, Gone

\* The service implements Alarms: its timers leave in the order of their
\* deadlines, those of one deadline in the order they were added, and none too
\* early, whenever the kernel's one timer fires and whatever signals are merged
\* (timer.cpp:43-76, cpu.cpp:42-59).
THEOREM ServiceImplementsAlarms == Safe => Abstract!Safe
<1>1. Init => Abstract!Init
  BY InitImplements
<1>2. TypeOK /\ OnTime /\ TypeOK' /\ [Next]_vars => [Abstract!Next]_(Abstract!vars)
  BY StepImplements DEF OnTime
<1> QED BY <1>1, <1>2, OnTimeHolds, PTL DEF Safe, Abstract!Safe

-----------------------------------------------------------------------------
(* The order in which tasks start.                                         *)

\* A second start of a timer, or one that comes behind a later deadline.
Later == {p \in Timer \X Timer : p[1] = p[2] \/ deadline[p[2]] < deadline[p[1]]}

\* The timers that have left and those of the map are one line, in the order of
\* their deadlines, of all that were added; those that have left are due.
Lined ==
  /\ Gone \in Seq(Timer) /\ Held \in Seq(Timer)
  /\ Ordered(Gone \o Held, Later)
  /\ Items(Gone \o Held) = {k \in Timer : deadline[k] # 0}
  /\ \A k \in Items(Gone) : deadline[k] <= now

LEMMA LinedInit == Init => Lined
<1> SUFFICES ASSUME Init PROVE Lined
  OBVIOUS
<1>1. Gone = <<>> /\ Held = <<>> /\ deadline = [k \in Timer |-> 0]
  BY InitImplements, Zenon DEF Abstract!Init, Gone, Held
<1>2. <<>> \in Seq(Timer) /\ <<>> \o <<>> = <<>> /\ Items(<<>>) = {} /\ Ordered(<<>>, Later)
  BY EmptySeq, ConcatEmptySeq, ItemsEmpty
<1> QED BY <1>1, <1>2 DEF Lined

LEMMA LinedTick ==
  ASSUME TypeOK, Lined, UNCHANGED <<Gone, Held, deadline>>, now' = now \/ now' = now + 1
  PROVE  Lined'
<1>1. Later' = Later
  BY DEF Later
<1>2. \A k \in Items(Gone) : deadline[k] <= now'
  <2>1. now \in Nat /\ \A k \in Timer : deadline[k] \in Nat
    BY TimersAssumption DEF TypeOK, Deadline
  <2>2. Items(Gone) \subseteq Timer
    BY ItemsType DEF Lined
  <2> QED BY <2>1, <2>2 DEF Lined
<1>3. Items(Gone)' = Items(Gone) /\ Ordered(Gone \o Held, Later)' = Ordered(Gone \o Held, Later)
  BY <1>1 DEF Items, Ordered
<1>4. Items(Gone \o Held)' = Items(Gone \o Held)
  BY DEF Items
<1> QED BY <1>2, <1>3, <1>4 DEF Lined

\* What leaves goes from the front of the map to the end of what has left.
LEMMA LinedLeave ==
  ASSUME TypeOK, Lined, Abstract!Leave
  PROVE  Lined'
<1>1. now' = now /\ deadline' = deadline
  BY DEF Abstract!Leave
<1>2. PICK g \in Seq(Timer), h \in Seq(Timer) : g = Gone /\ h = Held
  BY DEF Lined
<1>3. PICK n \in 1 .. Len(h) :
        deadline[h[n]] <= now /\ Gone' = g \o SubSeq(h, 1, n) /\ Held' = SubSeq(h, n + 1, Len(h))
  <2>1. \E n \in 1 .. Len(Held) :
          /\ deadline[Held[n]] <= now
          /\ Gone' = Gone \o SubSeq(Held, 1, n)
          /\ Held' = SubSeq(Held, n + 1, Len(Held))
    BY Zenon DEF Abstract!Leave, Held, Gone
  <2> QED BY <1>2, <2>1
<1>4. PICK u \in Seq(Timer), v \in Seq(Timer) :
        /\ u = SubSeq(h, 1, n) /\ v = SubSeq(h, n + 1, Len(h)) /\ u \o v = h
        /\ Len(u) = n /\ \A i \in 1 .. n : u[i] = h[i]
  <2>1. n \in Nat /\ Len(h) \in Nat /\ 1 <= n /\ n <= Len(h)
    BY LenProperties
  <2>2. SubSeq(h, 1, n) \in Seq(Timer) /\ SubSeq(h, n + 1, Len(h)) \in Seq(Timer)
    BY <2>1, SubSeqProperties
  <2>3. SubSeq(h, 1, n) \o SubSeq(h, n + 1, Len(h)) = SubSeq(h, 1, Len(h))
    BY <2>1, ConcatAdjacentSubSeq
  <2>4. SubSeq(h, 1, Len(h)) = h
    BY SubSeqFull
  <2>5. Len(SubSeq(h, 1, n)) = n /\ \A i \in 1 .. n : SubSeq(h, 1, n)[i] = h[i]
    BY <2>1, SubSeqProperties
  <2> QED BY <2>2, <2>3, <2>4, <2>5
<1>5. PICK w \in Seq(Timer) : w = g \o u /\ w \o v = g \o h
  <2>1. (g \o u) \o v = g \o (u \o v)
    <3>1. Regroups(g, u, v)
      BY ConcatRegroups
    <3> QED BY <3>1 DEF Regroups
  <2>2. g \o u \in Seq(Timer)
    BY ConcatProperties
  <2> QED BY <1>4, <2>1, <2>2
<1>6. Gone' = w /\ Held' = v
  BY <1>3, <1>4, <1>5
<1>7. Later' = Later
  BY <1>1 DEF Later
<1>8. Ordered(g \o h, Later) /\ Items(g \o h) = {k \in Timer : deadline[k] # 0}
  BY <1>2 DEF Lined
<1>9. \A k \in Items(w) : deadline[k] <= now
  <2>1. Items(w) = Items(g) \cup Items(u)
    BY <1>5, OrderedConcat
  <2>2. \A k \in Items(g) : deadline[k] <= now
    BY <1>2 DEF Lined
  <2>3. now \in Nat /\ \A k \in Timer : deadline[k] \in Nat
    BY TimersAssumption DEF TypeOK, Deadline
  <2>4. Ordered(h, Later)
    BY <1>8, OrderedParts
  <2>5. ASSUME NEW i \in 1 .. n PROVE deadline[u[i]] <= now
    <3>1. n \in Nat /\ i \in Nat /\ i <= n /\ n \in 1 .. Len(h) /\ i \in 1 .. Len(h)
      BY LenProperties
    <3>2. h[i] \in Timer /\ h[n] \in Timer
      BY <3>1, LenProperties
    <3>3. i # n => ~(deadline[h[n]] < deadline[h[i]])
      <4>1. i # n => <<h[i], h[n]>> \notin Later
        BY <2>4, <3>1 DEF Ordered
      <4> QED BY <3>2, <4>1 DEF Later
    <3>4. deadline[h[i]] \in Nat /\ deadline[h[n]] \in Nat /\ deadline[h[n]] <= now
      BY <1>3, <2>3, <3>2
    <3>5. deadline[h[i]] <= now
      BY <2>3, <3>3, <3>4
    <3> QED BY <1>4, <3>5
  <2>6. \A k \in Items(u) : deadline[k] <= now
    BY <1>4, <2>5 DEF Items
  <2> QED BY <2>1, <2>2, <2>6
<1>10. Ordered(Gone \o Held, Later)' /\ Items(Gone \o Held)' = Items(g \o h)
  BY <1>5, <1>6, <1>7, <1>8 DEF Ordered, Items
<1>11. (\A k \in Items(Gone) : deadline[k] <= now)'
  BY <1>1, <1>6, <1>9 DEF Items
<1> QED BY <1>1, <1>6, <1>8, <1>10, <1>11 DEF Lined

\* A new timer goes between those that are due no later than itself and the others.
LEMMA LinedSet ==
  ASSUME TypeOK, Lined, NEW k \in Timer, NEW i \in Interval, Abstract!Set(k, i)
  PROVE  Lined'
<1>0. PICK C : C = Seq(Timer)
  OBVIOUS
<1>a. \A a, b, c, e \in C : \E w, p, z, y \in C : Between(w, p, z, y, a, b, c, e)
  <2>1. \A a, b, c \in C : a \o b \in C /\ (a \o b) \o c = a \o (b \o c)
    BY <1>0, Associates
  <2> QED BY ONLY <2>1, PutBetween
<1>1. /\ now' = now /\ deadline[k] = 0 /\ now + i <= Horizon
      /\ deadline' = [deadline EXCEPT ![k] = now + i] /\ Gone' = Gone
  BY Zenon DEF Abstract!Set, Gone
<1>2. PICK g \in Seq(Timer), h \in Seq(Timer) : g = Gone /\ h = Held
  BY DEF Lined
<1>3. PICK n \in 0 .. Len(h) :
        /\ \A j \in 1 .. Len(h) : j <= n <=> deadline[h[j]] <= now + i
        /\ Held' = SubSeq(h, 1, n) \o <<k>> \o SubSeq(h, n + 1, Len(h))
  <2>1. \E n \in 0 .. Len(Held) :
          /\ \A j \in 1 .. Len(Held) : j <= n <=> deadline[Held[j]] <= now + i
          /\ Held' = SubSeq(Held, 1, n) \o <<k>> \o SubSeq(Held, n + 1, Len(Held))
    BY Zenon DEF Abstract!Set, Held
  <2> QED BY <1>2, <2>1
<1>4. PICK u \in Seq(Timer), v \in Seq(Timer) :
        /\ u = SubSeq(h, 1, n) /\ v = SubSeq(h, n + 1, Len(h)) /\ u \o v = h
        /\ \A x \in Items(u) : deadline[x] <= now + i
        /\ \A x \in Items(v) : ~(deadline[x] <= now + i)
  <2>1. n \in Nat /\ Len(h) \in Nat /\ n <= Len(h)
    BY LenProperties
  <2>2. SubSeq(h, 1, n) \in Seq(Timer) /\ SubSeq(h, n + 1, Len(h)) \in Seq(Timer)
    BY <2>1, SubSeqProperties
  <2>3. SubSeq(h, 1, n) \o SubSeq(h, n + 1, Len(h)) = SubSeq(h, 1, Len(h))
    <3>1. 1 \in 1 .. Len(h) + 1 /\ n \in 1 - 1 .. Len(h) /\ Len(h) \in n .. Len(h)
      BY <2>1
    <3> QED BY <3>1, ConcatAdjacentSubSeq
  <2>4. SubSeq(h, 1, Len(h)) = h
    BY SubSeqFull
  <2>5. Len(SubSeq(h, 1, n)) = n /\ \A j \in 1 .. n : SubSeq(h, 1, n)[j] = h[j]
    BY <2>1, SubSeqProperties
  <2>6. /\ Len(SubSeq(h, n + 1, Len(h))) = Len(h) - n
        /\ \A j \in 1 .. Len(h) - n : SubSeq(h, n + 1, Len(h))[j] = h[n + j]
    BY <2>1, SubSeqProperties
  <2>7. \A x \in Items(SubSeq(h, 1, n)) : deadline[x] <= now + i
    <3>1. ASSUME NEW j \in 1 .. n PROVE deadline[h[j]] <= now + i
      BY <1>3, <2>1
    <3> QED BY <2>5, <3>1 DEF Items
  <2>8. \A x \in Items(SubSeq(h, n + 1, Len(h))) : ~(deadline[x] <= now + i)
    <3>1. ASSUME NEW j \in 1 .. Len(h) - n PROVE ~(deadline[h[n + j]] <= now + i)
      <4>1. n + j \in 1 .. Len(h) /\ ~(n + j <= n)
        BY <2>1
      <4> QED BY <1>3, <4>1
    <3> QED BY <2>6, <3>1 DEF Items
  <2> QED BY <2>2, <2>3, <2>4, <2>7, <2>8
<1>5. PICK o \in Seq(Timer) : o = <<k>> /\ Items(o) = {k} /\ Ordered(o, Later')
  <2>1. <<k>> \in Seq(Timer)
    OBVIOUS
  <2>2. Items(<<k>>) = {k} /\ Ordered(<<k>>, Later')
    BY OrderedOne
  <2> QED BY <2>1, <2>2
<1>6. PICK w \in Seq(Timer), p \in Seq(Timer), z \in Seq(Timer), y \in Seq(Timer) :
        /\ w = g \o u /\ p = w \o o /\ z = p \o v /\ z = g \o Held' /\ y = w \o v /\ y = g \o h
        /\ Held' \in Seq(Timer)
  <2>1. g \in C /\ u \in C /\ o \in C /\ v \in C
    BY <1>0
  <2>2. PICK w \in C, p \in C, z \in C, y \in C : Between(w, p, z, y, g, u, o, v)
    BY <1>a, <2>1
  <2>3. Held' = u \o o \o v /\ h = u \o v
    BY <1>3, <1>4, <1>5
  <2>4. w \in Seq(Timer) /\ p \in Seq(Timer) /\ z \in Seq(Timer) /\ y \in Seq(Timer)
    BY <1>0, <2>2
  <2>5. /\ w = g \o u /\ p = w \o o /\ z = p \o v /\ z = g \o Held' /\ y = w \o v /\ y = g \o h
    BY <2>2, <2>3 DEF Between
  <2>6. Held' \in Seq(Timer)
    <3>1. u \o o \in Seq(Timer)
      BY ConcatProperties
    <3> QED BY <2>3, <3>1, ConcatProperties
  <2> QED BY <2>4, <2>5, <2>6
<1>7. Ordered(y, Later) /\ Items(y) = {x \in Timer : deadline[x] # 0} /\ Items(y) \subseteq Timer
  BY <1>2, <1>6 DEF Lined
<1>8. Items(y) = Items(w) \cup Items(v) /\ Items(w) = Items(g) \cup Items(u)
  <2>1. Items(w \o v) = Items(w) \cup Items(v) /\ Items(g \o u) = Items(g) \cup Items(u)
    BY OrderedConcat
  <2> QED BY <1>6, <2>1
<1>9. /\ now \in Nat /\ i \in Nat /\ \A x \in Timer : deadline[x] \in Nat
      /\ \A x \in Timer : deadline'[x] = IF x = k THEN now + i ELSE deadline[x]
  BY <1>1, TimersAssumption DEF TypeOK, Deadline
<1>10. k \notin Items(y)
  BY <1>1, <1>7
<1>11. Ordered(y, Later')
  <2>1. ASSUME NEW a \in Items(y), NEW b \in Items(y), <<a, b>> \in Later' PROVE <<a, b>> \in Later
    BY <1>7, <1>9, <1>10, <2>1 DEF Later
  <2> QED BY <1>7, <2>1, OrderedAlike
<1>12. Ordered(w, Later') /\ Ordered(v, Later') /\ Apart(Items(w), Items(v), Later')
  BY <1>6, <1>11, OrderedParts
<1>13. \A x \in Items(w) : x # k /\ deadline[x] <= now + i
  <2>1. \A x \in Items(g) : deadline[x] <= now
    BY <1>2 DEF Lined
  <2>2. ASSUME NEW x \in Items(g) PROVE deadline[x] <= now + i
    <3>1. x \in Timer
      BY <1>7, <1>8
    <3> QED BY <1>9, <2>1, <3>1
  <2> QED BY <1>4, <1>8, <1>10, <2>2
<1>14. Apart(Items(w), Items(o), Later')
  <2>1. ASSUME NEW x \in Items(w) PROVE <<x, k>> \notin Later'
    <3>1. x \in Timer /\ x # k /\ deadline[x] <= now + i
      BY <1>7, <1>8, <1>13
    <3> QED BY <1>9, <3>1 DEF Later
  <2> QED BY <1>5, <2>1 DEF Apart
<1>15. Ordered(p, Later') /\ Items(p) = Items(w) \cup {k}
  <2>1. Ordered(w \o o, Later') /\ Items(w \o o) = Items(w) \cup Items(o)
    BY <1>5, <1>12, <1>14, OrderedConcat
  <2> QED BY <1>5, <1>6, <2>1
<1>16. Apart(Items(p), Items(v), Later')
  <2>1. ASSUME NEW x \in Items(v) PROVE <<k, x>> \notin Later'
    <3>1. x \in Timer /\ x # k /\ ~(deadline[x] <= now + i)
      BY <1>4, <1>7, <1>8, <1>10
    <3> QED BY <1>9, <3>1 DEF Later
  <2> QED BY <1>12, <1>15, <2>1 DEF Apart
<1>17. Ordered(z, Later') /\ Items(z) = Items(y) \cup {k}
  <2>1. Ordered(p \o v, Later') /\ Items(p \o v) = Items(p) \cup Items(v)
    BY <1>12, <1>15, <1>16, OrderedConcat, ZenonT(40)
  <2> QED BY <1>6, <1>8, <1>15, <2>1
<1>18. Items(z) = {x \in Timer : deadline'[x] # 0}
  <2>1. deadline'[k] # 0
    BY <1>9, TimersAssumption DEF TypeOK, Deadline
  <2> QED BY <1>7, <1>9, <1>17, <2>1
<1>19. Ordered(Gone \o Held, Later)' /\ Items(Gone \o Held)' = Items(z)
  BY <1>1, <1>2, <1>6, <1>17 DEF Ordered, Items
<1>20. (\A x \in Items(Gone) : deadline[x] <= now)'
  <2>1. ASSUME NEW x \in Items(g) PROVE deadline'[x] <= now
    <3>1. x \in Timer /\ x # k /\ deadline[x] <= now
      BY <1>2, <1>7, <1>8, <1>10 DEF Lined
    <3> QED BY <1>9, <3>1
  <2> QED BY <1>1, <1>2, <2>1 DEF Items
<1> QED BY <1>1, <1>2, <1>6, <1>18, <1>19, <1>20 DEF Lined

LEMMA LinedStep == TypeOK /\ Lined /\ [Abstract!Next]_(Abstract!vars) => Lined'
<1> SUFFICES ASSUME TypeOK, Lined, [Abstract!Next]_(Abstract!vars) PROVE Lined'
  OBVIOUS
<1>1. CASE Abstract!Tick
  <2>1. UNCHANGED <<Gone, Held, deadline>> /\ now' = now + 1
    BY <1>1, Zenon DEF Abstract!Tick, Gone, Held
  <2> QED BY <2>1, LinedTick
<1>2. CASE UNCHANGED Abstract!vars
  <2>1. UNCHANGED <<Gone, Held, deadline>> /\ now' = now
    BY <1>2, Zenon DEF Abstract!vars, Gone, Held
  <2> QED BY <2>1, LinedTick
<1> QED BY <1>1, <1>2, LinedLeave, LinedSet DEF Abstract!Next

LEMMA LinedHolds == Safe => [](TypeOK /\ Lined)
<1>1. TypeOK /\ OnTime /\ TypeOK' /\ [Next]_vars => [Abstract!Next]_(Abstract!vars)
  BY StepImplements DEF OnTime
<1> QED BY <1>1, LinedInit, LinedStep, OnTimeHolds, PTL DEF Safe

\* Tasks start in the order of their deadlines, each once and none too early
\* (Timer_service::complete_timers, timer.cpp:59-71).
THEOREM TimersRunInOrder == Safe => []RunsInOrder
<1>1. ASSUME TypeOK, Lined PROVE RunsInOrder
  <2>1. PICK g \in Seq(Timer), h \in Seq(Timer), r \in Seq(Timer), s \in Seq(Timer) :
          g = Gone /\ h = Held /\ r = ran /\ s = InQueue /\ g = r \o s
    BY <1>1, QueueTyping DEF Lined, Gone
  <2>2. Ordered(g \o h, Later)
    BY <1>1, <2>1 DEF Lined
  <2>3. Ordered(r, Later)
    <3>1. Ordered(g, Later)
      BY <2>2, OrderedParts
    <3>2. Ordered(r \o s, Later)
      BY <2>1, <3>1
    <3> QED BY <3>2, OrderedParts
  <2>4. Items(r) \subseteq Items(g) /\ DOMAIN r = 1 .. Len(r) /\ \A j \in 1 .. Len(r) : r[j] \in Timer
    <3>1. Items(r \o s) = Items(r) \cup Items(s)
      BY OrderedConcat
    <3>2. DOMAIN r = 1 .. Len(r) /\ \A j \in 1 .. Len(r) : r[j] \in Timer
      BY LenProperties
    <3> QED BY <2>1, <3>1, <3>2
  <2>5. ASSUME NEW j \in DOMAIN r PROVE deadline[r[j]] <= now
    BY <1>1, <2>1, <2>4 DEF Lined, Items
  <2>6. ASSUME NEW i \in DOMAIN r, NEW j \in DOMAIN r, i < j
        PROVE  r[i] # r[j] /\ deadline[r[i]] <= deadline[r[j]]
    <3>1. <<r[i], r[j]>> \notin Later
      BY <2>3, <2>4, <2>6 DEF Ordered
    <3>2. r[i] # r[j] /\ ~(deadline[r[j]] < deadline[r[i]])
      BY <2>4, <3>1 DEF Later
    <3>3. \A k \in Timer : deadline[k] \in Nat
      BY <1>1, TimersAssumption DEF TypeOK
    <3> QED BY <2>4, <3>2, <3>3
  <2> QED BY <2>1, <2>5, <2>6 DEF RunsInOrder
<1> QED BY <1>1, LinedHolds, PTL

\* The CPU sleeps past no timer, wherever it is: asleep, the CPU's queue is empty, so
\* that what has not run is in the map, whose first deadline the kernel is armed for
\* (CPU::run's sigsuspend, cpu.cpp:116-137, and rearm_timer_).
THEOREM NoDeadlineSleptThrough == Safe => []SleepsUntilDue
<1>1. ASSUME TypeOK, Lined, FiledRight, NoTimerForgotten, AsleepOK PROVE SleepsUntilDue
  <2> SUFFICES ASSUME pc[Me] = "asleep", NEW k \in Timer, deadline[k] # 0,
                      \A j \in DOMAIN ran : ran[j] # k
               PROVE  raised[Me] \/ (armed # 0 /\ armed <= deadline[k])
    BY DEF SleepsUntilDue
  <2>1. task_queue[Me] = <<>> /\ ~pending_signals[Me]
    BY <1>1 DEF AsleepOK
  <2>2. PICK g \in Seq(Timer), h \in Seq(Timer) : g = Gone /\ h = Held
    BY <1>1 DEF Lined
  <2>3. g = ran
    <3>1. Spelled(<<>>, TimersNamed) = <<>>
      <4>1. <<>> \in Seq(Task) /\ \A i \in 1 .. Len(<<>>) : TimersNamed[<<>>[i]] = <<>>
        BY EmptySeq
      <4> QED BY <4>1, TimersNamedType, SpelledNothing
    <3>2. InQueue = <<>> /\ ran \in Seq(Timer)
      BY <1>1, <2>1, <3>1, QueueTyping
    <3> QED BY <2>2, <3>2, ConcatEmptySeq DEF Gone
  <2>4. k \in Items(g) \cup Items(h)
    <3>1. k \in Items(g \o h)
      BY <1>1, <2>2 DEF Lined
    <3> QED BY <3>1, OrderedConcat
  <2>5. k \notin Items(g)
    BY <2>3, LenProperties DEF Items
  <2>6. k \in Items(Held)
    BY <2>2, <2>4, <2>5
  <2>7. Items(Held) \subseteq {x \in Timer : deadline[x] \in Entries}
    <3>1. PICK C : C = Seq(Timer)
      OBVIOUS
    <3>2. Horizon \in Nat /\ timers \in [1 .. Horizon -> C]
      BY <1>1, <3>1, TimersAssumption DEF TypeOK, Deadline
    <3>3. timers \in Seq(C) /\ Len(timers) = Horizon
      BY <3>2, SeqDef, LenProperties
    <3>4. ASSUME NEW d \in Deadline PROVE Items(timers[d]) \subseteq {x \in Timer : deadline[x] \in Entries}
      <4>1. timers[d] \in Seq(Timer)
        BY <1>1 DEF TypeOK
      <4>2. ASSUME NEW i \in 1 .. Len(timers[d]) PROVE timers[d][i] \in Timer /\ timers[d] # <<>>
        BY <4>1, LenProperties, EmptySeq
      <4>3. \A i \in 1 .. Len(timers[d]) : deadline[timers[d][i]] = d
        BY <1>1 DEF FiledRight
      <4> QED BY <4>2, <4>3 DEF Items, Entries
    <3> QED BY <3>1, <3>3, <3>4, FlattenItems DEF Held, Deadline
  <2>8. deadline[k] \in Entries
    BY <2>6, <2>7
  <2> QED BY <1>1, <2>1, <2>8 DEF NoTimerForgotten, HandlerComing
<1> QED BY <1>1, LinedHolds, OnTimeHolds, NoTimerIsForgotten, AsleepHolds, PTL DEF OnTime
=============================================================================
