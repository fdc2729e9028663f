---------------------------- MODULE PlacesProofs ----------------------------
(***************************************************************************)
(* CrossCpu: where each call is on its way, for any number of CPUs and     *)
(* calls and any size of the queues.  A call is in one place, the queues   *)
(* keep the order of the calls, an answer waits for the call it is made    *)
(* of, and the whole does what RemoteCalls promises.                       *)
(***************************************************************************)
EXTENDS CrossCpuProofs, QueueLemmas

-----------------------------------------------------------------------------
(* A ring with the deque behind it.                                        *)

LEMMA MoveOver ==
  ASSUME NEW S, NEW r \in Seq(S), NEW q \in Seq(S), q # <<>>
  PROVE  Append(r, Head(q)) \o Tail(q) = r \o q
<1>1. /\ Head(q) \in S /\ Tail(q) \in Seq(S) /\ <<Head(q)>> \in Seq(S) /\ Len(q) \in Nat \ {0}
  BY HeadTailProperties, EmptySeq
<1>2. Append(r, Head(q)) = r \o <<Head(q)>>
  BY <1>1, AppendIsConcat
<1>3. <<Head(q)>> \o Tail(q) = q
  <2>1. 1 \in 1 .. Len(q) /\ Len(q) \in 1 .. Len(q)
    BY <1>1
  <2>2. SubSeq(q, 1, Len(q)) = <<q[1]>> \o SubSeq(q, 2, Len(q))
    <3>1. SubSeq(q, 1, Len(q)) = <<q[1]>> \o SubSeq(q, 1 + 1, Len(q))
      BY <2>1, SubSeqRecursiveFirst
    <3> QED BY <3>1
  <2>3. SubSeq(q, 1, Len(q)) = q /\ Tail(q) = SubSeq(q, 2, Len(q)) /\ Head(q) = q[1]
    BY <1>1, SubSeqFull, TailIsSubSeq
  <2> QED BY <2>2, <2>3
<1>4. (r \o <<Head(q)>>) \o Tail(q) = r \o (<<Head(q)>> \o Tail(q))
  <2>1. Regroups(r, <<Head(q)>>, Tail(q))
    BY <1>1, ConcatRegroups
  <2> QED BY <2>1 DEF Regroups
<1> QED BY <1>2, <1>3, <1>4

LEMMA PushBehind ==
  ASSUME NEW S, NEW r \in Seq(S), NEW q \in Seq(S), NEW e \in S
  PROVE  r \o Append(q, e) = Append(r \o q, e)
<1>1. <<e>> \in Seq(S) /\ r \o q \in Seq(S)
  BY ConcatProperties
<1>2. Append(q, e) = q \o <<e>> /\ Append(r \o q, e) = (r \o q) \o <<e>>
  BY <1>1, AppendIsConcat
<1>3. (r \o q) \o <<e>> = r \o (q \o <<e>>)
  <2>1. Regroups(r, q, <<e>>)
    BY <1>1, ConcatRegroups
  <2> QED BY <2>1 DEF Regroups
<1> QED BY <1>2, <1>3

LEMMA CutInTwo ==
  ASSUME NEW S, NEW r \in Seq(S), NEW n \in 0 .. Len(r)
  PROVE  /\ SubSeq(r, 1, n) \in Seq(S) /\ SubSeq(r, n + 1, Len(r)) \in Seq(S)
         /\ SubSeq(r, 1, n) \o SubSeq(r, n + 1, Len(r)) = r
         /\ Len(SubSeq(r, 1, n)) = n
<1>1. Len(r) \in Nat /\ \A i \in 1 .. Len(r) : r[i] \in S
  BY LenProperties
<1>2. /\ 1 \in 1 .. Len(r) + 1 /\ n \in 0 .. Len(r) /\ Len(r) \in n .. Len(r)
      /\ 1 - 1 = 0 /\ n \in Int /\ n + 1 \in Int /\ Len(r) \in Int
  BY <1>1
<1>3. SubSeq(r, 1, n) \o SubSeq(r, n + 1, Len(r)) = SubSeq(r, 1, Len(r))
  BY <1>2, ConcatAdjacentSubSeq
<1>4. SubSeq(r, 1, Len(r)) = r
  BY SubSeqFull
<1>5. SubSeq(r, 1, n) \in Seq(S) /\ Len(SubSeq(r, 1, n)) = IF 1 <= n THEN n - 1 + 1 ELSE 0
  <2>1. \A i \in 1 .. n : r[i] \in S
    BY <1>1, <1>2
  <2> QED BY <1>2, <2>1, SubSeqProperties
<1>6. SubSeq(r, n + 1, Len(r)) \in Seq(S)
  <2>1. \A i \in n + 1 .. Len(r) : r[i] \in S
    BY <1>1, <1>2
  <2> QED BY <1>2, <2>1, SubSeqProperties
<1>7. Len(SubSeq(r, 1, n)) = n
  BY <1>2, <1>5
<1> QED BY <1>3, <1>4, <1>5, <1>6, <1>7

\* What is there once is there once in each part, and in one of the two.
LEMMA OnceSplit ==
  ASSUME NEW S, NEW q \in Seq(S), NEW s \in Seq(S), NEW A, NEW key, Once(q \o s, A, key)
  PROVE  /\ Once(q, A, key) /\ Once(s, A, key)
         /\ Keys(q, A, key) \cap Keys(s, A, key) = {}
<1> DEFINE p == q \o s
           m == Len(q)
           n == Len(s)
<1>1. m \in Nat /\ n \in Nat
  BY LenProperties
<1>2. Len(p) = m + n /\ \A j \in 1 .. m + n : p[j] = IF j <= m THEN q[j] ELSE s[j - m]
  BY ConcatProperties
<1> HIDE DEF p
<1>3. \A i \in 1 .. m : i \in 1 .. Len(p) /\ p[i] = q[i] /\ i \in Int
  BY <1>1, <1>2
<1>4. \A i \in 1 .. n : i + m \in 1 .. Len(p) /\ p[i + m] = s[i] /\ i \in Int
  <2> SUFFICES ASSUME NEW i \in 1 .. n PROVE i + m \in 1 .. Len(p) /\ p[i + m] = s[i] /\ i \in Int
    OBVIOUS
  <2>1. i + m \in 1 .. m + n /\ ~(i + m <= m) /\ i + m - m = i /\ i \in Int
    BY <1>1
  <2> QED BY <1>2, <2>1
<1>5. \A i, j \in 1 .. Len(p) : p[i] \in A /\ p[j] \in A /\ key[p[i]] = key[p[j]] => i = j
  BY DEF Once, p
<1>6. \A i, j \in 1 .. m : q[i] \in A /\ q[j] \in A /\ key[q[i]] = key[q[j]] => i = j
  BY <1>3, <1>5
<1>7. ASSUME NEW i \in 1 .. n, NEW j \in 1 .. n, s[i] \in A, s[j] \in A, key[s[i]] = key[s[j]]
      PROVE  i = j
  <2>1. i + m = j + m
    BY <1>4, <1>5, <1>7
  <2> QED BY <1>1, <1>4, <2>1
<1>8. ASSUME NEW i \in 1 .. m, NEW j \in 1 .. n, q[i] \in A, s[j] \in A, key[q[i]] = key[s[j]]
      PROVE  FALSE
  <2>1. i = j + m
    BY <1>3, <1>4, <1>5, <1>8
  <2> QED BY <1>1, <1>4, <2>1
<1>9. Once(q, A, key)
  BY <1>6 DEF Once
<1>10. Once(s, A, key)
  BY <1>7 DEF Once
<1>11. Keys(q, A, key) \cap Keys(s, A, key) = {}
  <2> SUFFICES ASSUME NEW x, x \in Keys(q, A, key), x \in Keys(s, A, key) PROVE FALSE
    OBVIOUS
  <2>1. PICK i \in 1 .. m : q[i] \in A /\ x = key[q[i]]
    BY DEF Keys
  <2>2. PICK j \in 1 .. n : s[j] \in A /\ x = key[s[j]]
    BY DEF Keys
  <2> QED BY <1>8, <2>1, <2>2
<1> QED BY <1>9, <1>10, <1>11

-----------------------------------------------------------------------------
(* What the operations do to a ring with the deque behind it.              *)

Line(l) == ring[l] \o buf[l]

LEMMA LineType ==
  ASSUME TypeOK, NEW l \in Lane
  PROVE  /\ ring[l] \in Seq(Call) /\ buf[l] \in Seq(Call) /\ Line(l) \in Seq(Call)
         /\ Len(ring[l]) \in Nat
BY ConcatProperties, LenProperties DEF TypeOK, Line

\* flush() does not change the order, wherever it stops.
LEMMA MoveLine ==
  ASSUME TypeOK, NEW l \in Lane, NEW q \in Seq(Call), q # <<>>, MoveOne(l, q)
  PROVE  /\ Line(l)' = ring[l] \o q
         /\ \A m \in Lane : m # l => Line(m)' = Line(m)
<1>1. /\ ring'[l] = Append(ring[l], Head(q)) /\ buf'[l] = Tail(q)
      /\ \A m \in Lane : m # l => ring'[m] = ring[m] /\ buf'[m] = buf[m]
  BY DEF MoveOne, TypeOK
<1>2. ring[l] \in Seq(Call)
  BY LineType
<1>3. Append(ring[l], Head(q)) \o Tail(q) = ring[l] \o q
  BY <1>2, MoveOver
<1> QED BY <1>1, <1>3 DEF Line

LEMMA FlushLine ==
  ASSUME TypeOK, NEW c \in Cpu, NEW l \in Lane, NEW q \in Seq(Call), BeginFlush(c, l, q)
  PROVE  /\ Line(l)' = ring[l] \o q
         /\ \A m \in Lane : m # l => Line(m)' = Line(m)
<1>1. CASE q # <<>> /\ HasRoom(l)
  BY <1>1, MoveLine DEF BeginFlush
<1>2. CASE ~(q # <<>> /\ HasRoom(l))
  BY <1>2 DEF BeginFlush, Line, TypeOK
<1> QED BY <1>1, <1>2

\* push() puts the call behind all others.
LEMMA PushLine ==
  ASSUME TypeOK, NEW c \in Cpu, NEW l \in Lane, NEW k \in Call, Push(c, l, k)
  PROVE  /\ Line(l)' = Append(Line(l), k)
         /\ \A m \in Lane : m # l => Line(m)' = Line(m)
<1> DEFINE q == Append(buf[l], k)
<1>1. ring[l] \in Seq(Call) /\ buf[l] \in Seq(Call)
  BY LineType
<1>2. q \in Seq(Call) /\ ring[l] \o q = Append(Line(l), k)
  <2>1. q \in Seq(Call)
    BY <1>1, AppendProperties
  <2>2. ring[l] \o Append(buf[l], k) = Append(ring[l] \o buf[l], k)
    <3> DEFINE b == buf[l]
               a == ring[l]
    <3>1. a \in Seq(Call) /\ b \in Seq(Call)
      BY <1>1
    <3> HIDE DEF a, b
    <3>2. a \o Append(b, k) = Append(a \o b, k)
      BY <3>1, PushBehind
    <3> QED BY <3>2 DEF a, b
  <2> QED BY <2>1, <2>2 DEF Line
<1>3. CASE Len(q) < FlushThreshold
  <2>1. buf' = [buf EXCEPT ![l] = q] /\ ring' = ring
    BY <1>3 DEF Push
  <2> HIDE DEF q
  <2> QED BY <1>2, <2>1 DEF Line, TypeOK
<1>4. CASE ~(Len(q) < FlushThreshold)
  <2>1. BeginFlush(c, l, q)
    BY <1>4 DEF Push
  <2> HIDE DEF q
  <2> QED BY <1>2, <2>1, FlushLine
<1> QED BY <1>3, <1>4

\* process() takes calls from the front.
LEMMA PopLine ==
  ASSUME TypeOK, NEW l \in Lane, Pop(l), buf' = buf
  PROVE  /\ Popped(l) \in Seq(Call) /\ Line(l)' \in Seq(Call)
         /\ Line(l) = Popped(l) \o Line(l)'
         /\ \A m \in Lane : m # l => Line(m)' = Line(m)
<1> DEFINE n == IF Len(ring[l]) < PopBatch THEN Len(ring[l]) ELSE PopBatch
           r == SubSeq(ring[l], n + 1, Len(ring[l]))
<1>1. ring[l] \in Seq(Call) /\ buf[l] \in Seq(Call) /\ Len(ring[l]) \in Nat
  BY LineType
<1>2. n \in 0 .. Len(ring[l])
  BY <1>1, CrossCpuAssumption
<1>3. Popped(l) = SubSeq(ring[l], 1, n)
  BY DEF Popped
<1> HIDE DEF n
<1>4. Popped(l) \in Seq(Call) /\ r \in Seq(Call) /\ Popped(l) \o r = ring[l] /\ Len(Popped(l)) = n
  BY <1>1, <1>2, <1>3, CutInTwo
<1>5. ring'[l] = r /\ \A m \in Lane : m # l => ring'[m] = ring[m]
  BY <1>4 DEF Pop, TypeOK
<1> HIDE DEF r
<1>6. Line(l)' = r \o buf[l] /\ r \o buf[l] \in Seq(Call)
  BY <1>1, <1>4, <1>5, ConcatProperties DEF Line
<1>7. (Popped(l) \o r) \o buf[l] = Popped(l) \o (r \o buf[l])
  <2> DEFINE d == Popped(l)
             b == buf[l]
  <2>1. d \in Seq(Call) /\ r \in Seq(Call) /\ b \in Seq(Call)
    BY <1>1, <1>4
  <2> HIDE DEF d, b
  <2>2. (d \o r) \o b = d \o (r \o b)
    <3>1. Regroups(d, r, b)
      BY <2>1, ConcatRegroups
    <3> QED BY <3>1 DEF Regroups
  <2> QED BY <2>2 DEF d, b
<1> QED BY <1>4, <1>5, <1>6, <1>7 DEF Line

-----------------------------------------------------------------------------
(* Where the calls are.                                                    *)

\* The tasks that are of a call, and the call.
CallTask == [kind : {"timer", "store", "respond"}, call : Call]
CallOf == [x \in CallTask |-> x.call]
Id == [k \in Call |-> k]

\* The answers on their way from t to o, in order.
OutboxOf(o, t) == IF o = t THEN <<>> ELSE ring[<<"rx", o, t>>] \o buf[<<"rx", o, t>>]

\* The calls that CPU c has: the one whose function is on its stack, those of its
\* tasks, and those whose function returned the future of a call of c's own.
Stack(c) == IF user[c] /\ handling[c] # <<>> THEN {Head(handling[c])} ELSE {}
TaskCalls(c) == Keys(task_queue[c], CallTask, CallOf)
Awaiting == {cont[j] : j \in {i \in Call : st[i] # "completed"}} \ {NoCall}

\* The places of a call whose function has been called.
UnderWay(k) ==
  LET c == Target[k] IN k \in Stack(c) \cup TaskCalls(c) \cup Items(expired[c]) \cup parked \cup Awaiting

\* What is in a queue is there once, and is at the stage that the queue is for.
Inboxes ==
  \A o, t \in Cpu : /\ Once(InboxOf(o, t), Call, Id)
                    /\ \A k \in Items(InboxOf(o, t)) :
                         st[k] = "submitted" /\ Origin[k] = o /\ Target[k] = t

Outboxes ==
  \A o, t \in Cpu : /\ Once(OutboxOf(o, t), Call, Id)
                    /\ \A k \in Items(OutboxOf(o, t)) :
                         st[k] = "responded" /\ Origin[k] = o /\ Target[k] = t

Queued ==
  \A c \in Cpu : /\ Once(task_queue[c], CallTask, CallOf)
                 /\ \A x \in Items(task_queue[c]) \cap CallTask :
                      /\ Target[x.call] = c
                      /\ st[x.call] = IF x.kind = "respond" THEN "stored" ELSE "executing"

\* A call that is not new and not completed is somewhere.
Present ==
  \A k \in Call :
    /\ st[k] \notin {"new", "completed"} => Origin[k] # Target[k]
    /\ st[k] = "submitted" => k \in Items(InboxOf(Origin[k], Target[k]))
    /\ st[k] = "responded" => k \in Items(OutboxOf(Origin[k], Target[k]))
    /\ st[k] = "stored" => TaskOf("respond", k) \in Items(task_queue[Target[k]])
    /\ st[k] = "executing" => UnderWay(k)

\* A call that is being executed is in one place.
Executing ==
  /\ \A c \in Cpu : /\ handling[c] # <<>> => pc[c] = "handle"
                    /\ \A k \in Stack(c) : st[k] = "executing" /\ Target[k] = c
                    /\ Once(expired[c], Call, Id)
                    /\ \A k \in Items(expired[c]) : st[k] = "executing" /\ Target[k] = c
                    /\ Stack(c) \cap (TaskCalls(c) \cup Items(expired[c]) \cup parked) = {}
                    /\ TaskCalls(c) \cap (Items(expired[c]) \cup parked \cup Awaiting) = {}
                    /\ Items(expired[c]) \cap (parked \cup Awaiting) = {}
  /\ \A k \in parked : st[k] = "executing" /\ k \notin Awaiting

\* A call waits for one call of its own CPU, which nobody else waits for.
Conts ==
  /\ \A i, j \in Call : cont[i] # NoCall /\ cont[i] = cont[j] => i = j
  /\ \A j \in Call : st[j] = "new" => cont[j] = NoCall
  /\ \A j \in Call : cont[j] # NoCall =>
       /\ st[cont[j]] \notin {"new", "submitted"} /\ \A c \in Cpu : cont[j] \notin Stack(c)
       /\ st[j] # "completed" => st[cont[j]] = "executing" /\ Target[cont[j]] = Origin[j]

\* The call that user code submitted last is under way.
Lasts ==
  \A c \in Cpu : user[c] /\ last[c] # NoCall =>
    Origin[last[c]] = c /\ st[last[c]] \notin {"new", "completed"} /\ cont[last[c]] = NoCall

InPlace == Inboxes /\ Outboxes /\ Queued /\ Present /\ Executing /\ Conts /\ Lasts

-----------------------------------------------------------------------------
(* What the sets above are made of.                                        *)

\* The calls CPU t has still to run: those it has popped, and then the lane's.
Before(o, t) == IF peer[t] = o THEN Unrun(t) ELSE <<>>

LEMMA InboxLine ==
  Typing => \A o, t \in Cpu : o # t =>
    /\ Unrun(t) \in Seq(Call) /\ Before(o, t) \in Seq(Call)
    /\ Line(<<"tx", o, t>>) \in Seq(Call) /\ InboxOf(o, t) \in Seq(Call)
    /\ InboxOf(o, t) = Before(o, t) \o Line(<<"tx", o, t>>)
<1> SUFFICES ASSUME Typing, NEW o \in Cpu, NEW t \in Cpu, o # t
             PROVE  /\ Unrun(t) \in Seq(Call) /\ Before(o, t) \in Seq(Call)
                    /\ Line(<<"tx", o, t>>) \in Seq(Call) /\ InboxOf(o, t) \in Seq(Call)
                    /\ InboxOf(o, t) = Before(o, t) \o Line(<<"tx", o, t>>)
  OBVIOUS
<1> DEFINE u == Before(o, t)
           l == <<"tx", o, t>>
           r == ring[l]
           b == buf[l]
<1>1. TypeOK /\ l \in Lane
  BY DEF Typing, Lane
<1>2. Unrun(t) \in Seq(Call)
  <2>1. handling[t] \in Seq(Call)
    BY <1>1 DEF TypeOK
  <2>2. handling[t] # <<>> => Tail(handling[t]) \in Seq(Call)
    BY <2>1, HeadTailProperties
  <2> QED BY <2>1, <2>2 DEF Unrun
<1>3. u \in Seq(Call)
  BY <1>2, EmptySeq DEF Before
<1>4. r \in Seq(Call) /\ b \in Seq(Call) /\ r \o b \in Seq(Call)
  <2> HIDE DEF l
  <2> QED BY <1>1, LineType DEF Line
<1>5. InboxOf(o, t) = (u \o r) \o b
  BY DEF InboxOf, Before
<1>6. Line(l) = r \o b
  BY DEF Line
<1> HIDE DEF u, r, b, l
<1>7. (u \o r) \o b = u \o (r \o b) /\ u \o (r \o b) \in Seq(Call)
  BY <1>3, <1>4, ConcatAssociative, ConcatProperties
<1>8. u \in Seq(Call) /\ Line(l) \in Seq(Call) /\ InboxOf(o, t) = u \o Line(l) /\ InboxOf(o, t) \in Seq(Call)
  BY <1>3, <1>4, <1>5, <1>6, <1>7
<1> QED BY <1>2, <1>8 DEF u, l

\* The same after a step.
LEMMA InboxLineNext ==
  Typing' => (\A o, t \in Cpu : o # t =>
    /\ Unrun(t) \in Seq(Call) /\ Before(o, t) \in Seq(Call)
    /\ Line(<<"tx", o, t>>) \in Seq(Call) /\ InboxOf(o, t) \in Seq(Call)
    /\ InboxOf(o, t) = Before(o, t) \o Line(<<"tx", o, t>>))'
BY InboxLine, PTL

LEMMA OutboxLine ==
  Typing => \A o, t \in Cpu : o # t =>
    /\ OutboxOf(o, t) = Line(<<"rx", o, t>>)
    /\ OutboxOf(o, t) \in Seq(Call)
<1> SUFFICES ASSUME Typing, NEW o \in Cpu, NEW t \in Cpu, o # t
             PROVE  OutboxOf(o, t) = Line(<<"rx", o, t>>) /\ OutboxOf(o, t) \in Seq(Call)
  OBVIOUS
<1> DEFINE l == <<"rx", o, t>>
<1>1. TypeOK /\ l \in Lane
  BY DEF Typing, Lane
<1>2. OutboxOf(o, t) = Line(l)
  BY DEF OutboxOf, Line
<1> HIDE DEF l
<1>3. Line(l) \in Seq(Call)
  BY <1>1, LineType
<1> QED BY <1>2, <1>3 DEF l

LEMMA OutboxLineNext ==
  Typing' => (\A o, t \in Cpu : o # t =>
    /\ OutboxOf(o, t) = Line(<<"rx", o, t>>)
    /\ OutboxOf(o, t) \in Seq(Call))'
BY OutboxLine, PTL

\* A CPU has no calls on its way to itself.
LEMMA NoneToItself ==
  \A o \in Cpu : /\ InboxOf(o, o) = <<>> /\ InboxOf(o, o)' = <<>>
                 /\ OutboxOf(o, o) = <<>> /\ OutboxOf(o, o)' = <<>>
BY DEF InboxOf, OutboxOf

LEMMA ItemsOfNone == Items(<<>>) = {} /\ Once(<<>>, Call, Id)
BY ItemsEmpty, OnceEmpty

\* When a queue of calls has each call once.
LEMMA KeysOfCalls ==
  ASSUME NEW q \in Seq(Call)
  PROVE  Keys(q, Call, Id) = Items(q) /\ Items(q) \subseteq Call
<1>1. Items(q) \subseteq Call
  BY ItemsType
<1>2. Keys(q, Call, Id) = {Id[x] : x \in Items(q) \cap Call}
  BY KeysOfItems
<1> QED BY <1>1, <1>2 DEF Id

\* The call whose function runs is at the head of those popped.
LEMMA StackFacts ==
  ASSUME TypeOK, NEW c \in Cpu
  PROVE  Stack(c) \subseteq Call
BY HeadTailProperties DEF Stack, TypeOK

LEMMA TaskCallsFacts ==
  ASSUME TypeOK, NEW c \in Cpu
  PROVE  /\ TaskCalls(c) = {x.call : x \in Items(task_queue[c]) \cap CallTask}
         /\ TaskCalls(c) \subseteq Call
<1>1. TaskCalls(c) = {CallOf[x] : x \in Items(task_queue[c]) \cap CallTask}
  BY KeysOfItems DEF TaskCalls
<1> QED BY <1>1 DEF CallOf, CallTask

-----------------------------------------------------------------------------
(* The steps that leave every call where it is.                            *)

\* A queue of tasks loses and gets tasks that are of no call.
TasksKept(q, r) ==
  /\ Once(q, CallTask, CallOf) => Once(r, CallTask, CallOf)
  /\ Items(r) \cap CallTask = Items(q) \cap CallTask

Still ==
  /\ st' = st /\ cont' = cont /\ parked' = parked /\ expired' = expired
  /\ \A o, t \in Cpu : InboxOf(o, t)' = InboxOf(o, t) /\ OutboxOf(o, t)' = OutboxOf(o, t)
  /\ \A c \in Cpu : /\ Stack(c)' = Stack(c)
                    /\ handling'[c] # <<>> => pc'[c] = "handle"
                    /\ user'[c] /\ last'[c] # NoCall => user[c] /\ last'[c] = last[c]
                    /\ TasksKept(task_queue[c], task_queue'[c])

LEMMA StillKeeps ==
  ASSUME Typing, InPlace, Still, Typing'
  PROVE  InPlace'
<1>1. \A c \in Cpu : /\ Stack(c)' = Stack(c) /\ TaskCalls(c)' = TaskCalls(c)
                     /\ Once(task_queue'[c], CallTask, CallOf)
                     /\ Items(task_queue'[c]) \cap CallTask = Items(task_queue[c]) \cap CallTask
                     /\ handling'[c] # <<>> => pc'[c] = "handle"
  <2> SUFFICES ASSUME NEW c \in Cpu
               PROVE  /\ Stack(c)' = Stack(c) /\ TaskCalls(c)' = TaskCalls(c)
                      /\ Once(task_queue'[c], CallTask, CallOf)
                      /\ Items(task_queue'[c]) \cap CallTask = Items(task_queue[c]) \cap CallTask
                      /\ handling'[c] # <<>> => pc'[c] = "handle"
    OBVIOUS
  <2>1. TasksKept(task_queue[c], task_queue'[c]) /\ Once(task_queue[c], CallTask, CallOf)
    BY DEF Still, InPlace, Queued
  <2>2. TaskCalls(c)' = TaskCalls(c)
    <3>1. TaskCalls(c) = {CallOf[x] : x \in Items(task_queue[c]) \cap CallTask}
      BY KeysOfItems DEF TaskCalls
    <3>2. TaskCalls(c)' = {CallOf[x] : x \in Items(task_queue'[c]) \cap CallTask}
      BY KeysOfItems DEF TaskCalls
    <3> QED BY <2>1, <3>1, <3>2 DEF TasksKept
  <2> QED BY <2>1, <2>2 DEF Still, TasksKept
<1>2. st' = st /\ cont' = cont /\ parked' = parked /\ expired' = expired /\ Awaiting' = Awaiting
  BY DEF Still, Awaiting
<1>3. Inboxes'
  BY <1>2 DEF InPlace, Inboxes, Still
<1>4. Outboxes'
  BY <1>2 DEF InPlace, Outboxes, Still
<1>5. Queued'
  BY <1>1, <1>2 DEF InPlace, Queued
<1>6. Present'
  <2>1. \A k \in Call : TaskOf("respond", k) \in CallTask /\ Origin[k] \in Cpu /\ Target[k] \in Cpu
    BY CrossCpuAssumption DEF TaskOf, CallTask
  <2>2. \A k \in Call : /\ InboxOf(Origin[k], Target[k])' = InboxOf(Origin[k], Target[k])
                        /\ OutboxOf(Origin[k], Target[k])' = OutboxOf(Origin[k], Target[k])
                        /\ Items(task_queue'[Target[k]]) \cap CallTask
                             = Items(task_queue[Target[k]]) \cap CallTask
    BY <1>1, <2>1 DEF Still
  <2>3. \A k \in Call : UnderWay(k)' <=> UnderWay(k)
    BY <1>1, <1>2, <2>1 DEF UnderWay
  <2> QED BY <1>2, <2>1, <2>2, <2>3 DEF InPlace, Present
<1>7. Executing'
  BY <1>1, <1>2 DEF InPlace, Executing
<1>8. Conts'
  BY <1>1, <1>2 DEF InPlace, Conts
<1>9. Lasts'
  <2>1. \A c \in Cpu : user'[c] /\ last'[c] # NoCall => user[c] /\ last'[c] = last[c]
    BY DEF Still
  <2> QED BY <1>2, <2>1 DEF InPlace, Lasts
<1> QED BY <1>3, <1>4, <1>5, <1>6, <1>7, <1>8, <1>9 DEF InPlace

LEMMA KeptSame == \A q : TasksKept(q, q)
BY DEF TasksKept

\* A task of user code comes or goes.
LEMMA KeptAppend ==
  ASSUME NEW q \in Seq(Task)
  PROVE  TasksKept(q, q \o <<UserTask>>) /\ TasksKept(q, q \o <<>>)
<1>1. UserTask \in Task /\ UserTask \notin CallTask
  BY DEF UserTask, Task, CallTask
<1>2. q \o <<>> = q
  BY ConcatEmptySeq
<1>3. q \o <<UserTask>> = Append(q, UserTask)
  BY <1>1, AppendIsConcat
<1> DEFINE u == UserTask
<1> HIDE DEF u
<1>4. Items(Append(q, u)) = Items(q) \cup {u}
  BY <1>1, OrderedAppend DEF u
<1>5. Once(q, CallTask, CallOf) => Once(Append(q, u), CallTask, CallOf)
  <2>1. u \in Task /\ u \notin CallTask
    BY <1>1 DEF u
  <2> QED BY <2>1, OnceAppend
<1>6. TasksKept(q, Append(q, u))
  BY <1>1, <1>4, <1>5 DEF TasksKept, u
<1> QED BY <1>2, <1>3, <1>6, KeptSame DEF u

LEMMA KeptTail ==
  ASSUME NEW q \in Seq(Task), q # <<>>, Head(q).kind = "user"
  PROVE  TasksKept(q, Tail(q) \o <<>>)
<1>1. /\ Tail(q) \in Seq(Task)
      /\ Once(q, CallTask, CallOf) => Once(Tail(q), CallTask, CallOf)
  BY OnceTail, HeadTailProperties
<1>2. Items(q) = {Head(q)} \cup Items(Tail(q))
  BY OrderedTail
<1>3. Head(q) \notin CallTask
  BY DEF CallTask
<1>4. Tail(q) \o <<>> = Tail(q)
  BY <1>1, ConcatEmptySeq
<1> QED BY <1>1, <1>2, <1>3, <1>4 DEF TasksKept

\* What has to be shown of a step for every call to stay where it is.
LEMMA StillIf ==
  ASSUME Typing, Typing', Executing,
         st' = st, cont' = cont, parked' = parked, expired' = expired, handling' = handling,
         \A l \in Lane : Line(l)' = Line(l),
         \A p \in Cpu : handling[p] # <<>> /\ pc[p] = "handle" => pc'[p] = "handle",
         \A p \in Cpu : handling[p] # <<>> => peer'[p] = peer[p] /\ user'[p] = user[p],
         \A p \in Cpu : user'[p] /\ last'[p] # NoCall => user[p] /\ last'[p] = last[p],
         \A p \in Cpu : TasksKept(task_queue[p], task_queue'[p])
  PROVE  Still
<1>1. \A p \in Cpu : Unrun(p)' = Unrun(p) /\ Stack(p)' = Stack(p)
  BY DEF Unrun, Stack
<1>2. \A o, p \in Cpu : Before(o, p)' = Before(o, p)
  <2> SUFFICES ASSUME NEW o \in Cpu, NEW p \in Cpu PROVE Before(o, p)' = Before(o, p)
    OBVIOUS
  <2>1. CASE handling[p] = <<>>
    <3>1. Unrun(p) = <<>>
      BY <2>1 DEF Unrun
    <3> QED BY <1>1, <3>1 DEF Before
  <2>2. CASE handling[p] # <<>>
    BY <1>1, <2>2 DEF Before
  <2> QED BY <2>1, <2>2
<1>3. \A o, t \in Cpu : <<"tx", o, t>> \in Lane /\ <<"rx", o, t>> \in Lane
  BY DEF Lane
<1>4. ASSUME NEW o \in Cpu, NEW t \in Cpu
      PROVE  InboxOf(o, t)' = InboxOf(o, t) /\ OutboxOf(o, t)' = OutboxOf(o, t)
  <2>1. CASE o = t
    BY <2>1, NoneToItself
  <2>2. CASE o # t
    <3>1. InboxOf(o, t) = Before(o, t) \o Line(<<"tx", o, t>>)
      BY <2>2, InboxLine
    <3>2. InboxOf(o, t)' = Before(o, t)' \o Line(<<"tx", o, t>>)'
      BY <2>2, InboxLineNext
    <3>3. OutboxOf(o, t) = Line(<<"rx", o, t>>)
      BY <2>2, OutboxLine
    <3>4. OutboxOf(o, t)' = Line(<<"rx", o, t>>)'
      BY <2>2, OutboxLineNext
    <3>5. Line(<<"tx", o, t>>)' = Line(<<"tx", o, t>>) /\ Line(<<"rx", o, t>>)' = Line(<<"rx", o, t>>)
      BY <1>3
    <3> QED BY <1>2, <3>1, <3>2, <3>3, <3>4, <3>5
  <2> QED BY <2>1, <2>2
<1>5. \A p \in Cpu : handling'[p] # <<>> => pc'[p] = "handle"
  BY DEF Executing
<1> QED BY <1>1, <1>4, <1>5 DEF Still

LEMMA SameLines ==
  ASSUME ring' = ring, buf' = buf
  PROVE  \A l \in Lane : Line(l)' = Line(l)
BY DEF Line

\* What the loop does by itself.
LEMMA StillReactor ==
  ASSUME Typing, Typing', InPlace, NEW c \in Cpu,
         \/ Boot(c) \/ Signal(c) \/ IdleOrRun(c) \/ NextRound(c) \/ Sleep(c)
  PROVE  Still
<1>1. /\ task_queue' = task_queue /\ UNCHANGED crossVars
      /\ \A p \in Cpu : pc[p] = "handle" => pc'[p] = "handle"
  <2>0. pc \in [Cpu -> Labels]
    BY DEF Typing, TypeOK
  <2>1. CASE Boot(c)
    BY <2>0, <2>1 DEF Boot, InitPollers, Goto
  <2>2. CASE Signal(c)
    BY <2>0, <2>2 DEF Signal, Deliver
  <2>3. CASE IdleOrRun(c)
    BY <2>0, <2>3 DEF IdleOrRun, Decide, Goto
  <2>4. CASE NextRound(c)
    BY <2>0, <2>4 DEF NextRound, EndBatch, Goto
  <2>5. CASE Sleep(c)
    BY <2>0, <2>5 DEF Sleep, CheckPending, Goto
  <2> QED BY <2>1, <2>2, <2>3, <2>4, <2>5
<1>2. /\ st' = st /\ cont' = cont /\ parked' = parked /\ expired' = expired /\ handling' = handling
      /\ ring' = ring /\ buf' = buf /\ peer' = peer /\ user' = user /\ last' = last
  BY <1>1 DEF crossVars
<1>3. \A l \in Lane : Line(l)' = Line(l)
  BY <1>2, SameLines
<1>4. \A p \in Cpu : TasksKept(task_queue[p], task_queue'[p])
  BY <1>1, KeptSame
<1>5. Executing
  BY DEF InPlace
<1> QED BY <1>1, <1>2, <1>3, <1>4, <1>5, StillIf

\* The start-up puts the program into the queue of CPU 0.
LEMMA StillStart ==
  ASSUME Typing, Typing', InPlace, NEW c \in Cpu, Start(c)
  PROVE  Still
<1>0. TypeOK /\ pc \in [Cpu -> Labels] /\ task_queue \in [Cpu -> Seq(Task)]
  BY DEF Typing, TypeOK
<1>1. /\ st' = st /\ cont' = cont /\ parked' = parked /\ expired' = expired /\ handling' = handling
      /\ ring' = ring /\ buf' = buf /\ peer' = peer /\ user' = user /\ last' = last
  BY DEF Start, crossVars
<1>2. \A p \in Cpu : pc[p] = "handle" => pc'[p] = "handle"
  BY <1>0, StartFacts DEF Starting, Latch
<1>3. \A p \in Cpu : TasksKept(task_queue[p], task_queue'[p])
  <2>1. \/ task_queue' = task_queue
        \/ Schedule(c, IF c = 0 THEN <<UserTask>> ELSE <<>>)
    BY DEF Start, StartUp, Construct, Arrive, Proceed, Build, Started, startVars
  <2>2. task_queue[c] \in Seq(Task)
    BY <1>0
  <2>3. \/ task_queue' = task_queue
        \/ task_queue'[c] = task_queue[c] \o <<UserTask>>
        \/ task_queue'[c] = task_queue[c] \o <<>>
    BY <1>0, <2>1 DEF Schedule
  <2>4. \A p \in Cpu : p # c => task_queue'[p] = task_queue[p]
    BY <1>0, StartFacts
  <2>5. TasksKept(task_queue[c], task_queue'[c])
    BY <2>2, <2>3, KeptAppend, KeptSame
  <2> QED BY <2>4, <2>5, KeptSame
<1>4. \A l \in Lane : Line(l)' = Line(l)
  BY <1>1, SameLines
<1>5. Executing
  BY DEF InPlace
<1> QED BY <1>1, <1>2, <1>3, <1>4, <1>5, StillIf

\* The loop of poll_queues: nothing popped is left when it goes to the next peer.
LEMMA StillPoll ==
  ASSUME Typing, Typing', InPlace, NEW c \in Cpu,
         \/ NextPeer(c)
         \/ /\ PollSignals(c) /\ expired' = expired /\ task_queue' = task_queue
  PROVE  Still
<1>0. /\ pc \in [Cpu -> Labels] /\ peer \in [Cpu -> 0 .. N] /\ Executing
      /\ \A p \in Cpu : handling[p] # <<>> => pc[p] = "handle"
  BY DEF Typing, TypeOK, InPlace, Executing
<1>1. /\ st' = st /\ cont' = cont /\ parked' = parked /\ expired' = expired /\ handling' = handling
      /\ ring' = ring /\ buf' = buf /\ user' = user /\ last' = last /\ task_queue' = task_queue
      /\ handling[c] = <<>>
      /\ \A p \in Cpu : p # c => peer'[p] = peer[p] /\ pc'[p] = pc[p]
  <2>1. CASE NextPeer(c)
    BY <1>0, <2>1 DEF NextPeer, Goto, otherVars
  <2>2. CASE PollSignals(c) /\ expired' = expired /\ task_queue' = task_queue
    <3>1. pc[c] # "handle"
      BY <2>2 DEF PollSignals, LoadSignals, ClearSignals
    <3>2. \A p \in Cpu : p # c => peer'[p] = peer[p] /\ pc'[p] = pc[p]
      BY <1>0, <2>2 DEF PollSignals, LoadSignals, ClearSignals, Goto
    <3> QED BY <1>0, <2>2, <3>1, <3>2 DEF PollSignals, otherVars
  <2> QED BY <2>1, <2>2
<1>2. \A p \in Cpu : handling[p] # <<>> => peer'[p] = peer[p] /\ user'[p] = user[p]
  BY <1>1
<1>3. \A l \in Lane : Line(l)' = Line(l)
  BY <1>1, SameLines
<1>4. \A p \in Cpu : TasksKept(task_queue[p], task_queue'[p])
  BY <1>1, KeptSame
<1>5. \A p \in Cpu : handling[p] # <<>> /\ pc[p] = "handle" => pc'[p] = "handle"
  BY <1>1
<1> QED BY <1>0, <1>1, <1>2, <1>3, <1>4, <1>5, StillIf
\* flush() moves calls on, in their order.
LEMMA StillFlush ==
  ASSUME Typing, Typing', InPlace, NEW c \in Cpu,
         FlushMore(c) \/ FlushEnd(c) \/ PollFlush(c)
  PROVE  Still
<1>0. TypeOK /\ pc \in [Cpu -> Labels] /\ Executing
  BY DEF Typing, TypeOK, InPlace
<1>1. /\ st' = st /\ cont' = cont /\ parked' = parked /\ expired' = expired /\ handling' = handling
      /\ peer' = peer /\ user' = user /\ last' = last /\ task_queue' = task_queue
  BY DEF FlushMore, FlushEnd, PollFlush, reactorVars
<1>2. \A p \in Cpu : pc[p] = "handle" => pc'[p] = "handle"
  BY <1>0 DEF FlushMore, FlushEnd, PollFlush, Goto, reactorVars
<1>3. \A l \in Lane : Line(l)' = Line(l)
  <2>1. CASE FlushMore(c)
    <3>1. flushing[c] \in Lane
      BY <1>0, <2>1 DEF FlushMore, TypeOK
    <3>2. PICK l \in Lane : l = flushing[c]
      BY <3>1
    <3>3. PICK q : q = buf[l]
      OBVIOUS
    <3>4. q \in Seq(Call) /\ q # <<>> /\ MoveOne(l, q)
      BY <1>0, <2>1, <3>2, <3>3, LineType DEF FlushMore
    <3>5. Line(l)' = ring[l] \o q /\ \A m \in Lane : m # l => Line(m)' = Line(m)
      BY <1>0, <3>4, MoveLine
    <3> QED BY <3>3, <3>5 DEF Line
  <2>2. CASE FlushEnd(c)
    BY <2>2, SameLines DEF FlushEnd
  <2>3. CASE PollFlush(c)
    <3>1. PolledLane(c) \in Lane
      BY <2>3, PolledLaneType DEF PollFlush
    <3>2. PICK l \in Lane : l = PolledLane(c)
      BY <3>1
    <3>3. PICK q : q = buf[l]
      OBVIOUS
    <3>4. q \in Seq(Call) /\ BeginFlush(c, l, q)
      BY <1>0, <2>3, <3>2, <3>3, LineType DEF PollFlush
    <3>5. Line(l)' = ring[l] \o q /\ \A m \in Lane : m # l => Line(m)' = Line(m)
      BY <1>0, <3>4, FlushLine
    <3> QED BY <3>3, <3>5 DEF Line
  <2> QED BY <2>1, <2>2, <2>3
<1>4. \A p \in Cpu : TasksKept(task_queue[p], task_queue'[p])
  BY <1>1, KeptSame
<1> QED BY <1>0, <1>1, <1>2, <1>3, <1>4, StillIf

\* User code starts in a task of its own, and ends.
LEMMA StillUser ==
  ASSUME Typing, Typing', InPlace, NEW c \in Cpu,
         \/ TaskReturns(c)
         \/ RunTask(c) /\ RunUser(c)
  PROVE  Still
<1>0. /\ TypeOK /\ Executing /\ user \in [Cpu -> BOOLEAN] /\ last \in [Cpu -> Call \cup {NoCall}]
      /\ task_queue \in [Cpu -> Seq(Task)] /\ pc[c] = "tasks" /\ handling[c] = <<>>
  <2>1. TypeOK /\ Executing /\ pc[c] = "tasks"
    BY DEF Typing, InPlace, TaskReturns, RunUser, TakeTask
  <2> QED BY <2>1 DEF TypeOK, Executing
<1>1. /\ st' = st /\ cont' = cont /\ parked' = parked /\ expired' = expired /\ handling' = handling
      /\ ring' = ring /\ buf' = buf /\ peer' = peer /\ pc' = pc
  BY DEF TaskReturns, RunTask, RunUser, reactorVars
<1>2. /\ \A p \in Cpu : p # c => user'[p] = user[p] /\ last'[p] = last[p]
      /\ user'[c] => last'[c] = NoCall
  BY <1>0 DEF TaskReturns, RunTask, RunUser
<1>3. \A l \in Lane : Line(l)' = Line(l)
  BY <1>1, SameLines
<1>4. \A p \in Cpu : TasksKept(task_queue[p], task_queue'[p])
  <2>1. CASE TaskReturns(c)
    BY <2>1, KeptSame DEF TaskReturns, reactorVars
  <2>2. CASE RunTask(c) /\ RunUser(c)
    <3>1. /\ task_queue[c] \in Seq(Task) /\ task_queue[c] # <<>> /\ Head(task_queue[c]).kind = "user"
          /\ task_queue'[c] = Tail(task_queue[c]) \o <<>>
          /\ \A p \in Cpu : p # c => task_queue'[p] = task_queue[p]
      BY <1>0, <2>2 DEF RunUser, TakeTask
    <3>2. TasksKept(task_queue[c], task_queue'[c])
      BY <3>1, KeptTail
    <3> QED BY <3>1, <3>2, KeptSame
  <2> QED BY <2>1, <2>2
<1>5. \A p \in Cpu : handling[p] # <<>> => peer'[p] = peer[p] /\ user'[p] = user[p]
  BY <1>0, <1>1, <1>2
<1>6. \A p \in Cpu : user'[p] /\ last'[p] # NoCall => user[p] /\ last'[p] = last[p]
  BY <1>2
<1> QED BY <1>0, <1>1, <1>3, <1>4, <1>5, <1>6, StillIf

\* The calls that are popped stay at the front, in the hands of the CPU.
LEMMA StillPopped ==
  ASSUME Typing, Typing', InPlace, NEW c \in Cpu, PollTx(c)
  PROVE  Still
<1>a. TypeOK /\ Executing /\ UserOK /\ peer[c] \in Cpu \ {c} /\ PolledLane(c) = <<"tx", peer[c], c>>
  BY PolledLaneType DEF Typing, InPlace, PollTx
<1>b. PICK q \in Cpu \ {c} : q = peer[c]
  BY <1>a
<1> DEFINE l == <<"tx", q, c>>
<1>c. PICK d : d = Popped(l)
  OBVIOUS
<1>0. TypeOK /\ Executing /\ UserOK /\ l \in Lane /\ l = PolledLane(c)
  BY <1>a, <1>b DEF Lane
<1>1. /\ st' = st /\ cont' = cont /\ parked' = parked /\ expired' = expired
      /\ buf' = buf /\ peer' = peer /\ user' = user /\ last' = last /\ task_queue' = task_queue
      /\ handling'[c] = d /\ pc'[c] = "handle" /\ pc[c] = "poll_tx" /\ Pop(l)
      /\ \A p \in Cpu : p # c => handling'[p] = handling[p] /\ pc'[p] = pc[p]
  BY <1>0, <1>c DEF PollTx, Goto, TypeOK
<1>2. ~user[c] /\ handling[c] = <<>>
  BY <1>0, <1>1 DEF UserOK, Executing
<1> HIDE DEF l
<1>3. /\ d \in Seq(Call) /\ Line(l)' \in Seq(Call) /\ Line(l) = d \o Line(l)'
      /\ \A m \in Lane : m # l => Line(m)' = Line(m)
  BY <1>0, <1>1, <1>c, PopLine
<1>4. /\ \A p \in Cpu : Stack(p)' = Stack(p)
      /\ \A p \in Cpu : p # c => Unrun(p)' = Unrun(p)
      /\ Unrun(c) = <<>> /\ Unrun(c)' = d
  BY <1>1, <1>2 DEF Stack, Unrun
<1>5. ASSUME NEW o \in Cpu, NEW t \in Cpu
      PROVE  InboxOf(o, t)' = InboxOf(o, t) /\ OutboxOf(o, t)' = OutboxOf(o, t)
  <2>1. CASE o = t
    BY <2>1, NoneToItself
  <2>2. CASE o # t
    <3> DEFINE r == <<"rx", o, t>>
               m == <<"tx", o, t>>
    <3>1. r \in Lane /\ m \in Lane /\ r # l /\ (m = l <=> o = q /\ t = c)
      BY <1>0 DEF Lane, l
    <3>2. OutboxOf(o, t) = Line(r) /\ OutboxOf(o, t)' = Line(r)'
      BY <2>2, OutboxLine, OutboxLineNext
    <3>3. /\ InboxOf(o, t) = Before(o, t) \o Line(m)
          /\ InboxOf(o, t)' = Before(o, t)' \o Line(m)'
          /\ Line(m) \in Seq(Call)
      BY <2>2, InboxLine, InboxLineNext
    <3> HIDE DEF r, m
    <3>4. CASE o = q /\ t = c
      <4>1. Before(o, t) = <<>> /\ Before(o, t)' = d
        BY <1>1, <1>4, <1>b, <3>4 DEF Before
      <4>2. <<>> \o Line(m) = Line(m)
        BY <3>3, ConcatEmptySeq
      <4> QED BY <1>3, <3>1, <3>2, <3>3, <3>4, <4>1, <4>2
    <3>5. CASE ~(o = q /\ t = c)
      <4>1. Before(o, t)' = Before(o, t)
        BY <1>1, <1>4, <1>b, <3>5 DEF Before
      <4> QED BY <1>3, <3>1, <3>2, <3>3, <3>5, <4>1
    <3> QED BY <3>4, <3>5
  <2> QED BY <2>1, <2>2
<1>6. \A p \in Cpu : handling'[p] # <<>> => pc'[p] = "handle"
  BY <1>0, <1>1 DEF Executing
<1>7. \A p \in Cpu : TasksKept(task_queue[p], task_queue'[p])
  BY <1>1, KeptSame
<1> QED BY <1>1, <1>4, <1>5, <1>6, <1>7 DEF Still

-----------------------------------------------------------------------------
(* The tasks of calls.                                                     *)

\* Nothing is pushed, popped, begun or finished.
LEMMA SameBoxes ==
  ASSUME ring' = ring, buf' = buf, peer' = peer, handling' = handling, user' = user
  PROVE  /\ \A o, t \in Cpu : InboxOf(o, t)' = InboxOf(o, t) /\ OutboxOf(o, t)' = OutboxOf(o, t)
         /\ \A c \in Cpu : Stack(c)' = Stack(c)
BY DEF InboxOf, OutboxOf, Unrun, Stack

LEMMA BoxItems ==
  ASSUME Typing, NEW o \in Cpu, NEW t \in Cpu
  PROVE  Items(InboxOf(o, t)) \subseteq Call /\ Items(OutboxOf(o, t)) \subseteq Call
<1>1. CASE o = t
  BY <1>1, NoneToItself, ItemsOfNone
<1>2. CASE o # t
  BY <1>2, InboxLine, OutboxLine, ItemsType
<1> QED BY <1>1, <1>2

LEMMA CallTaskFacts ==
  /\ \A kind \in {"timer", "store", "respond"}, k \in Call :
       /\ TaskOf(kind, k) \in CallTask /\ TaskOf(kind, k).call = k /\ TaskOf(kind, k).kind = kind
  /\ CallTask \subseteq Task
  /\ \A x \in Task : x.kind # "user" => x \in CallTask
  /\ \A x \in CallTask : /\ x.call \in Call /\ CallOf[x] = x.call
                         /\ x.kind \in {"timer", "store", "respond"}
BY DEF TaskOf, CallTask, Task, CallOf, UserTask

\* The task at the head leaves: no other task is of its call.
LEMMA HeadOfCall ==
  ASSUME NEW q \in Seq(Task), q # <<>>, Head(q) \in CallTask, Once(q, CallTask, CallOf)
  PROVE  /\ Tail(q) \in Seq(Task) /\ Once(Tail(q), CallTask, CallOf)
         /\ Items(q) \cap CallTask = {Head(q)} \cup (Items(Tail(q)) \cap CallTask)
         /\ \A z \in Items(Tail(q)) \cap CallTask : z.call # Head(q).call
<1>1. /\ Tail(q) \in Seq(Task) /\ Once(Tail(q), CallTask, CallOf)
      /\ CallOf[Head(q)] \notin Keys(Tail(q), CallTask, CallOf)
  BY OnceTail
<1>2. Items(q) = {Head(q)} \cup Items(Tail(q))
  BY OrderedTail
<1>3. Keys(Tail(q), CallTask, CallOf) = {CallOf[z] : z \in Items(Tail(q)) \cap CallTask}
  BY KeysOfItems
<1>4. \A z \in Items(Tail(q)) \cap CallTask : CallOf[z] # CallOf[Head(q)]
  BY <1>1, <1>3
<1>5. \A z \in Items(Tail(q)) \cap CallTask : z.call # Head(q).call
  BY <1>4, CallTaskFacts
<1> QED BY <1>1, <1>2, <1>5

LEMMA ItemsConcat ==
  ASSUME NEW S, NEW q \in Seq(S), NEW s \in Seq(S)
  PROVE  q \o s \in Seq(S) /\ Items(q \o s) = Items(q) \cup Items(s)
<1>1. q \o s \in Seq(S)
  BY ConcatProperties
<1>2. Items(q \o s) = Items(q) \cup Items(s)
  BY OrderedConcat
<1> QED BY <1>1, <1>2

LEMMA ItemsTail ==
  ASSUME NEW S, NEW q \in Seq(S), q # <<>>
  PROVE  /\ Tail(q) \in Seq(S) /\ Head(q) \in S
         /\ Items(q) = {Head(q)} \cup Items(Tail(q))
BY OrderedTail

\* A task of a call that has none comes to the end.
LEMMA OneTaskMore ==
  ASSUME NEW q \in Seq(Task), NEW y \in CallTask, Once(q, CallTask, CallOf),
         \A z \in Items(q) \cap CallTask : z.call # y.call
  PROVE  Once(q \o <<y>>, CallTask, CallOf) /\ Items(q \o <<y>>) = Items(q) \cup {y}
<1>1. y \in Task /\ q \o <<y>> = Append(q, y)
  BY AppendIsConcat, CallTaskFacts
<1>2. Items(Append(q, y)) = Items(q) \cup {y}
  BY <1>1, ItemsAppend
<1>3. CallOf[y] \notin Keys(q, CallTask, CallOf)
  <2>1. Keys(q, CallTask, CallOf) = {CallOf[z] : z \in Items(q) \cap CallTask}
    BY KeysOfItems
  <2> QED BY <2>1, CallTaskFacts
<1>4. Once(Append(q, y), CallTask, CallOf)
  BY <1>1, <1>3, OnceAppend
<1> QED BY <1>1, <1>2, <1>4

\* What the places of a call say of a call that has a task.
LEMMA TaskedCall ==
  ASSUME Typing, InPlace, NEW c \in Cpu, NEW x \in Items(task_queue[c]) \cap CallTask
  PROVE  LET k == x.call
         IN  /\ k \in Call /\ Target[k] = c
             /\ st[k] = IF x.kind = "respond" THEN "stored" ELSE "executing"
             /\ Origin[k] # c /\ Origin[k] \in Cpu /\ k \in TaskCalls(c)
             /\ k \notin parked /\ k \notin Awaiting
             /\ \A d \in Cpu : /\ k \notin Stack(d) /\ k \notin Items(expired[d])
                               /\ d # c => k \notin TaskCalls(d)
<1> DEFINE k == x.call
<1>1. /\ k \in Call /\ Target[k] = c
      /\ st[k] = IF x.kind = "respond" THEN "stored" ELSE "executing"
  BY CallTaskFacts DEF InPlace, Queued
<1>2. TypeOK
  BY DEF Typing
<1>3. k \in TaskCalls(c)
  BY <1>2, TaskCallsFacts
<1>4. Origin[k] # c /\ Origin[k] \in Cpu
  BY <1>1, CrossCpuAssumption DEF InPlace, Present
<1>5. k \notin parked /\ k \notin Awaiting /\ k \notin Stack(c) /\ k \notin Items(expired[c])
  BY <1>3 DEF InPlace, Executing
<1>6. ASSUME NEW d \in Cpu, d # c
      PROVE  k \notin Stack(d) /\ k \notin Items(expired[d]) /\ k \notin TaskCalls(d)
  <2>1. k \notin Stack(d) /\ k \notin Items(expired[d])
    BY <1>1, <1>6 DEF InPlace, Executing
  <2>2. \A z \in Items(task_queue[d]) \cap CallTask : Target[z.call] = d
    BY DEF InPlace, Queued
  <2> QED BY <1>1, <1>2, <1>6, <2>1, <2>2, TaskCallsFacts
<1> QED BY <1>1, <1>3, <1>4, <1>5, <1>6

\* A task of a call is run and leaves another one of the same call behind.
LEMMA NextTaskKeeps ==
  ASSUME Typing, InPlace, Typing', NEW c \in Cpu, NEW x \in CallTask, NEW y \in CallTask, NEW v,
         task_queue[c] # <<>>, Head(task_queue[c]) = x, x.kind # "respond", y.call = x.call,
         v = IF y.kind = "respond" THEN "stored" ELSE "executing",
         task_queue'[c] = Tail(task_queue[c]) \o <<y>>,
         \A p \in Cpu : p # c => task_queue'[p] = task_queue[p],
         st' = [st EXCEPT ![x.call] = v],
         pc' = pc, ring' = ring, buf' = buf, peer' = peer, handling' = handling, user' = user,
         last' = last, cont' = cont, parked' = parked, expired' = expired
  PROVE  InPlace'
<1> DEFINE k == x.call
           q == task_queue[c]
<1>0. TypeOK /\ q \in Seq(Task) /\ Once(q, CallTask, CallOf) /\ st \in [Call -> {"new", "submitted",
        "executing", "stored", "responded", "completed"}]
  BY DEF Typing, TypeOK, InPlace, Queued
<1>1. /\ Tail(q) \in Seq(Task) /\ Once(Tail(q), CallTask, CallOf)
      /\ Items(q) \cap CallTask = {x} \cup (Items(Tail(q)) \cap CallTask)
      /\ \A z \in Items(Tail(q)) \cap CallTask : z.call # k
  BY <1>0, HeadOfCall
<1>2. /\ Once(task_queue'[c], CallTask, CallOf)
      /\ Items(task_queue'[c]) \cap CallTask = {y} \cup (Items(Tail(q)) \cap CallTask)
  <2> DEFINE t == Tail(q)
  <2>1. t \in Seq(Task) /\ Once(t, CallTask, CallOf) /\ \A z \in Items(t) \cap CallTask : z.call # y.call
    BY <1>1
  <2> HIDE DEF t
  <2>2. Once(t \o <<y>>, CallTask, CallOf) /\ Items(t \o <<y>>) = Items(t) \cup {y}
    BY <2>1, OneTaskMore
  <2> QED BY <2>2 DEF t
<1>3. /\ k \in Call /\ Target[k] = c /\ st[k] = "executing" /\ k \notin parked /\ k \notin Awaiting
      /\ \A d \in Cpu : /\ k \notin Stack(d) /\ k \notin Items(expired[d])
                        /\ d # c => k \notin TaskCalls(d)
  <2>1. x \in Items(task_queue[c]) \cap CallTask
    BY <1>1
  <2> QED BY <2>1, TaskedCall
<1>4. /\ st'[k] = v /\ v \in {"executing", "stored"}
      /\ \A j \in Call : j # k => st'[j] = st[j]
  BY <1>0, <1>3
<1>5. \A d \in Cpu : TaskCalls(d)' = TaskCalls(d)
  <2> SUFFICES ASSUME NEW d \in Cpu PROVE TaskCalls(d)' = TaskCalls(d)
    OBVIOUS
  <2>1. TaskCalls(d) = {CallOf[z] : z \in Items(task_queue[d]) \cap CallTask}
    BY KeysOfItems DEF TaskCalls
  <2>2. TaskCalls(d)' = {CallOf[z] : z \in Items(task_queue'[d]) \cap CallTask}
    BY KeysOfItems DEF TaskCalls
  <2>3. CallOf[x] = CallOf[y]
    BY CallTaskFacts
  <2>4. CASE d = c
    <3> DEFINE r == Items(Tail(q)) \cap CallTask
    <3>1. Items(task_queue[c]) \cap CallTask = {x} \cup r /\ Items(task_queue'[c]) \cap CallTask = {y} \cup r
      BY <1>1, <1>2
    <3> HIDE DEF r
    <3>2. /\ {CallOf[z] : z \in {x} \cup r} = {CallOf[x]} \cup {CallOf[z] : z \in r}
          /\ {CallOf[z] : z \in {y} \cup r} = {CallOf[y]} \cup {CallOf[z] : z \in r}
      OBVIOUS
    <3> QED BY <2>1, <2>2, <2>3, <2>4, <3>1, <3>2
  <2> QED BY <2>1, <2>2, <2>4
<1>6. /\ \A o, t \in Cpu : InboxOf(o, t)' = InboxOf(o, t) /\ OutboxOf(o, t)' = OutboxOf(o, t)
      /\ \A d \in Cpu : Stack(d)' = Stack(d)
  BY SameBoxes
<1>7. Awaiting' = Awaiting
  <2>1. \A j \in Call : st'[j] # "completed" <=> st[j] # "completed"
    BY <1>3, <1>4
  <2> QED BY <2>1 DEF Awaiting
<1> HIDE DEF q, k
<1>8. Inboxes'
  <2>1. Inboxes
    BY DEF InPlace
  <2>2. \A o, t \in Cpu : \A j \in Items(InboxOf(o, t)) : j # k /\ (j \in Call => st'[j] = st[j])
    BY <1>3, <1>4, <2>1 DEF Inboxes
  <2>3. \A o, t \in Cpu : Items(InboxOf(o, t)) \subseteq Call
    BY BoxItems
  <2> QED BY <1>6, <2>1, <2>2, <2>3 DEF Inboxes
<1>9. Outboxes'
  <2>1. Outboxes
    BY DEF InPlace
  <2>2. \A o, t \in Cpu : \A j \in Items(OutboxOf(o, t)) : j # k /\ (j \in Call => st'[j] = st[j])
    BY <1>3, <1>4, <2>1 DEF Outboxes
  <2>3. \A o, t \in Cpu : Items(OutboxOf(o, t)) \subseteq Call
    BY BoxItems
  <2> QED BY <1>6, <2>1, <2>2, <2>3 DEF Outboxes
<1>10. Queued'
  <2>1. Queued
    BY DEF InPlace
  <2>2. ASSUME NEW d \in Cpu, d # c
        PROVE  /\ Once(task_queue'[d], CallTask, CallOf)
               /\ \A z \in Items(task_queue'[d]) \cap CallTask :
                    /\ Target[z.call] = d
                    /\ st'[z.call] = IF z.kind = "respond" THEN "stored" ELSE "executing"
    <3>1. \A z \in Items(task_queue[d]) \cap CallTask : z.call \in Call /\ z.call # k
      BY <1>3, <2>1, <2>2, CallTaskFacts DEF Queued
    <3> QED BY <1>4, <2>1, <2>2, <3>1 DEF Queued
  <2>3. \A z \in Items(task_queue'[c]) \cap CallTask :
          /\ Target[z.call] = c
          /\ st'[z.call] = IF z.kind = "respond" THEN "stored" ELSE "executing"
    <3> SUFFICES ASSUME NEW z \in Items(task_queue'[c]) \cap CallTask
                 PROVE  /\ Target[z.call] = c
                        /\ st'[z.call] = IF z.kind = "respond" THEN "stored" ELSE "executing"
      OBVIOUS
    <3>1. CASE z = y
      BY <1>3, <1>4, <3>1 DEF k
    <3>2. CASE z # y
      <4>1. z \in Items(task_queue[c]) \cap CallTask /\ z.call # k /\ z.call \in Call
        BY <1>1, <1>2, <3>2, CallTaskFacts DEF q
      <4> QED BY <1>4, <2>1, <4>1 DEF Queued
    <3> QED BY <3>1, <3>2
  <2> QED BY <1>2, <2>2, <2>3 DEF Queued
<1>11. Present'
  <2>0. \A j \in Call : UnderWay(j)' <=> UnderWay(j)
    BY <1>5, <1>6, <1>7, CrossCpuAssumption DEF UnderWay
  <2>1. Present
    BY DEF InPlace
  <2>2. ASSUME NEW j \in Call, j # k
        PROVE  /\ st'[j] \notin {"new", "completed"} => Origin[j] # Target[j]
               /\ st'[j] = "submitted" => j \in Items(InboxOf(Origin[j], Target[j])')
               /\ st'[j] = "responded" => j \in Items(OutboxOf(Origin[j], Target[j])')
               /\ st'[j] = "stored" => TaskOf("respond", j) \in Items(task_queue'[Target[j]])
               /\ st'[j] = "executing" => UnderWay(j)
    <3>1. Origin[j] \in Cpu /\ Target[j] \in Cpu /\ st'[j] = st[j]
      BY <1>4, <2>2, CrossCpuAssumption
    <3>2. /\ InboxOf(Origin[j], Target[j])' = InboxOf(Origin[j], Target[j])
          /\ OutboxOf(Origin[j], Target[j])' = OutboxOf(Origin[j], Target[j])
      BY <1>6, <3>1
    <3>3. st[j] = "stored" => TaskOf("respond", j) \in Items(task_queue'[Target[j]])
      <4>1. /\ TaskOf("respond", j) \in CallTask /\ TaskOf("respond", j) # x
            /\ st[j] = "stored" => TaskOf("respond", j) \in Items(task_queue[Target[j]])
        BY <2>1, CallTaskFacts DEF Present
      <4>2. CASE Target[j] = c
        BY <1>1, <1>2, <4>1, <4>2 DEF q
      <4> QED BY <3>1, <4>1, <4>2
    <3> QED BY <2>1, <3>1, <3>2, <3>3 DEF Present
  <2>3. /\ Origin[k] # Target[k]
        /\ v = "stored" => TaskOf("respond", k) \in Items(task_queue'[Target[k]])
    <3>1. Origin[k] # Target[k]
      BY <1>3, <2>1 DEF Present
    <3>2. y.kind = "respond" => y = TaskOf("respond", k)
      BY DEF TaskOf, CallTask, k
    <3>3. v = "stored" => y.kind = "respond"
      BY CallTaskFacts
    <3> QED BY <1>2, <1>3, <3>1, <3>2, <3>3
  <2>4. UnderWay(k)
    BY <1>3, <2>1 DEF Present
  <2> QED BY <1>3, <1>4, <2>0, <2>2, <2>3, <2>4 DEF Present
<1>12. Executing'
  <2>1. Executing
    BY DEF InPlace
  <2>2. \A d \in Cpu : \A j \in Stack(d) \cup Items(expired[d]) : j \in Call => st'[j] = st[j]
    BY <1>3, <1>4
  <2>3. \A d \in Cpu : Stack(d) \subseteq Call /\ Items(expired[d]) \subseteq Call
    BY <1>0, StackFacts, ItemsType DEF TypeOK
  <2>4. \A j \in parked : st'[j] = st[j]
    BY <1>0, <1>3, <1>4 DEF TypeOK
  <2> QED BY <1>5, <1>6, <1>7, <2>1, <2>2, <2>3, <2>4 DEF Executing
<1>13. Conts'
  <2>1. Conts
    BY DEF InPlace
  <2>2. \A j \in Call : cont[j] # NoCall => cont[j] \in Call
    BY <1>0 DEF TypeOK
  <2>3. \A j \in Call : cont[j] # NoCall /\ st[j] # "completed" => cont[j] # k
    BY <1>3 DEF Awaiting
  <2>4. \A j \in Call : st'[j] \in {"new", "completed"} <=> st[j] \in {"new", "completed"}
    BY <1>3, <1>4
  <2>5. \A j \in Call : /\ st'[j] = "new" <=> st[j] = "new"
                        /\ st'[j] = "completed" <=> st[j] = "completed"
                        /\ st[j] \notin {"new", "submitted"} => st'[j] \notin {"new", "submitted"}
    BY <1>3, <1>4
  <2> QED BY <1>4, <1>6, <2>1, <2>2, <2>3, <2>5 DEF Conts
<1>14. Lasts'
  <2>1. Lasts /\ \A d \in Cpu : last[d] # NoCall => last[d] \in Call
    BY <1>0 DEF InPlace, TypeOK
  <2>2. \A j \in Call : st[j] \notin {"new", "completed"} => st'[j] \notin {"new", "completed"}
    BY <1>3, <1>4
  <2> QED BY <2>1, <2>2 DEF Lasts
<1> QED BY <1>8, <1>9, <1>10, <1>11, <1>12, <1>13, <1>14 DEF InPlace

-----------------------------------------------------------------------------
(* The places of one call, and the steps that move some of the calls.      *)

Kinds == {"timer", "store", "respond"}
HasTask(k, c, kind) == TaskOf(kind, k) \in Items(task_queue[c])

Place(k) ==
  /\ \A o, t \in Cpu :
       /\ k \in Items(InboxOf(o, t)) => st[k] = "submitted" /\ Origin[k] = o /\ Target[k] = t
       /\ k \in Items(OutboxOf(o, t)) => st[k] = "responded" /\ Origin[k] = o /\ Target[k] = t
  /\ \A c \in Cpu :
       /\ \A kind \in Kinds : HasTask(k, c, kind) =>
            Target[k] = c /\ st[k] = IF kind = "respond" THEN "stored" ELSE "executing"
       /\ k \in Stack(c) =>
            /\ st[k] = "executing" /\ Target[k] = c
            /\ k \notin TaskCalls(c) /\ k \notin Items(expired[c]) /\ k \notin parked
       /\ k \in TaskCalls(c) => k \notin Items(expired[c]) /\ k \notin parked /\ k \notin Awaiting
       /\ k \in Items(expired[c]) =>
            st[k] = "executing" /\ Target[k] = c /\ k \notin parked /\ k \notin Awaiting
  /\ k \in parked => st[k] = "executing" /\ k \notin Awaiting
  /\ st[k] \notin {"new", "completed"} => Origin[k] # Target[k]
  /\ st[k] = "submitted" => k \in Items(InboxOf(Origin[k], Target[k]))
  /\ st[k] = "responded" => k \in Items(OutboxOf(Origin[k], Target[k]))
  /\ st[k] = "stored" => HasTask(k, Target[k], "respond")
  /\ st[k] = "executing" => UnderWay(k)

Onces ==
  /\ \A o, t \in Cpu : Once(InboxOf(o, t), Call, Id) /\ Once(OutboxOf(o, t), Call, Id)
  /\ \A c \in Cpu : /\ Once(task_queue[c], CallTask, CallOf) /\ Once(expired[c], Call, Id)
                    /\ handling[c] # <<>> => pc[c] = "handle"

\* A call that a step leaves alone.
Same(k) ==
  /\ st'[k] = st[k]
  /\ k \in parked' <=> k \in parked
  /\ k \in Awaiting' <=> k \in Awaiting
  /\ \A o, t \in Cpu : /\ k \in Items(InboxOf(o, t)') <=> k \in Items(InboxOf(o, t))
                       /\ k \in Items(OutboxOf(o, t)') <=> k \in Items(OutboxOf(o, t))
  /\ \A c \in Cpu : /\ k \in Stack(c)' <=> k \in Stack(c)
                    /\ k \in Items(expired'[c]) <=> k \in Items(expired[c])
                    /\ \A kind \in Kinds : HasTask(k, c, kind)' <=> HasTask(k, c, kind)

LEMMA TaskMembers ==
  \A c \in Cpu, k \in Call : k \in TaskCalls(c) <=> \E kind \in Kinds : HasTask(k, c, kind)
<1> SUFFICES ASSUME NEW c \in Cpu, NEW k \in Call
             PROVE  k \in TaskCalls(c) <=> \E kind \in Kinds : HasTask(k, c, kind)
  OBVIOUS
<1> DEFINE s == Items(task_queue[c])
<1>1. TaskCalls(c) = {CallOf[x] : x \in s \cap CallTask}
  BY KeysOfItems DEF TaskCalls
<1> HIDE DEF s
<1>2. \A x \in CallTask : x.kind \in Kinds /\ x = TaskOf(x.kind, x.call) /\ CallOf[x] = x.call
  BY DEF CallTask, TaskOf, Kinds, CallOf
<1>3. \A kind \in Kinds : TaskOf(kind, k) \in CallTask /\ CallOf[TaskOf(kind, k)] = k
  BY CallTaskFacts DEF Kinds
<1>4. ASSUME k \in TaskCalls(c) PROVE \E kind \in Kinds : TaskOf(kind, k) \in s
  <2>1. PICK x \in s \cap CallTask : CallOf[x] = k
    BY <1>1, <1>4
  <2> QED BY <1>2, <2>1
<1>5. ASSUME NEW kind \in Kinds, TaskOf(kind, k) \in s PROVE k \in TaskCalls(c)
  BY <1>1, <1>3, <1>5
<1> QED BY <1>4, <1>5 DEF HasTask, s

LEMMA TaskMembersNext ==
  (\A c \in Cpu, k \in Call : k \in TaskCalls(c) <=> \E kind \in Kinds : HasTask(k, c, kind))'
BY TaskMembers, PTL

LEMMA PlacesApart ==
  ASSUME Typing, InPlace, NEW k \in Call
  PROVE  Place(k)
<1>1. \A o, t \in Cpu :
       /\ k \in Items(InboxOf(o, t)) => st[k] = "submitted" /\ Origin[k] = o /\ Target[k] = t
       /\ k \in Items(OutboxOf(o, t)) => st[k] = "responded" /\ Origin[k] = o /\ Target[k] = t
  BY DEF InPlace, Inboxes, Outboxes
<1>2. \A c \in Cpu, kind \in Kinds : HasTask(k, c, kind) =>
         Target[k] = c /\ st[k] = IF kind = "respond" THEN "stored" ELSE "executing"
  <2>1. \A kind \in Kinds : /\ TaskOf(kind, k) \in CallTask
                            /\ TaskOf(kind, k).call = k /\ TaskOf(kind, k).kind = kind
    BY CallTaskFacts DEF Kinds
  <2>2. Queued
    BY DEF InPlace
  <2> QED BY <2>1, <2>2 DEF Queued, HasTask
<1>3. \A c \in Cpu :
       /\ k \in Stack(c) =>
            /\ st[k] = "executing" /\ Target[k] = c
            /\ k \notin TaskCalls(c) /\ k \notin Items(expired[c]) /\ k \notin parked
       /\ k \in TaskCalls(c) => k \notin Items(expired[c]) /\ k \notin parked /\ k \notin Awaiting
       /\ k \in Items(expired[c]) =>
            st[k] = "executing" /\ Target[k] = c /\ k \notin parked /\ k \notin Awaiting
  BY DEF InPlace, Executing
<1>4. k \in parked => st[k] = "executing" /\ k \notin Awaiting
  BY DEF InPlace, Executing
<1>5. /\ st[k] \notin {"new", "completed"} => Origin[k] # Target[k]
      /\ st[k] = "submitted" => k \in Items(InboxOf(Origin[k], Target[k]))
      /\ st[k] = "responded" => k \in Items(OutboxOf(Origin[k], Target[k]))
      /\ st[k] = "stored" => HasTask(k, Target[k], "respond")
      /\ st[k] = "executing" => UnderWay(k)
  BY DEF InPlace, Present, HasTask
<1> QED BY <1>1, <1>2, <1>3, <1>4, <1>5 DEF Place

LEMMA PlacesTogether ==
  Typing /\ Onces /\ (\A k \in Call : Place(k)) /\ Conts /\ Lasts => InPlace
<1> SUFFICES ASSUME Typing, Onces, \A k \in Call : Place(k), Conts, Lasts PROVE InPlace
  OBVIOUS
<1>0. TypeOK
  BY DEF Typing
<1>1. Inboxes /\ Outboxes
  <2>1. \A o, t \in Cpu : Items(InboxOf(o, t)) \subseteq Call /\ Items(OutboxOf(o, t)) \subseteq Call
    BY BoxItems
  <2>2. \A k \in Call : \A o, t \in Cpu :
       /\ k \in Items(InboxOf(o, t)) => st[k] = "submitted" /\ Origin[k] = o /\ Target[k] = t
       /\ k \in Items(OutboxOf(o, t)) => st[k] = "responded" /\ Origin[k] = o /\ Target[k] = t
    BY DEF Place
  <2> QED BY <2>1, <2>2 DEF Inboxes, Outboxes, Onces
<1>2. Queued
  <2> SUFFICES ASSUME NEW c \in Cpu, NEW x \in Items(task_queue[c]) \cap CallTask
               PROVE  /\ Target[x.call] = c
                      /\ st[x.call] = IF x.kind = "respond" THEN "stored" ELSE "executing"
    BY DEF Queued, Onces
  <2>1. x.call \in Call /\ x.kind \in Kinds /\ HasTask(x.call, c, x.kind)
    BY DEF CallTask, Kinds, HasTask, TaskOf
  <2> QED BY <2>1 DEF Place
<1>3. Present
  BY DEF Place, HasTask, Present
<1>4. Executing
  <2>1. \A c \in Cpu : /\ Stack(c) \subseteq Call /\ TaskCalls(c) \subseteq Call
                       /\ Items(expired[c]) \subseteq Call
    BY <1>0, StackFacts, TaskCallsFacts, ItemsType DEF TypeOK
  <2>2. parked \subseteq Call
    BY <1>0 DEF TypeOK
  <2>3. \A k \in Call : k \in parked => st[k] = "executing" /\ k \notin Awaiting
    BY DEF Place
  <2>4. \A k \in Call, c \in Cpu :
       /\ k \in Stack(c) =>
            /\ st[k] = "executing" /\ Target[k] = c
            /\ k \notin TaskCalls(c) /\ k \notin Items(expired[c]) /\ k \notin parked
       /\ k \in TaskCalls(c) => k \notin Items(expired[c]) /\ k \notin parked /\ k \notin Awaiting
       /\ k \in Items(expired[c]) =>
            st[k] = "executing" /\ Target[k] = c /\ k \notin parked /\ k \notin Awaiting
    BY DEF Place
  <2> QED BY <2>1, <2>2, <2>3, <2>4 DEF Executing, Onces
<1> QED BY <1>1, <1>2, <1>3, <1>4 DEF InPlace

LEMMA PlacesTogetherNext ==
  Typing' /\ Onces' /\ (\A k \in Call : Place(k))' /\ Conts' /\ Lasts' => InPlace'
BY PlacesTogether, PTL

LEMMA SameKeeps ==
  ASSUME NEW k \in Call, Place(k), Same(k)
  PROVE  Place(k)'
<1>1. \A c \in Cpu : k \in TaskCalls(c)' <=> k \in TaskCalls(c)
  <2>1. \A c \in Cpu : /\ k \in TaskCalls(c)' <=> \E kind \in Kinds : HasTask(k, c, kind)'
                       /\ k \in TaskCalls(c) <=> \E kind \in Kinds : HasTask(k, c, kind)
    BY TaskMembers, TaskMembersNext
  <2>2. \A c \in Cpu : \A kind \in Kinds : HasTask(k, c, kind)' <=> HasTask(k, c, kind)
    BY DEF Same
  <2> QED BY <2>1, <2>2
<1>2. Origin[k] \in Cpu /\ Target[k] \in Cpu /\ "respond" \in Kinds
  BY CrossCpuAssumption DEF Kinds
<1>3. /\ st'[k] = st[k] /\ (k \in parked' <=> k \in parked) /\ (k \in Awaiting' <=> k \in Awaiting)
      /\ \A o, t \in Cpu : /\ k \in Items(InboxOf(o, t)') <=> k \in Items(InboxOf(o, t))
                           /\ k \in Items(OutboxOf(o, t)') <=> k \in Items(OutboxOf(o, t))
      /\ \A c \in Cpu : /\ k \in Stack(c)' <=> k \in Stack(c)
                        /\ k \in Items(expired'[c]) <=> k \in Items(expired[c])
                        /\ \A kind \in Kinds : HasTask(k, c, kind)' <=> HasTask(k, c, kind)
  BY DEF Same
<1>4. UnderWay(k)' <=> UnderWay(k)
  BY <1>1, <1>2, <1>3 DEF UnderWay
<1> QED BY <1>1, <1>2, <1>3, <1>4 DEF Place

\* A step that moves the calls in m.
LEMMA MovesKeep ==
  ASSUME Typing, InPlace, Typing', NEW m, Onces', Conts', Lasts',
         \A k \in Call : k \notin m => Same(k),
         \A k \in Call : k \in m => Place(k)'
  PROVE  InPlace'
<1>1. \A k \in Call : Place(k)'
  BY PlacesApart, SameKeeps
<1> QED BY <1>1, PlacesTogetherNext

-----------------------------------------------------------------------------
(* A call is submitted, and its function is called and returns.            *)

LEMMA HeadOfConcat ==
  ASSUME NEW S, NEW q \in Seq(S), q # <<>>, NEW s \in Seq(S)
  PROVE  /\ q \o s \in Seq(S) /\ q \o s # <<>>
         /\ Head(q \o s) = Head(q) /\ Tail(q \o s) = Tail(q) \o s
<1> DEFINE p == q \o s
           h == Tail(q)
           m == Len(q)
           n == Len(s)
<1>1. m \in Nat \ {0} /\ n \in Nat
  BY EmptySeq, LenProperties
<1>2. p \in Seq(S) /\ Len(p) = m + n /\ \A i \in 1 .. m + n : p[i] = IF i <= m THEN q[i] ELSE s[i - m]
  BY ConcatProperties
<1>3. h \in Seq(S) /\ Len(h) = m - 1 /\ \A i \in 1 .. m - 1 : h[i] = q[i + 1]
  <2>1. h \in Seq(S) /\ Len(h) = Len(q) - 1 /\ \A i \in 1 .. Len(h) : h[i] = q[i + 1]
    BY HeadTailProperties
  <2> QED BY <2>1
<1> HIDE DEF p, h
<1>4. p # <<>>
  BY <1>1, <1>2, EmptySeq
<1>5. Tail(p) \in Seq(S) /\ Len(Tail(p)) = m + n - 1 /\ \A i \in 1 .. m + n - 1 : Tail(p)[i] = p[i + 1]
  <2>1. Tail(p) \in Seq(S) /\ Len(Tail(p)) = Len(p) - 1 /\ \A i \in 1 .. Len(Tail(p)) : Tail(p)[i] = p[i + 1]
    BY <1>2, <1>4, HeadTailProperties
  <2> QED BY <1>2, <2>1
<1>6. /\ h \o s \in Seq(S) /\ Len(h \o s) = m - 1 + n
      /\ \A i \in 1 .. m - 1 + n : (h \o s)[i] = IF i <= m - 1 THEN h[i] ELSE s[i - (m - 1)]
  <2>1. /\ h \o s \in Seq(S) /\ Len(h \o s) = Len(h) + Len(s)
        /\ \A i \in 1 .. Len(h) + Len(s) : (h \o s)[i] = IF i <= Len(h) THEN h[i] ELSE s[i - Len(h)]
    BY <1>3, ConcatProperties
  <2> QED BY <1>3, <2>1
<1> DEFINE a == Tail(p)
           b == h \o s
<1> HIDE DEF m, n, a, b
<1>7. Len(a) = Len(b) /\ Len(a) = m + n - 1
  BY <1>1, <1>5, <1>6 DEF a, b
<1>8. ASSUME NEW i \in 1 .. Len(a) PROVE a[i] = b[i]
  <2>1. i \in 1 .. m + n - 1 /\ i \in 1 .. m - 1 + n /\ i \in Int /\ i + 1 \in 1 .. m + n
    BY <1>1, <1>7
  <2>2. a[i] = IF i + 1 <= m THEN q[i + 1] ELSE s[i + 1 - m]
    <3>1. a[i] = p[i + 1]
      BY <1>5, <2>1 DEF a
    <3>2. p[i + 1] = IF i + 1 <= m THEN q[i + 1] ELSE s[i + 1 - m]
      <4>1. PICK j \in 1 .. m + n : j = i + 1
        BY <2>1
      <4>2. p[j] = IF j <= m THEN q[j] ELSE s[j - m]
        BY <1>2
      <4>3. i + 1 - m = j - m
        BY <1>1, <2>1, <4>1
      <4>4. CASE j <= m
        BY <4>1, <4>2, <4>4
      <4>5. CASE ~(j <= m)
        BY <4>1, <4>2, <4>3, <4>5
      <4> QED BY <4>4, <4>5
    <3> QED BY <3>1, <3>2
  <2>3. b[i] = IF i <= m - 1 THEN h[i] ELSE s[i - (m - 1)]
    BY <1>6, <2>1 DEF b
  <2>4. CASE i + 1 <= m
    <3>1. i <= m - 1 /\ i \in 1 .. m - 1
      BY <1>1, <2>1, <2>4
    <3> QED BY <1>3, <2>2, <2>3, <2>4, <3>1
  <2>5. CASE ~(i + 1 <= m)
    <3>1. ~(i <= m - 1) /\ i + 1 - m = i - (m - 1)
      BY <1>1, <2>1, <2>5
    <3> QED BY <2>2, <2>3, <2>5, <3>1
  <2> QED BY <2>4, <2>5
<1>9. a = b
  <2>1. a \in Seq(S) /\ b \in Seq(S)
    BY <1>5, <1>6 DEF a, b
  <2> QED BY <1>7, <1>8, <2>1, SeqEqual
<1>10. Head(p) = p[1] /\ Head(q) = q[1] /\ p[1] = q[1]
  BY <1>1, <1>2
<1> QED BY <1>2, <1>4, <1>9, <1>10 DEF a, b, p, h

\* A call to this CPU is new, and then it is completed.
LEMMA SubmitLocalKeeps ==
  ASSUME Typing, InPlace, Typing', NEW c \in Cpu, NEW k \in Call, SubmitLocal(c, k)
  PROVE  /\ InPlace' /\ \A o, t \in Cpu : InboxOf(o, t)' = InboxOf(o, t)
         /\ Origin[k] = Target[k] /\ st[k] = "new" /\ st' = [st EXCEPT ![k] = "completed"]
<1>0. TypeOK /\ Conts /\ Lasts /\ Place(k)
  BY PlacesApart DEF Typing, InPlace
<1>1. /\ st[k] = "new" /\ st'[k] = "completed" /\ \A j \in Call : j # k => st'[j] = st[j]
      /\ ring' = ring /\ buf' = buf /\ peer' = peer /\ handling' = handling /\ user' = user
      /\ last' = last /\ cont' = cont /\ parked' = parked /\ expired' = expired
      /\ pc' = pc /\ task_queue' = task_queue
  BY <1>0 DEF SubmitLocal, Submit, TypeOK, reactorVars
<1>2. /\ \A o, t \in Cpu : InboxOf(o, t)' = InboxOf(o, t) /\ OutboxOf(o, t)' = OutboxOf(o, t)
      /\ \A d \in Cpu : Stack(d)' = Stack(d) /\ TaskCalls(d)' = TaskCalls(d)
      /\ \A d \in Cpu, j \in Call, kind \in Kinds : HasTask(j, d, kind)' <=> HasTask(j, d, kind)
  BY <1>1, SameBoxes DEF TaskCalls, HasTask
<1>3. cont[k] = NoCall
  BY <1>0, <1>1 DEF Conts
<1>4. Awaiting' = Awaiting
  BY <1>1, <1>3 DEF Awaiting
<1>5. Onces'
  BY <1>1, <1>2 DEF InPlace, Inboxes, Outboxes, Queued, Executing, Onces
<1>6. ASSUME NEW j \in Call, j \notin {k} PROVE Same(j)
  BY <1>1, <1>2, <1>4, <1>6 DEF Same
<1>7. ASSUME NEW j \in Call, j \in {k} PROVE Place(j)'
  BY <1>0, <1>1, <1>2, <1>4, <1>7 DEF Place
<1>8. Conts'
  <2>1. \A j \in Call : cont[j] # NoCall => cont[j] \in Call /\ cont[j] # k /\ j # k
    BY <1>0, <1>1, <1>3 DEF TypeOK, Conts
  <2> QED BY <1>0, <1>1, <1>2, <2>1 DEF Conts
<1>9. Lasts'
  <2>1. \A d \in Cpu : user[d] /\ last[d] # NoCall => last[d] \in Call /\ last[d] # k
    BY <1>0, <1>1 DEF TypeOK, Lasts
  <2> QED BY <1>0, <1>1, <2>1 DEF Lasts
<1>10. InPlace'
  BY <1>5, <1>6, <1>7, <1>8, <1>9, MovesKeep
<1> QED BY <1>2, <1>10 DEF SubmitLocal, Submit

\* What StartFn does to the queues: the first of the calls is taken.
LEMMA StartFnEffect ==
  ASSUME Typing, Typing', InPlace, NEW c \in Cpu, StartFn(c)
  PROVE  \E p \in Cpu \ {c}, k \in Call :
           /\ k = Head(handling[c]) /\ st'[k] = "executing"
           /\ \A j \in Call : j # k => st'[j] = st[j]
           /\ InboxOf(p, c) \in Seq(Call) /\ InboxOf(p, c) # <<>>
           /\ Head(InboxOf(p, c)) = k /\ InboxOf(p, c)' = Tail(InboxOf(p, c))
           /\ \A o, t \in Cpu : /\ ~(o = p /\ t = c) => InboxOf(o, t)' = InboxOf(o, t)
                                /\ OutboxOf(o, t)' = OutboxOf(o, t)
<1>0. TypeOK /\ PeerOK
  BY DEF Typing
<1>1. /\ pc[c] = "handle" /\ ~user[c] /\ handling[c] # <<>> /\ handling[c] \in Seq(Call)
      /\ ring' = ring /\ buf' = buf /\ peer' = peer /\ handling' = handling
      /\ user' = [user EXCEPT ![c] = TRUE] /\ user'[c]
      /\ \A d \in Cpu : d # c => user'[d] = user[d]
      /\ st' = [st EXCEPT ![Head(handling[c])] = "executing"]
  BY <1>0 DEF StartFn, TypeOK
<1>2. PICK p \in Cpu \ {c} : p = peer[c]
  BY <1>0, <1>1 DEF PeerOK, Polling
<1>3. PICK q : q = handling[c]
  OBVIOUS
<1>4. q \in Seq(Call) /\ q # <<>> /\ Head(q) \in Call
  BY <1>1, <1>3, HeadTailProperties
<1>5. PICK k \in Call : k = Head(q)
  BY <1>4
<1>6. Unrun(c) = q /\ Unrun(c)' = Tail(q) /\ \A d \in Cpu : d # c => Unrun(d)' = Unrun(d)
  BY <1>1, <1>3 DEF Unrun
<1>7. Before(p, c) = q /\ Before(p, c)' = Tail(q)
  BY <1>1, <1>2, <1>6 DEF Before
<1>8. \A o, t \in Cpu : ~(o = p /\ t = c) => Before(o, t)' = Before(o, t)
  BY <1>1, <1>2, <1>6 DEF Before
<1>9. \A l \in Lane : Line(l)' = Line(l)
  BY <1>1, SameLines
<1>10. \A o, t \in Cpu : /\ ~(o = p /\ t = c) => InboxOf(o, t)' = InboxOf(o, t)
                         /\ OutboxOf(o, t)' = OutboxOf(o, t)
  <2> SUFFICES ASSUME NEW o \in Cpu, NEW t \in Cpu
               PROVE  /\ ~(o = p /\ t = c) => InboxOf(o, t)' = InboxOf(o, t)
                      /\ OutboxOf(o, t)' = OutboxOf(o, t)
    OBVIOUS
  <2>1. CASE o = t
    BY <2>1, NoneToItself
  <2>2. CASE o # t
    <3>1. <<"tx", o, t>> \in Lane /\ <<"rx", o, t>> \in Lane
      BY DEF Lane
    <3>2. /\ InboxOf(o, t) = Before(o, t) \o Line(<<"tx", o, t>>)
          /\ InboxOf(o, t)' = Before(o, t)' \o Line(<<"tx", o, t>>)'
          /\ OutboxOf(o, t) = Line(<<"rx", o, t>>) /\ OutboxOf(o, t)' = Line(<<"rx", o, t>>)'
      BY <2>2, InboxLine, InboxLineNext, OutboxLine, OutboxLineNext
    <3> QED BY <1>8, <1>9, <3>1, <3>2
  <2> QED BY <2>1, <2>2
<1>11. /\ InboxOf(p, c) \in Seq(Call) /\ InboxOf(p, c) # <<>>
       /\ Head(InboxOf(p, c)) = k /\ InboxOf(p, c)' = Tail(InboxOf(p, c))
  <2>1. PICK w : w = Line(<<"tx", p, c>>)
    OBVIOUS
  <2>2. <<"tx", p, c>> \in Lane
    BY DEF Lane
  <2>3. InboxOf(p, c) = q \o w /\ w \in Seq(Call)
    BY <1>7, <2>1, InboxLine
  <2>4. InboxOf(p, c)' = Tail(q) \o w
    BY <1>7, <1>9, <2>1, <2>2, InboxLineNext
  <2>5. q \o w \in Seq(Call) /\ q \o w # <<>> /\ Head(q \o w) = Head(q) /\ Tail(q \o w) = Tail(q) \o w
    BY <1>4, <2>3, HeadOfConcat
  <2> QED BY <1>5, <2>3, <2>4, <2>5
<1>12. st'[k] = "executing" /\ \A j \in Call : j # k => st'[j] = st[j]
  BY <1>0, <1>1, <1>3, <1>5 DEF TypeOK
<1> QED BY <1>3, <1>5, <1>10, <1>11, <1>12

LEMMA StartFnKeeps ==
  ASSUME Typing, InPlace, Typing', NEW c \in Cpu, StartFn(c)
  PROVE  InPlace'
<1>1. PICK p \in Cpu \ {c}, k \in Call :
           /\ k = Head(handling[c]) /\ st'[k] = "executing"
           /\ \A j \in Call : j # k => st'[j] = st[j]
           /\ InboxOf(p, c) \in Seq(Call) /\ InboxOf(p, c) # <<>>
           /\ Head(InboxOf(p, c)) = k /\ InboxOf(p, c)' = Tail(InboxOf(p, c))
           /\ \A o, t \in Cpu : /\ ~(o = p /\ t = c) => InboxOf(o, t)' = InboxOf(o, t)
                                /\ OutboxOf(o, t)' = OutboxOf(o, t)
  BY StartFnEffect
<1>0. TypeOK /\ Conts /\ Lasts /\ Place(k)
  BY PlacesApart DEF Typing, InPlace
<1>2. /\ ~user[c] /\ handling[c] # <<>> /\ handling' = handling /\ pc' = pc /\ user'[c] /\ last'[c] = NoCall
      /\ \A d \in Cpu : d # c => user'[d] = user[d] /\ last'[d] = last[d]
      /\ cont' = cont /\ parked' = parked /\ expired' = expired /\ task_queue' = task_queue
  BY <1>0 DEF StartFn, TypeOK, reactorVars
<1>3. /\ Stack(c) = {} /\ Stack(c)' = {k} /\ \A d \in Cpu : d # c => Stack(d)' = Stack(d)
      /\ \A d \in Cpu : TaskCalls(d)' = TaskCalls(d)
      /\ \A d \in Cpu, j \in Call, kind \in Kinds : HasTask(j, d, kind)' <=> HasTask(j, d, kind)
  BY <1>1, <1>2 DEF Stack, TaskCalls, HasTask
<1>4. PICK q : q = InboxOf(p, c)
  OBVIOUS
<1>5. /\ Once(Tail(q), Call, Id) /\ Tail(q) \in Seq(Call)
      /\ Items(q) = {k} \cup Items(Tail(q)) /\ k \notin Items(Tail(q))
  <2>1. q \in Seq(Call) /\ q # <<>> /\ Head(q) = k /\ Once(q, Call, Id)
    BY <1>1, <1>4 DEF InPlace, Inboxes
  <2>2. Tail(q) \in Seq(Call) /\ Once(Tail(q), Call, Id) /\ Id[k] \notin Keys(Tail(q), Call, Id)
    BY <2>1, OnceTail
  <2>3. Items(q) = {k} \cup Items(Tail(q))
    BY <2>1, ItemsTail
  <2>4. Keys(Tail(q), Call, Id) = Items(Tail(q))
    <3> DEFINE r == Tail(q)
    <3>1. r \in Seq(Call)
      BY <2>2
    <3> HIDE DEF r
    <3>2. Keys(r, Call, Id) = Items(r)
      BY <3>1, KeysOfCalls
    <3> QED BY <3>2 DEF r
  <2> QED BY <2>2, <2>3, <2>4 DEF Id
<1>6. st[k] = "submitted" /\ Origin[k] = p /\ Target[k] = c
  BY <1>0, <1>4, <1>5 DEF Place
<1>7. Awaiting' = Awaiting
  BY <1>1, <1>2, <1>6 DEF Awaiting
<1>8. Onces'
  <2>1. \A o, t \in Cpu : Once(InboxOf(o, t)', Call, Id) /\ Once(OutboxOf(o, t)', Call, Id)
    <3> SUFFICES ASSUME NEW o \in Cpu, NEW t \in Cpu
                 PROVE  Once(InboxOf(o, t)', Call, Id) /\ Once(OutboxOf(o, t)', Call, Id)
      OBVIOUS
    <3>1. Once(InboxOf(o, t), Call, Id) /\ Once(OutboxOf(o, t), Call, Id)
      BY DEF InPlace, Inboxes, Outboxes
    <3>2. CASE o = p /\ t = c
      BY <1>1, <1>4, <1>5, <3>1, <3>2
    <3>3. CASE ~(o = p /\ t = c)
      BY <1>1, <3>1, <3>3
    <3> QED BY <3>2, <3>3
  <2> QED BY <1>2, <2>1 DEF InPlace, Queued, Executing, Onces
<1>9. ASSUME NEW j \in Call, j \notin {k} PROVE Same(j)
  <2>1. \A o, t \in Cpu : j \in Items(InboxOf(o, t)') <=> j \in Items(InboxOf(o, t))
    BY <1>1, <1>4, <1>5, <1>9
  <2> QED BY <1>1, <1>2, <1>3, <1>7, <1>9, <2>1 DEF Same
<1>10. ASSUME NEW j \in Call, j \in {k} PROVE Place(j)'
  <2>1. \A o, t \in Cpu : k \notin Items(InboxOf(o, t)') /\ k \notin Items(OutboxOf(o, t)')
    <3> SUFFICES ASSUME NEW o \in Cpu, NEW t \in Cpu
                 PROVE  k \notin Items(InboxOf(o, t)') /\ k \notin Items(OutboxOf(o, t)')
      OBVIOUS
    <3>1. (k \in Items(InboxOf(o, t)) => o = p /\ t = c) /\ k \notin Items(OutboxOf(o, t))
      BY <1>0, <1>6 DEF Place
    <3>2. CASE o = p /\ t = c
      BY <1>1, <1>4, <1>5, <3>1, <3>2
    <3>3. CASE ~(o = p /\ t = c)
      BY <1>1, <3>1, <3>3
    <3> QED BY <3>2, <3>3
  <2>2. \A d \in Cpu : /\ \A kind \in Kinds : ~HasTask(k, d, kind)
                       /\ k \notin Items(expired[d]) /\ (d # c => k \notin Stack(d))
    BY <1>0, <1>6 DEF Place
  <2>3. \A d \in Cpu : k \notin TaskCalls(d)
    BY <2>2, TaskMembers
  <2>4. k \notin parked /\ st'[k] = "executing" /\ Origin[k] # Target[k]
    BY <1>0, <1>1, <1>6 DEF Place
  <2>5. UnderWay(k)'
    BY <1>3, <1>6 DEF UnderWay
  <2> QED BY <1>2, <1>3, <1>6, <1>10, <2>1, <2>2, <2>3, <2>4, <2>5 DEF Place
<1>11. Conts'
  <2>1. \A j \in Call : cont[j] # NoCall => cont[j] \in Call /\ cont[j] # k
    BY <1>0, <1>6 DEF TypeOK, Conts
  <2>2. \A j \in Call : (st'[j] = "new" <=> st[j] = "new") /\ (st'[j] = "completed" <=> st[j] = "completed")
    BY <1>1, <1>6
  <2> QED BY <1>0, <1>1, <1>2, <1>3, <2>1, <2>2 DEF Conts
<1>12. Lasts'
  <2>1. \A d \in Cpu : last[d] # NoCall => last[d] \in Call
    BY <1>0 DEF TypeOK
  <2> QED BY <1>0, <1>1, <1>2, <2>1 DEF Lasts
<1> QED BY <1>8, <1>9, <1>10, <1>11, <1>12, MovesKeep

\* One task more of a call that had none.
LEMMA ScheduledTask ==
  ASSUME Typing, InPlace, NEW c \in Cpu, NEW kind \in Kinds, NEW k \in Call, k \notin TaskCalls(c),
         task_queue' = [task_queue EXCEPT ![c] = @ \o <<TaskOf(kind, k)>>]
  PROVE  /\ \A d \in Cpu : Once(task_queue'[d], CallTask, CallOf)
         /\ \A d \in Cpu, j \in Call, i \in Kinds :
              HasTask(j, d, i)' <=> HasTask(j, d, i) \/ (d = c /\ j = k /\ i = kind)
<1> DEFINE y == TaskOf(kind, k)
<1>1. PICK q : q = task_queue[c]
  OBVIOUS
<1>2. y \in CallTask /\ y.call = k
  BY CallTaskFacts DEF Kinds
<1>3. task_queue'[c] = q \o <<y>> /\ \A d \in Cpu : d # c => task_queue'[d] = task_queue[d]
  BY <1>1 DEF Typing, TypeOK
<1>4. q \in Seq(Task) /\ Once(q, CallTask, CallOf)
  BY <1>1 DEF Typing, TypeOK, InPlace, Queued
<1>5. \A z \in Items(q) \cap CallTask : z.call # y.call
  <2>1. TaskCalls(c) = {z.call : z \in Items(q) \cap CallTask}
    BY <1>1, TaskCallsFacts DEF Typing
  <2> QED BY <1>2, <2>1
<1>6. \A j \in Call, i \in Kinds : TaskOf(i, j) = y <=> j = k /\ i = kind
  BY DEF TaskOf
<1> HIDE DEF y
<1>7. Once(q \o <<y>>, CallTask, CallOf) /\ Items(q \o <<y>>) = Items(q) \cup {y}
  BY <1>2, <1>4, <1>5, OneTaskMore
<1>8. \A d \in Cpu : Once(task_queue'[d], CallTask, CallOf)
  BY <1>3, <1>7 DEF InPlace, Queued
<1> QED BY <1>1, <1>3, <1>6, <1>7, <1>8 DEF HasTask

LEMMA FnReturnsKeeps ==
  ASSUME Typing, InPlace, Typing', NEW c \in Cpu, FnReturns(c)
  PROVE  /\ InPlace' /\ \A o, t \in Cpu : InboxOf(o, t)' = InboxOf(o, t)
         /\ st' = st
<1>a. handling[c] \in Seq(Call) /\ handling[c] # <<>>
  <2>1. user[c] /\ pc[c] = "handle" /\ TypeOK /\ UserOK
    BY DEF Typing, FnReturns
  <2> QED BY <2>1 DEF TypeOK, UserOK
<1>b. PICK k \in Call : k = Head(handling[c])
  BY <1>a, HeadTailProperties
<1>0. TypeOK /\ Conts /\ Lasts /\ Place(k)
  BY PlacesApart DEF Typing, InPlace
<1>1. /\ user[c] /\ ~user'[c] /\ handling'[c] = Tail(handling[c]) /\ pc' = pc /\ pc[c] = "handle"
      /\ \A d \in Cpu : d # c => user'[d] = user[d] /\ handling'[d] = handling[d]
      /\ ring' = ring /\ buf' = buf /\ peer' = peer /\ last' = last /\ st' = st /\ expired' = expired
  BY <1>0 DEF FnReturns, TypeOK
<1>2. \/ /\ task_queue' = [task_queue EXCEPT ![c] = @ \o <<TaskOf("store", k)>>]
         /\ cont' = cont /\ parked' = parked
      \/ /\ last[c] # NoCall /\ cont' = [cont EXCEPT ![last[c]] = k]
         /\ task_queue' = task_queue /\ parked' = parked
      \/ /\ parked' = parked \cup {k}
         /\ task_queue' = task_queue /\ cont' = cont
  BY <1>b DEF FnReturns, AwaitInner, Schedule
<1>3. /\ Stack(c) = {k} /\ Stack(c)' = {} /\ \A d \in Cpu : d # c => Stack(d)' = Stack(d)
      /\ \A d \in Cpu : Unrun(d)' = Unrun(d)
  BY <1>1, <1>a, <1>b DEF Stack, Unrun
<1>4. \A o, t \in Cpu : InboxOf(o, t)' = InboxOf(o, t) /\ OutboxOf(o, t)' = OutboxOf(o, t)
  BY <1>1, <1>3 DEF InboxOf, OutboxOf
<1>5. /\ st[k] = "executing" /\ Target[k] = c /\ k \notin TaskCalls(c) /\ k \notin parked
      /\ Origin[k] # Target[k]
      /\ \A d \in Cpu : k \notin Items(expired[d]) /\ (d # c => k \notin TaskCalls(d) /\ k \notin Stack(d))
  <2>1. st[k] = "executing" /\ Target[k] = c /\ k \notin TaskCalls(c) /\ k \notin parked
        /\ Origin[k] # Target[k] /\ k \notin Items(expired[c])
    BY <1>0, <1>3 DEF Place
  <2>2. \A d \in Cpu : d # c => k \notin Items(expired[d]) /\ k \notin Stack(d) /\
                                \A kind \in Kinds : ~HasTask(k, d, kind)
    BY <1>0, <2>1 DEF Place
  <2>3. \A d \in Cpu : d # c => k \notin TaskCalls(d)
    BY <2>2, TaskMembers
  <2> QED BY <2>1, <2>2, <2>3
<1>6. k \notin Awaiting
  <2>1. \A j \in Call : cont[j] # NoCall => cont[j] \notin Stack(c)
    BY <1>0 DEF Conts
  <2> QED BY <1>3, <2>1 DEF Awaiting
<1>7. /\ \A d \in Cpu : Once(task_queue'[d], CallTask, CallOf)
      /\ \A d \in Cpu, j \in Call, i \in Kinds : j # k => (HasTask(j, d, i)' <=> HasTask(j, d, i))
      /\ \A d \in Cpu, i \in Kinds : HasTask(k, d, i)' => d = c /\ i = "store" /\ task_queue' # task_queue
  <2>0. "store" \in Kinds /\ \A d \in Cpu, i \in Kinds : ~HasTask(k, d, i)
    BY <1>5, TaskMembers DEF Kinds
  <2>1. CASE task_queue' = task_queue
    BY <2>0, <2>1 DEF InPlace, Queued, HasTask
  <2>2. CASE task_queue' # task_queue
    <3>1. task_queue' = [task_queue EXCEPT ![c] = @ \o <<TaskOf("store", k)>>]
      BY <1>2, <2>2
    <3>a. PICK kind \in Kinds : kind = "store"
      BY <2>0
    <3>b. task_queue' = [task_queue EXCEPT ![c] = @ \o <<TaskOf(kind, k)>>] /\ k \notin TaskCalls(c)
      BY <1>5, <3>1, <3>a
    <3>2. /\ \A d \in Cpu : Once(task_queue'[d], CallTask, CallOf)
          /\ \A d \in Cpu, j \in Call, i \in Kinds :
               HasTask(j, d, i)' <=> HasTask(j, d, i) \/ (d = c /\ j = k /\ i = kind)
      BY <3>b, ScheduledTask
    <3> QED BY <2>0, <2>2, <3>2, <3>a
  <2> QED BY <2>1, <2>2
<1>8. /\ cont' # cont => Awaiting' = Awaiting \cup {k}
      /\ cont' = cont => Awaiting' = Awaiting
      /\ cont' # cont =>
           \E j \in Call : /\ last[c] = j /\ cont[j] = NoCall /\ cont'[j] = k /\ Origin[j] = c
                           /\ st[j] \notin {"new", "completed"}
                           /\ \A i \in Call : i # j => cont'[i] = cont[i]
  <2>1. CASE cont' = cont
    BY <1>1, <2>1 DEF Awaiting
  <2>2. CASE cont' # cont
    <3>1. last[c] # NoCall /\ last[c] \in Call /\ cont' = [cont EXCEPT ![last[c]] = k]
      BY <1>0, <1>2, <2>2 DEF TypeOK
    <3>2. PICK j \in Call : j = last[c]
      BY <3>1
    <3>3. /\ cont[j] = NoCall /\ Origin[j] = c /\ st[j] \notin {"new", "completed"}
          /\ cont'[j] = k /\ \A i \in Call : i # j => cont'[i] = cont[i]
      BY <1>0, <1>1, <3>1, <3>2 DEF Lasts, TypeOK
    <3>4. k # NoCall
      BY CrossCpuAssumption
    <3>5. Awaiting' = Awaiting \cup {k}
      <4>1. ASSUME NEW x, x \in Awaiting' PROVE x \in Awaiting \cup {k}
        BY <1>1, <3>3, <4>1 DEF Awaiting
      <4>2. ASSUME NEW x, x \in Awaiting PROVE x \in Awaiting'
        BY <1>1, <3>3, <4>2 DEF Awaiting
      <4>3. k \in Awaiting'
        BY <1>1, <3>3, <3>4 DEF Awaiting
      <4> QED BY <4>1, <4>2, <4>3
    <3> QED BY <2>2, <3>2, <3>3, <3>5
  <2> QED BY <2>1, <2>2
<1>9. Onces'
  <2>1. \A d \in Cpu : Once(expired[d], Call, Id) /\ (handling'[d] # <<>> => pc'[d] = "handle")
    BY <1>1 DEF InPlace, Executing
  <2> QED BY <1>1, <1>4, <1>7, <2>1 DEF InPlace, Inboxes, Outboxes, Onces
<1>10. ASSUME NEW j \in Call, j \notin {k} PROVE Same(j)
  <2>1. j \in Awaiting' <=> j \in Awaiting
    BY <1>8, <1>10
  <2>2. j \in parked' <=> j \in parked
    BY <1>2, <1>10
  <2> QED BY <1>1, <1>3, <1>4, <1>7, <1>10, <2>1, <2>2 DEF Same
<1>11. ASSUME NEW j \in Call, j \in {k} PROVE Place(j)'
  <2>1. \A o, t \in Cpu : k \notin Items(InboxOf(o, t)') /\ k \notin Items(OutboxOf(o, t)')
    BY <1>0, <1>4, <1>5 DEF Place
  <2>2. \A d \in Cpu, kind \in Kinds : HasTask(k, d, kind)' => d = c /\ kind = "store"
    BY <1>7
  <2>3. \A d \in Cpu : k \in TaskCalls(d)' => task_queue' # task_queue
    BY <1>7, TaskMembersNext
  <2>4. \A d \in Cpu : k \in TaskCalls(d)' => k \notin parked' /\ k \notin Awaiting'
    BY <1>2, <1>5, <1>6, <1>8, <2>3
  <2>5. k \in parked' => k \notin Awaiting'
    <3>1. k \in parked' => cont' = cont
      BY <1>2, <1>5
    <3> QED BY <1>6, <1>8, <3>1
  <2>6. \A d \in Cpu : k \notin Stack(d)' /\ k \notin Items(expired'[d])
    BY <1>1, <1>3, <1>5
  <2>7. UnderWay(k)'
    <3>1. CASE task_queue' = [task_queue EXCEPT ![c] = @ \o <<TaskOf("store", k)>>]
      <4>1. PICK kind \in Kinds : kind = "store"
        BY DEF Kinds
      <4>2. task_queue' = [task_queue EXCEPT ![c] = @ \o <<TaskOf(kind, k)>>] /\ k \notin TaskCalls(c)
        BY <1>5, <3>1, <4>1
      <4>3. HasTask(k, c, kind)'
        BY <4>2, ScheduledTask
      <4> QED BY <1>5, <4>3, TaskMembersNext DEF UnderWay
    <3>2. CASE last[c] # NoCall /\ cont' = [cont EXCEPT ![last[c]] = k]
      <4>1. cont' # cont
        <5>1. last[c] \in Call /\ cont[last[c]] = NoCall /\ cont \in [Call -> Call \cup {NoCall}]
          BY <1>0, <1>1, <3>2 DEF Lasts, TypeOK
        <5> QED BY <3>2, <5>1, CrossCpuAssumption
      <4> QED BY <1>5, <1>8, <4>1 DEF UnderWay
    <3>3. CASE parked' = parked \cup {k}
      BY <3>3 DEF UnderWay
    <3> QED BY <1>2, <3>1, <3>2, <3>3
  <2> QED BY <1>1, <1>5, <1>11, <2>1, <2>2, <2>4, <2>5, <2>6, <2>7 DEF Place
<1>12. Conts'
  <2>1. \A d \in Cpu : Stack(d)' \subseteq Stack(d) /\ k \notin Stack(d)'
    BY <1>3, <1>5
  <2>2. CASE cont' = cont
    BY <1>0, <1>1, <2>1, <2>2 DEF Conts
  <2>3. CASE cont' # cont
    <3>1. PICK j \in Call : /\ cont[j] = NoCall /\ cont'[j] = k /\ Origin[j] = c
                            /\ st[j] \notin {"new", "completed"}
                            /\ \A i \in Call : i # j => cont'[i] = cont[i]
      BY <1>8, <2>3
    <3>2. \A i \in Call : cont[i] # NoCall => cont[i] # k
      BY <1>0, <1>3 DEF Conts
    <3>3. \A i, l \in Call : cont'[i] # NoCall /\ cont'[i] = cont'[l] => i = l
      BY <1>0, <3>1, <3>2 DEF Conts
    <3>4. \A i \in Call : st'[i] = "new" => cont'[i] = NoCall
      BY <1>0, <1>1, <3>1 DEF Conts
    <3>5. ASSUME NEW i \in Call, cont'[i] # NoCall
          PROVE  /\ st'[cont'[i]] \notin {"new", "submitted"} /\ \A d \in Cpu : cont'[i] \notin Stack(d)'
                 /\ st'[i] # "completed" => st'[cont'[i]] = "executing" /\ Target[cont'[i]] = Origin[i]
      <4>1. CASE i = j
        BY <1>1, <1>5, <2>1, <3>1, <4>1
      <4>2. CASE i # j
        BY <1>0, <1>1, <2>1, <3>1, <3>5, <4>2 DEF Conts
      <4> QED BY <4>1, <4>2
    <3> QED BY <3>3, <3>4, <3>5 DEF Conts
  <2> QED BY <2>2, <2>3
<1>13. Lasts'
  <2> SUFFICES ASSUME NEW d \in Cpu, user'[d], last'[d] # NoCall
               PROVE  /\ Origin[last'[d]] = d /\ st'[last'[d]] \notin {"new", "completed"}
                      /\ cont'[last'[d]] = NoCall
    BY DEF Lasts
  <2>1. /\ d # c /\ last'[d] = last[d] /\ last[d] \in Call
        /\ Origin[last[d]] = d /\ st[last[d]] \notin {"new", "completed"} /\ cont[last[d]] = NoCall
    BY <1>0, <1>1 DEF Lasts, TypeOK
  <2>2. cont'[last[d]] = cont[last[d]]
    BY <1>8, <2>1
  <2> QED BY <1>1, <2>1, <2>2
<1>14. InPlace'
  BY <1>9, <1>10, <1>11, <1>12, <1>13, MovesKeep
<1> QED BY <1>1, <1>4, <1>14

\* What push() does to the calls on their way ...
LEMMA PushedInbox ==
  ASSUME Typing, Typing', NEW c \in Cpu, NEW t \in Cpu, c # t, NEW k \in Call,
         Push(c, <<"tx", c, t>>, k), peer' = peer, handling' = handling, user' = user
  PROVE  /\ InboxOf(c, t) \in Seq(Call) /\ InboxOf(c, t)' = Append(InboxOf(c, t), k)
         /\ \A o, p \in Cpu : /\ ~(o = c /\ p = t) => InboxOf(o, p)' = InboxOf(o, p)
                              /\ OutboxOf(o, p)' = OutboxOf(o, p)
<1> DEFINE l == <<"tx", c, t>>
<1>0. TypeOK /\ l \in Lane
  BY DEF Typing, Lane
<1>1. \A o, p \in Cpu : Before(o, p)' = Before(o, p)
  BY DEF Before, Unrun
<1>2. /\ Line(l)' = Append(Line(l), k)
      /\ \A m \in Lane : m # l => Line(m)' = Line(m)
  <2> HIDE DEF l
  <2>1. Push(c, l, k)
    BY DEF l
  <2> QED BY <1>0, <2>1, PushLine
<1>3. /\ InboxOf(c, t) \in Seq(Call) /\ InboxOf(c, t)' = Append(InboxOf(c, t), k)
  <2>1. PICK b : b = Before(c, t)
    OBVIOUS
  <2>2. PICK w : w = Line(l)
    OBVIOUS
  <2>3. b \in Seq(Call) /\ w \in Seq(Call) /\ InboxOf(c, t) = b \o w /\ InboxOf(c, t) \in Seq(Call)
    BY <2>1, <2>2, InboxLine
  <2>4. InboxOf(c, t)' = b \o Append(w, k)
    BY <1>1, <1>2, <2>1, <2>2, InboxLineNext
  <2>5. b \o Append(w, k) = Append(b \o w, k)
    BY <2>3, PushBehind
  <2> QED BY <2>3, <2>4, <2>5
<1>4. ASSUME NEW o \in Cpu, NEW p \in Cpu
      PROVE  /\ ~(o = c /\ p = t) => InboxOf(o, p)' = InboxOf(o, p)
             /\ OutboxOf(o, p)' = OutboxOf(o, p)
  <2>1. CASE o = p
    BY <2>1, NoneToItself
  <2>2. CASE o # p
    <3>1. /\ <<"tx", o, p>> \in Lane /\ <<"rx", o, p>> \in Lane /\ <<"rx", o, p>> # l
          /\ <<"tx", o, p>> = l => o = c /\ p = t
      BY DEF Lane
    <3>2. /\ InboxOf(o, p) = Before(o, p) \o Line(<<"tx", o, p>>)
          /\ InboxOf(o, p)' = Before(o, p)' \o Line(<<"tx", o, p>>)'
          /\ OutboxOf(o, p) = Line(<<"rx", o, p>>) /\ OutboxOf(o, p)' = Line(<<"rx", o, p>>)'
      BY <2>2, InboxLine, InboxLineNext, OutboxLine, OutboxLineNext
    <3> HIDE DEF l
    <3> QED BY <1>1, <1>2, <3>1, <3>2
  <2> QED BY <2>1, <2>2
<1> QED BY <1>3, <1>4

\* ... and to the answers.
LEMMA PushedOutbox ==
  ASSUME Typing, Typing', NEW c \in Cpu, NEW t \in Cpu, c # t, NEW k \in Call,
         Push(t, <<"rx", c, t>>, k), peer' = peer, handling' = handling, user' = user
  PROVE  /\ OutboxOf(c, t) \in Seq(Call) /\ OutboxOf(c, t)' = Append(OutboxOf(c, t), k)
         /\ \A o, p \in Cpu : /\ ~(o = c /\ p = t) => OutboxOf(o, p)' = OutboxOf(o, p)
                              /\ InboxOf(o, p)' = InboxOf(o, p)
<1> DEFINE l == <<"rx", c, t>>
<1>0. TypeOK /\ l \in Lane
  BY DEF Typing, Lane
<1>1. \A o, p \in Cpu : Before(o, p)' = Before(o, p)
  BY DEF Before, Unrun
<1>2. /\ Line(l)' = Append(Line(l), k)
      /\ \A m \in Lane : m # l => Line(m)' = Line(m)
  <2> HIDE DEF l
  <2>1. Push(t, l, k)
    BY DEF l
  <2> QED BY <1>0, <2>1, PushLine
<1>3. /\ OutboxOf(c, t) \in Seq(Call) /\ OutboxOf(c, t)' = Append(OutboxOf(c, t), k)
  <2>1. OutboxOf(c, t) = Line(l) /\ OutboxOf(c, t)' = Line(l)' /\ OutboxOf(c, t) \in Seq(Call)
    BY OutboxLine, OutboxLineNext
  <2> QED BY <1>2, <2>1
<1>4. ASSUME NEW o \in Cpu, NEW p \in Cpu
      PROVE  /\ ~(o = c /\ p = t) => OutboxOf(o, p)' = OutboxOf(o, p)
             /\ InboxOf(o, p)' = InboxOf(o, p)
  <2>1. CASE o = p
    BY <2>1, NoneToItself
  <2>2. CASE o # p
    <3>1. /\ <<"tx", o, p>> \in Lane /\ <<"rx", o, p>> \in Lane /\ <<"tx", o, p>> # l
          /\ <<"rx", o, p>> = l => o = c /\ p = t
      BY DEF Lane
    <3>2. /\ InboxOf(o, p) = Before(o, p) \o Line(<<"tx", o, p>>)
          /\ InboxOf(o, p)' = Before(o, p)' \o Line(<<"tx", o, p>>)'
          /\ OutboxOf(o, p) = Line(<<"rx", o, p>>) /\ OutboxOf(o, p)' = Line(<<"rx", o, p>>)'
      BY <2>2, InboxLine, InboxLineNext, OutboxLine, OutboxLineNext
    <3> HIDE DEF l
    <3> QED BY <1>1, <1>2, <3>1, <3>2
  <2> QED BY <2>1, <2>2
<1> QED BY <1>3, <1>4

\* A call that is not in a queue is put at its end.
LEMMA OneCallMore ==
  ASSUME NEW q \in Seq(Call), NEW k \in Call, Once(q, Call, Id), k \notin Items(q)
  PROVE  Once(Append(q, k), Call, Id) /\ Items(Append(q, k)) = Items(q) \cup {k}
<1>1. Items(Append(q, k)) = Items(q) \cup {k}
  BY ItemsAppend
<1>2. Id[k] \notin Keys(q, Call, Id)
  BY KeysOfCalls DEF Id
<1>3. Once(Append(q, k), Call, Id)
  BY <1>2, OnceAppend
<1> QED BY <1>1, <1>3

LEMMA SubmitRemoteKeeps ==
  ASSUME Typing, InPlace, Typing', NEW c \in Cpu, NEW k \in Call, SubmitRemote(c, k)
  PROVE  /\ InPlace' /\ st[k] = "new" /\ st' = [st EXCEPT ![k] = "submitted"]
         /\ \E t \in Cpu \ {c} :
              /\ Origin[k] = c /\ Target[k] = t /\ InboxOf(c, t)' = Append(InboxOf(c, t), k)
              /\ \A o, p \in Cpu : ~(o = c /\ p = t) => InboxOf(o, p)' = InboxOf(o, p)
<1>0. TypeOK /\ Conts /\ Lasts /\ Place(k)
  BY PlacesApart DEF Typing, InPlace
<1>1. PICK t \in Cpu \ {c} : t = Target[k]
  BY CrossCpuAssumption DEF SubmitRemote
<1>2. /\ st[k] = "new" /\ st'[k] = "submitted" /\ \A j \in Call : j # k => st'[j] = st[j]
      /\ Origin[k] = c /\ user[c] /\ last'[c] = k /\ \A d \in Cpu : d # c => last'[d] = last[d]
      /\ peer' = peer /\ handling' = handling /\ user' = user /\ cont' = cont
      /\ parked' = parked /\ expired' = expired /\ pc' = pc /\ task_queue' = task_queue
      /\ Push(c, <<"tx", c, t>>, k)
  BY <1>0, <1>1 DEF SubmitRemote, Submit, TypeOK, reactorVars
<1>3. /\ InboxOf(c, t) \in Seq(Call) /\ InboxOf(c, t)' = Append(InboxOf(c, t), k)
      /\ \A o, p \in Cpu : /\ ~(o = c /\ p = t) => InboxOf(o, p)' = InboxOf(o, p)
                           /\ OutboxOf(o, p)' = OutboxOf(o, p)
  BY <1>2, PushedInbox
<1>4. PICK q : q = InboxOf(c, t)
  OBVIOUS
<1>5. Once(Append(q, k), Call, Id) /\ Items(Append(q, k)) = Items(q) \cup {k}
  <2>1. q \in Seq(Call) /\ Once(q, Call, Id) /\ k \notin Items(q)
    BY <1>0, <1>2, <1>3, <1>4 DEF InPlace, Inboxes, Place
  <2> QED BY <2>1, OneCallMore
<1>6. cont[k] = NoCall /\ \A j \in Call : cont[j] # NoCall => cont[j] \in Call /\ cont[j] # k
  BY <1>0, <1>2 DEF Conts, TypeOK
<1>7. Awaiting' = Awaiting
  BY <1>2, <1>6 DEF Awaiting
<1>8. /\ \A d \in Cpu : Stack(d)' = Stack(d) /\ TaskCalls(d)' = TaskCalls(d)
      /\ \A d \in Cpu, j \in Call, kind \in Kinds : HasTask(j, d, kind)' <=> HasTask(j, d, kind)
  BY <1>2 DEF TaskCalls, HasTask, Stack
<1>9. Onces'
  <2>1. \A o, p \in Cpu : Once(InboxOf(o, p)', Call, Id) /\ Once(OutboxOf(o, p)', Call, Id)
    <3> SUFFICES ASSUME NEW o \in Cpu, NEW p \in Cpu
                 PROVE  Once(InboxOf(o, p)', Call, Id) /\ Once(OutboxOf(o, p)', Call, Id)
      OBVIOUS
    <3>1. Once(InboxOf(o, p), Call, Id) /\ Once(OutboxOf(o, p), Call, Id)
      BY DEF InPlace, Inboxes, Outboxes
    <3>2. CASE o = c /\ p = t
      BY <1>3, <1>4, <1>5, <3>1, <3>2
    <3>3. CASE ~(o = c /\ p = t)
      BY <1>3, <3>1, <3>3
    <3> QED BY <3>2, <3>3
  <2> QED BY <1>2, <2>1 DEF InPlace, Queued, Executing, Onces
<1>10. ASSUME NEW j \in Call, j \notin {k} PROVE Same(j)
  <2>1. \A o, p \in Cpu : j \in Items(InboxOf(o, p)') <=> j \in Items(InboxOf(o, p))
    BY <1>3, <1>4, <1>5, <1>10
  <2> QED BY <1>2, <1>3, <1>7, <1>8, <1>10, <2>1 DEF Same
<1>11. ASSUME NEW j \in Call, j \in {k} PROVE Place(j)'
  <2>1. /\ \A o, p \in Cpu : k \notin Items(InboxOf(o, p)) /\ k \notin Items(OutboxOf(o, p))
        /\ \A d \in Cpu : /\ k \notin Items(expired[d]) /\ k \notin Stack(d)
                          /\ \A kind \in Kinds : ~HasTask(k, d, kind)
        /\ k \notin parked
    BY <1>0, <1>2 DEF Place
  <2>2. \A d \in Cpu : k \notin TaskCalls(d)
    BY <2>1, TaskMembers
  <2>3. \A o, p \in Cpu : /\ k \in Items(InboxOf(o, p)') => o = c /\ p = t
                          /\ k \notin Items(OutboxOf(o, p)')
    BY <1>3, <2>1
  <2>4. k \in Items(InboxOf(Origin[k], Target[k])')
    BY <1>1, <1>2, <1>3, <1>4, <1>5
  <2>5. Origin[k] = c /\ Target[k] = t /\ Origin[k] # Target[k]
    BY <1>1, <1>2
  <2> QED BY <1>2, <1>8, <1>11, <2>1, <2>2, <2>3, <2>4, <2>5 DEF Place
<1>12. Conts'
  <2>1. \A j \in Call : st'[j] = "completed" <=> st[j] = "completed"
    BY <1>2
  <2>2. \A j \in Call : cont[j] # NoCall => j # k
    BY <1>6
  <2>3. \A j \in Call : cont[j] # NoCall => st'[cont[j]] = st[cont[j]] /\ st'[j] = st[j]
    BY <1>2, <1>6, <2>2
  <2>4. \A j \in Call : st'[j] = "new" => cont[j] = NoCall
    BY <1>0, <1>2 DEF Conts
  <2> QED BY <1>0, <1>2, <1>8, <2>1, <2>3, <2>4 DEF Conts
<1>13. Lasts'
  <2> SUFFICES ASSUME NEW d \in Cpu, user'[d], last'[d] # NoCall
               PROVE  /\ Origin[last'[d]] = d /\ st'[last'[d]] \notin {"new", "completed"}
                      /\ cont'[last'[d]] = NoCall
    BY DEF Lasts
  <2>1. CASE d = c
    BY <1>2, <1>6, <2>1
  <2>2. CASE d # c
    <3>1. /\ last'[d] = last[d] /\ last[d] \in Call
          /\ Origin[last[d]] = d /\ st[last[d]] \notin {"new", "completed"} /\ cont[last[d]] = NoCall
      <4>1. user[d] /\ last'[d] = last[d] /\ last[d] # NoCall
        BY <1>2, <2>2
      <4>2. last[d] \in Call
        BY <1>0, <4>1 DEF TypeOK
      <4> QED BY <1>0, <4>1, <4>2 DEF Lasts
    <3> QED BY <1>2, <3>1
  <2> QED BY <2>1, <2>2
<1>14. InPlace'
  BY <1>9, <1>10, <1>11, <1>12, <1>13, MovesKeep
<1>15. st[k] = "new" /\ st' = [st EXCEPT ![k] = "submitted"]
  BY DEF SubmitRemote, Submit
<1> QED BY <1>1, <1>2, <1>3, <1>14, <1>15

-----------------------------------------------------------------------------
(* The function's timer, and the two tasks that follow.                    *)

LEMMA ExpireKeeps ==
  ASSUME Typing, InPlace, Typing', NEW k \in Call, Expire(k)
  PROVE  /\ InPlace' /\ \A o, t \in Cpu : InboxOf(o, t)' = InboxOf(o, t)
         /\ st' = st
<1>0. TypeOK /\ Conts /\ Lasts /\ Place(k)
  BY PlacesApart DEF Typing, InPlace
<1>1. PICK c \in Cpu : c = Target[k]
  BY CrossCpuAssumption
<1>2. /\ k \in parked /\ parked' = parked \ {k} /\ expired'[c] = Append(expired[c], k)
      /\ \A d \in Cpu : d # c => expired'[d] = expired[d]
      /\ ring' = ring /\ buf' = buf /\ peer' = peer /\ handling' = handling /\ user' = user
      /\ last' = last /\ cont' = cont /\ st' = st /\ pc' = pc /\ task_queue' = task_queue
  BY <1>0, <1>1 DEF Expire, TypeOK
<1>3. /\ \A o, t \in Cpu : InboxOf(o, t)' = InboxOf(o, t) /\ OutboxOf(o, t)' = OutboxOf(o, t)
      /\ \A d \in Cpu : Stack(d)' = Stack(d) /\ TaskCalls(d)' = TaskCalls(d)
      /\ \A d \in Cpu, j \in Call, kind \in Kinds : HasTask(j, d, kind)' <=> HasTask(j, d, kind)
  BY <1>2, SameBoxes DEF TaskCalls, HasTask
<1>4. Awaiting' = Awaiting
  BY <1>2 DEF Awaiting
<1>5. /\ st[k] = "executing" /\ k \notin Awaiting /\ Origin[k] # Target[k]
      /\ \A d \in Cpu : k \notin Stack(d) /\ k \notin TaskCalls(d) /\ k \notin Items(expired[d])
  <2>1. st[k] = "executing" /\ k \notin Awaiting /\ Origin[k] # Target[k]
    BY <1>0, <1>2 DEF Place
  <2>2. \A d \in Cpu : k \notin Stack(d) /\ k \notin TaskCalls(d) /\ k \notin Items(expired[d])
    BY <1>0, <1>2 DEF Place
  <2> QED BY <2>1, <2>2
<1>6. PICK q : q = expired[c]
  OBVIOUS
<1>7. Once(Append(q, k), Call, Id) /\ Items(Append(q, k)) = Items(q) \cup {k}
  <2>1. q \in Seq(Call) /\ Once(q, Call, Id) /\ k \notin Items(q)
    BY <1>0, <1>5, <1>6 DEF InPlace, Executing, TypeOK
  <2> QED BY <2>1, OneCallMore
<1>8. Onces'
  <2>1. \A d \in Cpu : Once(expired'[d], Call, Id)
    BY <1>2, <1>6, <1>7 DEF InPlace, Executing
  <2> QED BY <1>2, <1>3, <2>1 DEF InPlace, Inboxes, Outboxes, Queued, Executing, Onces
<1>9. ASSUME NEW j \in Call, j \notin {k} PROVE Same(j)
  <2>1. \A d \in Cpu : j \in Items(expired'[d]) <=> j \in Items(expired[d])
    BY <1>2, <1>6, <1>7, <1>9
  <2> QED BY <1>2, <1>3, <1>4, <1>9, <2>1 DEF Same
<1>10. ASSUME NEW j \in Call, j \in {k} PROVE Place(j)'
  <2>1. \A o, p \in Cpu : k \notin Items(InboxOf(o, p)) /\ k \notin Items(OutboxOf(o, p))
    BY <1>0, <1>5 DEF Place
  <2>2. \A d \in Cpu : /\ k \in Items(expired'[d]) => d = c
                       /\ \A kind \in Kinds : ~HasTask(k, d, kind)'
    BY <1>2, <1>3, <1>5, TaskMembers
  <2>3. k \notin parked' /\ k \notin Awaiting' /\ st'[k] = "executing"
    BY <1>2, <1>4, <1>5
  <2>4. UnderWay(k)'
    BY <1>1, <1>2, <1>6, <1>7 DEF UnderWay
  <2> QED BY <1>1, <1>3, <1>5, <1>10, <2>1, <2>2, <2>3, <2>4 DEF Place
<1>11. Conts' /\ Lasts'
  BY <1>0, <1>2, <1>3 DEF Conts, Lasts
<1>12. InPlace'
  BY <1>8, <1>9, <1>10, <1>11, MovesKeep
<1> QED BY <1>2, <1>3, <1>12

\* The timer's task fulfils the promise, the next one stores the result.
LEMMA RunTimerKeeps ==
  ASSUME Typing, InPlace, Typing', NEW c \in Cpu, RunTask(c), RunTimer(c) \/ RunStore(c)
  PROVE  /\ InPlace' /\ \A o, t \in Cpu : InboxOf(o, t)' = InboxOf(o, t)
         /\ \E k \in Call, v \in {"executing", "stored"} :
              st[k] = "executing" /\ st' = [st EXCEPT ![k] = v]
<1>0. TypeOK /\ task_queue[c] \in Seq(Task) /\ task_queue[c] # <<>>
  BY DEF Typing, TypeOK, RunTask
<1>1. PICK x : x = Head(task_queue[c])
  OBVIOUS
<1>2. x \in CallTask /\ x.kind \in {"timer", "store"}
  <2>1. x \in Task
    BY <1>0, <1>1, HeadTailProperties
  <2>2. x.kind \in {"timer", "store"}
    BY <1>1 DEF RunTimer, RunStore
  <2> QED BY <2>1, <2>2, CallTaskFacts
<1>3. /\ pc' = pc /\ peer' = peer /\ handling' = handling /\ cont' = cont /\ parked' = parked
      /\ expired' = expired /\ ring' = ring /\ buf' = buf /\ user' = user /\ last' = last
  BY DEF RunTask, RunTimer, RunStore
<1>4. \E y \in CallTask, v \in {"executing", "stored"} :
        /\ y.call = x.call /\ v = IF y.kind = "respond" THEN "stored" ELSE "executing"
        /\ task_queue' = [task_queue EXCEPT ![c] = Tail(@) \o <<y>>]
        /\ st' = [st EXCEPT ![x.call] = v]
  <2>1. x.call \in Call
    BY <1>2, CallTaskFacts
  <2>2. CASE RunTimer(c)
    <3>1. PICK y \in CallTask : y = TaskOf("store", x.call) /\ y.kind = "store" /\ y.call = x.call
      BY <2>1, CallTaskFacts
    <3>2. task_queue' = [task_queue EXCEPT ![c] = Tail(@) \o <<y>>] /\ st' = st /\ x.kind = "timer"
      BY <1>1, <2>2, <3>1 DEF RunTimer, TakeTask
    <3>3. st[x.call] = "executing"
      <4>1. x \in Items(task_queue[c])
        BY <1>0, <1>1, ItemsTail
      <4> QED BY <1>2, <3>2, <4>1 DEF InPlace, Queued
    <3>4. st' = [st EXCEPT ![x.call] = "executing"]
      BY <1>0, <2>1, <3>2, <3>3 DEF TypeOK
    <3> QED BY <3>1, <3>2, <3>4
  <2>3. CASE RunStore(c)
    <3>1. PICK y \in CallTask : y = TaskOf("respond", x.call) /\ y.kind = "respond" /\ y.call = x.call
      BY <2>1, CallTaskFacts
    <3>2. task_queue' = [task_queue EXCEPT ![c] = Tail(@) \o <<y>>] /\ st' = [st EXCEPT ![x.call] = "stored"]
      BY <1>1, <2>3, <3>1 DEF RunStore, TakeTask
    <3> QED BY <3>1, <3>2
  <2> QED BY <2>2, <2>3
<1>5. PICK y \in CallTask, v \in {"executing", "stored"} :
        /\ y.call = x.call /\ v = IF y.kind = "respond" THEN "stored" ELSE "executing"
        /\ task_queue' = [task_queue EXCEPT ![c] = Tail(@) \o <<y>>]
        /\ st' = [st EXCEPT ![x.call] = v]
  BY <1>4
<1>6. /\ task_queue'[c] = Tail(task_queue[c]) \o <<y>>
      /\ \A p \in Cpu : p # c => task_queue'[p] = task_queue[p]
  BY <1>0, <1>5 DEF TypeOK
<1>7. InPlace'
  BY <1>0, <1>1, <1>2, <1>3, <1>5, <1>6, NextTaskKeeps
<1>8. x.call \in Call /\ st[x.call] = "executing" /\ v \in {"executing", "stored"}
  <2>1. x \in Items(task_queue[c])
    BY <1>0, <1>1, ItemsTail
  <2> QED BY <1>2, <1>5, <2>1, CallTaskFacts DEF InPlace, Queued
<1>9. \A o, t \in Cpu : InboxOf(o, t)' = InboxOf(o, t)
  BY <1>3, SameBoxes
<1> QED BY <1>5, <1>7, <1>8, <1>9

LEMMA RunRespondKeeps ==
  ASSUME Typing, InPlace, Typing', NEW c \in Cpu, RunTask(c), RunRespond(c)
  PROVE  /\ InPlace' /\ \A o, t \in Cpu : InboxOf(o, t)' = InboxOf(o, t)
         /\ \E k \in Call : /\ st[k] = "stored" /\ st'[k] = "responded"
                            /\ \A j \in Call : j # k => st'[j] = st[j]
<1>0. TypeOK /\ Conts /\ Lasts
  BY DEF Typing, InPlace
<1>1. PICK q : q = task_queue[c]
  OBVIOUS
<1>2. PICK x : x = Head(q)
  OBVIOUS
<1>3. q \in Seq(Task) /\ q # <<>> /\ Once(q, CallTask, CallOf) /\ x \in CallTask /\ x.kind = "respond"
  <2>1. q \in Seq(Task) /\ q # <<>> /\ Once(q, CallTask, CallOf) /\ x.kind = "respond"
    BY <1>0, <1>1, <1>2 DEF TypeOK, RunTask, RunRespond, InPlace, Queued
  <2>2. x \in Task
    BY <1>2, <2>1, HeadTailProperties
  <2> QED BY <2>1, <2>2, CallTaskFacts
<1>4. PICK k \in Call : k = x.call
  BY <1>3, CallTaskFacts
<1>5. /\ Tail(q) \in Seq(Task) /\ Once(Tail(q), CallTask, CallOf)
      /\ Items(q) \cap CallTask = {x} \cup (Items(Tail(q)) \cap CallTask)
      /\ \A z \in Items(Tail(q)) \cap CallTask : z.call # k
  BY <1>2, <1>3, <1>4, HeadOfCall
<1>6. /\ Target[k] = c /\ st[k] = "stored" /\ Origin[k] # c /\ Origin[k] \in Cpu
      /\ k \notin parked /\ k \notin Awaiting
      /\ \A d \in Cpu : /\ k \notin Stack(d) /\ k \notin Items(expired[d])
                        /\ d # c => k \notin TaskCalls(d)
  <2>1. x \in Items(task_queue[c]) \cap CallTask
    BY <1>1, <1>5
  <2> QED BY <1>3, <1>4, <2>1, TaskedCall
<1>7. PICK o \in Cpu \ {c} : o = Origin[k]
  BY <1>6
<1>8. /\ task_queue'[c] = Tail(q) /\ \A d \in Cpu : d # c => task_queue'[d] = task_queue[d]
      /\ st'[k] = "responded" /\ \A j \in Call : j # k => st'[j] = st[j]
      /\ Push(c, <<"rx", o, c>>, k)
      /\ peer' = peer /\ handling' = handling /\ user' = user /\ last' = last /\ cont' = cont
      /\ parked' = parked /\ expired' = expired /\ pc' = pc
  <2>1. Tail(q) \o <<>> = Tail(q)
    BY <1>5, ConcatEmptySeq
  <2>2. task_queue' = [task_queue EXCEPT ![c] = Tail(@) \o <<>>]
    BY DEF RunRespond, TakeTask
  <2>3. task_queue'[c] = Tail(q) /\ \A d \in Cpu : d # c => task_queue'[d] = task_queue[d]
    BY <1>0, <1>1, <2>1, <2>2 DEF TypeOK
  <2>4. /\ st' = [st EXCEPT ![k] = "responded"] /\ Push(c, <<"rx", o, c>>, k)
        /\ user' = user /\ last' = last
    BY <1>1, <1>2, <1>4, <1>7 DEF RunRespond
  <2> QED BY <1>0, <2>3, <2>4 DEF RunTask, TypeOK
<1>9. /\ OutboxOf(o, c) \in Seq(Call) /\ OutboxOf(o, c)' = Append(OutboxOf(o, c), k)
      /\ \A a, p \in Cpu : /\ ~(a = o /\ p = c) => OutboxOf(a, p)' = OutboxOf(a, p)
                           /\ InboxOf(a, p)' = InboxOf(a, p)
  BY <1>8, PushedOutbox
<1>10. PICK w : w = OutboxOf(o, c)
  OBVIOUS
<1>11. Once(Append(w, k), Call, Id) /\ Items(Append(w, k)) = Items(w) \cup {k}
  <2>1. w \in Seq(Call) /\ Once(w, Call, Id) /\ k \notin Items(w)
    BY <1>6, <1>9, <1>10 DEF InPlace, Outboxes
  <2> QED BY <2>1, OneCallMore
<1>12. /\ \A d \in Cpu : Stack(d)' = Stack(d)
       /\ \A d \in Cpu, j \in Call, kind \in Kinds : j # k => (HasTask(j, d, kind)' <=> HasTask(j, d, kind))
       /\ \A d \in Cpu, kind \in Kinds : ~HasTask(k, d, kind)'
  <2>1. \A d \in Cpu : Stack(d)' = Stack(d)
    BY <1>8 DEF Stack
  <2>2. \A j \in Call, kind \in Kinds : TaskOf(kind, j) \in CallTask /\ TaskOf(kind, j).call = j
    BY CallTaskFacts DEF Kinds
  <2>3. \A j \in Call, kind \in Kinds : TaskOf(kind, j) \in Items(Tail(q)) <=>
                                        TaskOf(kind, j) \in Items(q) /\ j # k
    BY <1>4, <1>5, <2>2
  <2>4. \A d \in Cpu, kind \in Kinds : d # c => ~HasTask(k, d, kind)
    BY <1>6, TaskMembers
  <2> QED BY <1>1, <1>8, <2>1, <2>3, <2>4 DEF HasTask
<1>13. Awaiting' = Awaiting
  BY <1>6, <1>8 DEF Awaiting
<1>14. Onces'
  <2>1. \A a, p \in Cpu : Once(InboxOf(a, p)', Call, Id) /\ Once(OutboxOf(a, p)', Call, Id)
    <3> SUFFICES ASSUME NEW a \in Cpu, NEW p \in Cpu
                 PROVE  Once(InboxOf(a, p)', Call, Id) /\ Once(OutboxOf(a, p)', Call, Id)
      OBVIOUS
    <3>1. Once(InboxOf(a, p), Call, Id) /\ Once(OutboxOf(a, p), Call, Id)
      BY DEF InPlace, Inboxes, Outboxes
    <3>2. CASE a = o /\ p = c
      BY <1>9, <1>10, <1>11, <3>1, <3>2
    <3>3. CASE ~(a = o /\ p = c)
      BY <1>9, <3>1, <3>3
    <3> QED BY <3>2, <3>3
  <2>2. \A d \in Cpu : Once(task_queue'[d], CallTask, CallOf)
    BY <1>5, <1>8 DEF InPlace, Queued
  <2> QED BY <1>8, <2>1, <2>2 DEF InPlace, Executing, Onces
<1>15. ASSUME NEW j \in Call, j \notin {k} PROVE Same(j)
  <2>1. \A a, p \in Cpu : j \in Items(OutboxOf(a, p)') <=> j \in Items(OutboxOf(a, p))
    BY <1>9, <1>10, <1>11, <1>15
  <2> QED BY <1>8, <1>9, <1>12, <1>13, <1>15, <2>1 DEF Same
<1>16. ASSUME NEW j \in Call, j \in {k} PROVE Place(j)'
  <2>1. \A a, p \in Cpu : k \notin Items(InboxOf(a, p)) /\ k \notin Items(OutboxOf(a, p))
    BY <1>6 DEF InPlace, Inboxes, Outboxes
  <2>2. \A d \in Cpu : k \notin TaskCalls(d)'
    BY <1>12, TaskMembersNext
  <2>3. \A a, p \in Cpu : /\ k \in Items(OutboxOf(a, p)') => a = o /\ p = c
                          /\ k \notin Items(InboxOf(a, p)')
    BY <1>9, <2>1
  <2>4. k \in Items(OutboxOf(Origin[k], Target[k])')
    BY <1>6, <1>7, <1>9, <1>10, <1>11
  <2>5. Origin[k] = o /\ Target[k] = c /\ Origin[k] # Target[k]
    BY <1>6, <1>7
  <2> QED BY <1>6, <1>8, <1>12, <1>16, <2>2, <2>3, <2>4, <2>5 DEF Place
<1>17. Conts'
  <2>1. \A j \in Call : /\ st'[j] = "completed" <=> st[j] = "completed"
                        /\ st'[j] = "new" <=> st[j] = "new"
                        /\ st[j] \notin {"new", "submitted"} => st'[j] \notin {"new", "submitted"}
                        /\ st[j] = "executing" => st'[j] = "executing"
    BY <1>6, <1>8
  <2>2. \A j \in Call : cont[j] # NoCall => cont[j] \in Call
    BY <1>0 DEF TypeOK
  <2> QED BY <1>0, <1>8, <1>12, <2>1, <2>2 DEF Conts
<1>18. Lasts'
  <2>1. \A d \in Cpu : last[d] # NoCall => last[d] \in Call
    BY <1>0 DEF TypeOK
  <2>2. \A j \in Call : st[j] \notin {"new", "completed"} => st'[j] \notin {"new", "completed"}
    BY <1>6, <1>8
  <2> QED BY <1>0, <1>8, <2>1, <2>2 DEF Lasts
<1>19. InPlace'
  BY <1>14, <1>15, <1>16, <1>17, <1>18, MovesKeep
<1> QED BY <1>6, <1>8, <1>9, <1>19

-----------------------------------------------------------------------------
(* Several tasks of calls at once.                                         *)

LEMMA TasksOfItems ==
  ASSUME NEW e \in Seq(Call), Once(e, Call, Id), NEW kind \in Kinds
  PROVE  /\ TasksOf(kind, e) \in Seq(Task) /\ Once(TasksOf(kind, e), CallTask, CallOf)
         /\ \A i \in Kinds, j \in Call :
              TaskOf(i, j) \in Items(TasksOf(kind, e)) <=> i = kind /\ j \in Items(e)
<1> DEFINE s == TasksOf(kind, e)
           n == Len(e)
<1>1. n \in Nat /\ \A i \in 1 .. n : e[i] \in Call
  BY LenProperties
<1>2. s \in Seq(Task)
  BY TasksOfType DEF Kinds
<1>3. Len(s) = n /\ \A i \in 1 .. n : s[i] = TaskOf(kind, e[i])
  <2>1. s = [i \in 1 .. n |-> TaskOf(kind, e[i])]
    BY DEF TasksOf
  <2>2. Len([i \in 1 .. n |-> TaskOf(kind, e[i])]) = n
    BY <1>1
  <2> QED BY <2>1, <2>2
<1> HIDE DEF s, n
<1>4. \A i \in 1 .. n : CallOf[s[i]] = e[i] /\ s[i] = TaskOf(kind, e[i])
  BY <1>1, <1>3, CallTaskFacts DEF Kinds
<1>5. \A i, j \in 1 .. n : e[i] = e[j] => i = j
  BY <1>1 DEF Once, Id, n
<1>6. Once(s, CallTask, CallOf)
  BY <1>3, <1>4, <1>5 DEF Once
<1>7. \A i \in Kinds, j \in Call : TaskOf(i, j) \in Items(s) <=> i = kind /\ j \in Items(e)
  <2>1. \A i \in Kinds, j \in Call, m \in Call : TaskOf(i, j) = TaskOf(kind, m) <=> i = kind /\ j = m
    BY DEF TaskOf
  <2>2. Items(s) = {s[i] : i \in 1 .. n} /\ Items(e) = {e[i] : i \in 1 .. n}
    BY <1>3 DEF Items, n
  <2> QED BY <1>1, <1>3, <2>1, <2>2
<1> QED BY <1>2, <1>6, <1>7 DEF s

\* The calls in a queue of tasks, seen through their tasks.
LEMMA KeysOfTasks ==
  ASSUME NEW q, NEW k \in Keys(q, CallTask, CallOf)
  PROVE  k \in Call /\ \E i \in Kinds : TaskOf(i, k) \in Items(q)
<1>1. PICK x \in Items(q) \cap CallTask : k = CallOf[x]
  BY KeysOfItems
<1>2. x.kind \in Kinds /\ x.call \in Call /\ x = TaskOf(x.kind, x.call) /\ CallOf[x] = x.call
  BY DEF CallTask, TaskOf, Kinds, CallOf
<1> QED BY <1>1, <1>2

\* Tasks of calls that have none come to the end of the queue.
LEMMA ScheduledTasks ==
  ASSUME Typing, InPlace, NEW c \in Cpu, NEW s \in Seq(Task), Once(s, CallTask, CallOf),
         \A j \in Call, i \in Kinds : TaskOf(i, j) \in Items(s) => j \notin TaskCalls(c),
         task_queue' = [task_queue EXCEPT ![c] = @ \o s]
  PROVE  /\ \A d \in Cpu : Once(task_queue'[d], CallTask, CallOf)
         /\ \A d \in Cpu, j \in Call, i \in Kinds :
              HasTask(j, d, i)' <=> HasTask(j, d, i) \/ (d = c /\ TaskOf(i, j) \in Items(s))
<1>1. PICK q : q = task_queue[c]
  OBVIOUS
<1>2. q \in Seq(Task) /\ Once(q, CallTask, CallOf) /\ Keys(q, CallTask, CallOf) = TaskCalls(c)
  BY <1>1 DEF Typing, TypeOK, InPlace, Queued, TaskCalls
<1>3. task_queue'[c] = q \o s /\ \A d \in Cpu : d # c => task_queue'[d] = task_queue[d]
  BY <1>1 DEF Typing, TypeOK
<1>4. Keys(q, CallTask, CallOf) \cap Keys(s, CallTask, CallOf) = {}
  BY <1>2, KeysOfTasks
<1>5. Once(q \o s, CallTask, CallOf)
  BY <1>2, <1>4, OnceConcat
<1>6. Items(q \o s) = Items(q) \cup Items(s)
  BY <1>2, ItemsConcat
<1>7. \A d \in Cpu : Once(task_queue'[d], CallTask, CallOf)
  BY <1>3, <1>5 DEF InPlace, Queued
<1> QED BY <1>1, <1>3, <1>6, <1>7 DEF HasTask

\* The SIGALRM handler schedules the tasks of the timers that have expired.
LEMMA TimersKeep ==
  ASSUME Typing, InPlace, Typing', NEW c \in Cpu, PollSignals(c),
         task_queue' = [task_queue EXCEPT ![c] = @ \o TasksOf("timer", expired[c])],
         expired' = [expired EXCEPT ![c] = <<>>]
  PROVE  /\ InPlace' /\ st' = st
         /\ \A o, t \in Cpu : InboxOf(o, t)' = InboxOf(o, t)
<1>0. TypeOK /\ Conts /\ Lasts /\ Executing /\ pc[c] # "handle"
  BY DEF Typing, InPlace, PollSignals, LoadSignals, ClearSignals
<1>1. /\ expired'[c] = <<>> /\ \A d \in Cpu : d # c => expired'[d] = expired[d]
      /\ ring' = ring /\ buf' = buf /\ handling' = handling /\ user' = user
      /\ last' = last /\ cont' = cont /\ st' = st /\ parked' = parked
      /\ \A d \in Cpu : d # c => peer'[d] = peer[d] /\ pc'[d] = pc[d]
  BY <1>0 DEF PollSignals, LoadSignals, ClearSignals, Goto, otherVars, TypeOK
<1>2. handling[c] = <<>>
  BY <1>0 DEF Executing
<1>3. /\ \A d \in Cpu : Stack(d)' = Stack(d)
      /\ \A o, t \in Cpu : InboxOf(o, t)' = InboxOf(o, t) /\ OutboxOf(o, t)' = OutboxOf(o, t)
  <2>1. \A d \in Cpu : Stack(d)' = Stack(d) /\ Unrun(d)' = Unrun(d) /\ Unrun(c) = <<>>
    BY <1>1, <1>2 DEF Stack, Unrun
  <2>2. \A o, t \in Cpu : Before(o, t)' = Before(o, t)
    BY <1>1, <2>1 DEF Before
  <2>3. ASSUME NEW o \in Cpu, NEW t \in Cpu
        PROVE  InboxOf(o, t)' = InboxOf(o, t) /\ OutboxOf(o, t)' = OutboxOf(o, t)
    <3>1. CASE o = t
      BY <3>1, NoneToItself
    <3>2. CASE o # t
      <4>1. /\ InboxOf(o, t) = Before(o, t) \o Line(<<"tx", o, t>>)
            /\ InboxOf(o, t)' = Before(o, t)' \o Line(<<"tx", o, t>>)'
        BY <3>2, InboxLine, InboxLineNext
      <4>2. Line(<<"tx", o, t>>)' = Line(<<"tx", o, t>>)
        BY <1>1 DEF Line
      <4> QED BY <1>1, <2>2, <4>1, <4>2 DEF OutboxOf
    <3> QED BY <3>1, <3>2
  <2> QED BY <2>1, <2>3
<1>4. PICK e : e = expired[c]
  OBVIOUS
<1>5. e \in Seq(Call) /\ Once(e, Call, Id)
  BY <1>0, <1>4 DEF TypeOK, Executing
<1>6. PICK kind \in Kinds : kind = "timer"
  BY DEF Kinds
<1>7. PICK s : s = TasksOf(kind, e)
  OBVIOUS
<1>8. /\ s \in Seq(Task) /\ Once(s, CallTask, CallOf)
      /\ \A i \in Kinds, j \in Call : TaskOf(i, j) \in Items(s) <=> i = kind /\ j \in Items(e)
  BY <1>5, <1>7, TasksOfItems
<1>9. \A j \in Items(e) : /\ j \notin TaskCalls(c) /\ j \notin parked /\ j \notin Awaiting
                          /\ j \notin Stack(c) /\ st[j] = "executing" /\ Target[j] = c
  BY <1>0, <1>4 DEF Executing
<1>10. /\ \A d \in Cpu : Once(task_queue'[d], CallTask, CallOf)
       /\ \A d \in Cpu, j \in Call, i \in Kinds :
            HasTask(j, d, i)' <=> HasTask(j, d, i) \/ (d = c /\ TaskOf(i, j) \in Items(s))
  <2>1. task_queue' = [task_queue EXCEPT ![c] = @ \o s]
    BY <1>4, <1>6, <1>7
  <2>2. \A j \in Call, i \in Kinds : TaskOf(i, j) \in Items(s) => j \notin TaskCalls(c)
    BY <1>8, <1>9
  <2> QED BY <1>8, <2>1, <2>2, ScheduledTasks
<1>11. Awaiting' = Awaiting
  BY <1>1 DEF Awaiting
<1>12. Onces'
  <2>1. \A d \in Cpu : Once(expired'[d], Call, Id)
    BY <1>0, <1>1, OnceEmpty DEF Executing
  <2>2. \A d \in Cpu : handling'[d] # <<>> => pc'[d] = "handle"
    BY <1>0, <1>1, <1>2 DEF Executing
  <2> QED BY <1>3, <1>10, <2>1, <2>2 DEF InPlace, Inboxes, Outboxes, Onces
<1>13. Items(expired'[c]) = {}
  BY <1>1, ItemsOfNone
<1>14. ASSUME NEW j \in Call, j \notin Items(e) PROVE Same(j)
  <2>1. \A d \in Cpu : j \in Items(expired'[d]) <=> j \in Items(expired[d])
    BY <1>1, <1>4, <1>13, <1>14
  <2>2. \A d \in Cpu, i \in Kinds : HasTask(j, d, i)' <=> HasTask(j, d, i)
    BY <1>8, <1>10, <1>14
  <2> QED BY <1>1, <1>3, <1>11, <2>1, <2>2 DEF Same
<1>15. ASSUME NEW j \in Call, j \in Items(e) PROVE Place(j)'
  <2>0. Place(j)
    BY PlacesApart
  <2>1. \A o, t \in Cpu : j \notin Items(InboxOf(o, t)) /\ j \notin Items(OutboxOf(o, t))
    BY <1>9, <1>15, <2>0 DEF Place
  <2>2. \A d \in Cpu : /\ d # c => j \notin Items(expired[d]) /\ j \notin Stack(d)
                       /\ \A i \in Kinds : ~HasTask(j, d, i)
    <3>1. \A d \in Cpu : d # c => j \notin Items(expired[d]) /\ j \notin Stack(d)
      BY <1>9, <1>15, <2>0 DEF Place
    <3>2. \A d \in Cpu, i \in Kinds : HasTask(j, d, i) => d = c
      BY <1>9, <1>15, <2>0 DEF Place
    <3>3. \A i \in Kinds : ~HasTask(j, c, i)
      BY <1>9, <1>15, TaskMembers
    <3> QED BY <3>1, <3>2, <3>3
  <2>3. \A d \in Cpu, i \in Kinds : HasTask(j, d, i)' => d = c /\ i = "timer"
    BY <1>6, <1>8, <1>10, <2>2
  <2>4. \A d \in Cpu : j \notin Items(expired'[d]) /\ j \notin Stack(d)'
    BY <1>1, <1>3, <1>9, <1>13, <1>15, <2>2
  <2>5. Origin[j] # Target[j]
    BY <1>9, <1>15, <2>0 DEF Place
  <2>6. st'[j] = "executing" /\ Target[j] = c /\ j \notin parked' /\ j \notin Awaiting'
    BY <1>1, <1>9, <1>11, <1>15
  <2>7. UnderWay(j)'
    <3>1. HasTask(j, c, kind)'
      BY <1>8, <1>10, <1>15
    <3> QED BY <1>9, <1>15, <3>1, TaskMembersNext DEF UnderWay
  <2> QED BY <1>3, <2>1, <2>3, <2>4, <2>5, <2>6, <2>7 DEF Place
<1>16. Conts' /\ Lasts'
  BY <1>0, <1>1, <1>3 DEF Conts, Lasts
<1>17. InPlace'
  BY <1>12, <1>14, <1>15, <1>16, MovesKeep
<1> QED BY <1>1, <1>3, <1>17

-----------------------------------------------------------------------------
(* The answers arrive.                                                     *)

\* What the completed calls schedule: the storing of the results of those
\* that waited for one of them.
LEMMA ContinuationItems ==
  ASSUME Typing, Conts, NEW d \in Seq(Call), Once(d, Call, Id)
  PROVE  LET s == [i \in 1 .. Len(d) |-> Continuation(d[i])]
         IN  /\ s \in Seq(Task) /\ Once(s, CallTask, CallOf)
             /\ \A i \in Kinds, j \in Call :
                  TaskOf(i, j) \in Items(s) <=> i = "store" /\ \E x \in Items(d) : cont[x] = j
<1> DEFINE s == [i \in 1 .. Len(d) |-> Continuation(d[i])]
           n == Len(d)
<1>0. TypeOK
  BY DEF Typing
<1>1. n \in Nat /\ \A i \in 1 .. n : d[i] \in Call
  BY LenProperties
<1>2. s \in Seq(Task)
  BY <1>0, ContinuationsType
<1>3. Len(s) = n /\ \A i \in 1 .. n : s[i] = Continuation(d[i])
  BY <1>1
<1> HIDE DEF s, n
<1>4. \A x \in Call : /\ cont[x] = NoCall => Continuation(x) = UserTask /\ Continuation(x) \notin CallTask
                      /\ cont[x] # NoCall => /\ cont[x] \in Call /\ Continuation(x) = TaskOf("store", cont[x])
                                             /\ CallOf[Continuation(x)] = cont[x]
  <2>1. UserTask \notin CallTask
    BY DEF UserTask, CallTask
  <2>2. \A x \in Call : cont[x] # NoCall => cont[x] \in Call
    BY <1>0 DEF TypeOK
  <2>3. \A k \in Call : CallOf[TaskOf("store", k)] = k
    BY CallTaskFacts
  <2> QED BY <2>1, <2>2, <2>3 DEF Continuation
<1>5. \A i, j \in 1 .. n : d[i] = d[j] => i = j
  BY <1>1 DEF Once, Id, n
<1>6. Once(s, CallTask, CallOf)
  <2> SUFFICES ASSUME NEW i \in 1 .. Len(s), NEW j \in 1 .. Len(s), s[i] \in CallTask, s[j] \in CallTask,
                      CallOf[s[i]] = CallOf[s[j]]
               PROVE  i = j
    BY DEF Once
  <2>1. cont[d[i]] # NoCall /\ cont[d[j]] # NoCall /\ cont[d[i]] = cont[d[j]]
    BY <1>1, <1>3, <1>4
  <2>2. d[i] = d[j]
    BY <1>1, <1>3, <2>1 DEF Conts
  <2> QED BY <1>3, <1>5, <2>2
<1>7. \A i \in Kinds, j \in Call :
        TaskOf(i, j) \in Items(s) <=> i = "store" /\ \E x \in Items(d) : cont[x] = j
  <2> SUFFICES ASSUME NEW i \in Kinds, NEW j \in Call
               PROVE  TaskOf(i, j) \in Items(s) <=> i = "store" /\ \E x \in Items(d) : cont[x] = j
    OBVIOUS
  <2>1. \A x \in Call : TaskOf(i, j) = Continuation(x) <=> i = "store" /\ cont[x] = j
    <3>1. TaskOf(i, j) # UserTask /\ j # NoCall
      BY CrossCpuAssumption DEF TaskOf, UserTask
    <3>2. \A k \in Call : TaskOf(i, j) = TaskOf("store", k) <=> i = "store" /\ j = k
      BY DEF TaskOf
    <3> QED BY <1>4, <3>1, <3>2
  <2>2. Items(s) = {s[m] : m \in 1 .. n} /\ Items(d) = {d[m] : m \in 1 .. n}
    BY <1>3 DEF Items, n
  <2> QED BY <1>1, <1>3, <2>1, <2>2
<1> QED BY <1>2, <1>6, <1>7 DEF s, n

LEMMA PollRxKeeps ==
  ASSUME Typing, InPlace, Typing', NEW c \in Cpu, PollRx(c)
  PROVE  /\ InPlace' /\ \A o, t \in Cpu : InboxOf(o, t)' = InboxOf(o, t)
         /\ \E m \in SUBSET Call :
              /\ \A k \in m : st[k] = "responded"
              /\ \A k \in Call : st'[k] = IF k \in m THEN "completed" ELSE st[k]
<1>0. TypeOK /\ Conts /\ Lasts /\ pc[c] = "poll_rx" /\ ~user[c]
  BY DEF Typing, UserOK, InPlace, PollRx
<1>1. PICK t \in Cpu \ {c} : t = peer[c]
  BY <1>0, PolledLaneType
<1>2. PICK l \in Lane : l = <<"rx", c, t>>
  BY DEF Lane
<1>3. PolledLane(c) = l
  BY <1>0, <1>1, <1>2 DEF PolledLane
<1>4. PICK d : d = Popped(l)
  OBVIOUS
<1>5. /\ Pop(l) /\ buf' = buf
      /\ st' = [k \in Call |-> IF \E i \in DOMAIN d : d[i] = k THEN "completed" ELSE st[k]]
      /\ task_queue' = [task_queue EXCEPT ![c] = @ \o [i \in 1 .. Len(d) |-> Continuation(d[i])]]
      /\ peer' = peer /\ handling' = handling /\ user' = user /\ last' = last /\ cont' = cont
      /\ parked' = parked /\ expired' = expired
      /\ \A p \in Cpu : pc[p] = "handle" => pc'[p] = "handle"
  BY <1>0, <1>3, <1>4 DEF PollRx, Schedule, Goto, TypeOK
<1>6. /\ d \in Seq(Call) /\ Line(l)' \in Seq(Call) /\ Line(l) = d \o Line(l)'
      /\ \A m \in Lane : m # l => Line(m)' = Line(m)
  BY <1>0, <1>4, <1>5, PopLine
<1>7. PICK w : w = Line(l)'
  OBVIOUS
<1>8. OutboxOf(c, t) = d \o w /\ OutboxOf(c, t)' = w /\ w \in Seq(Call)
  BY <1>2, <1>6, <1>7, OutboxLine, OutboxLineNext
<1>9. /\ Once(d, Call, Id) /\ Once(w, Call, Id) /\ Items(d) \cap Items(w) = {}
      /\ Items(d) \subseteq Call /\ Items(OutboxOf(c, t)) = Items(d) \cup Items(w)
  <2>1. Once(d \o w, Call, Id)
    BY <1>8 DEF InPlace, Outboxes
  <2>2. Once(d, Call, Id) /\ Once(w, Call, Id) /\ Keys(d, Call, Id) \cap Keys(w, Call, Id) = {}
    BY <1>6, <1>8, <2>1, OnceSplit
  <2>3. Keys(d, Call, Id) = Items(d) /\ Keys(w, Call, Id) = Items(w) /\ Items(d) \subseteq Call
    BY <1>6, <1>8, KeysOfCalls
  <2>4. Items(d \o w) = Items(d) \cup Items(w)
    BY <1>6, <1>8, ItemsConcat
  <2> QED BY <1>8, <2>2, <2>3, <2>4
<1>10. /\ \A o, p \in Cpu : /\ InboxOf(o, p)' = InboxOf(o, p)
                            /\ ~(o = c /\ p = t) => OutboxOf(o, p)' = OutboxOf(o, p)
       /\ \A p \in Cpu : Stack(p)' = Stack(p)
  <2>1. \A o, p \in Cpu : Before(o, p)' = Before(o, p)
    BY <1>5 DEF Before, Unrun
  <2>2. ASSUME NEW o \in Cpu, NEW p \in Cpu
        PROVE  /\ InboxOf(o, p)' = InboxOf(o, p)
               /\ ~(o = c /\ p = t) => OutboxOf(o, p)' = OutboxOf(o, p)
    <3>1. CASE o = p
      BY <3>1, NoneToItself
    <3>2. CASE o # p
      <4>1. /\ <<"tx", o, p>> \in Lane /\ <<"rx", o, p>> \in Lane /\ <<"tx", o, p>> # l
            /\ <<"rx", o, p>> = l => o = c /\ p = t
        BY <1>2 DEF Lane
      <4>2. /\ InboxOf(o, p) = Before(o, p) \o Line(<<"tx", o, p>>)
            /\ InboxOf(o, p)' = Before(o, p)' \o Line(<<"tx", o, p>>)'
            /\ OutboxOf(o, p) = Line(<<"rx", o, p>>) /\ OutboxOf(o, p)' = Line(<<"rx", o, p>>)'
        BY <3>2, InboxLine, InboxLineNext, OutboxLine, OutboxLineNext
      <4> QED BY <1>6, <2>1, <4>1, <4>2
    <3> QED BY <3>1, <3>2
  <2> QED BY <1>5, <2>2 DEF Stack
\* The calls that are completed, and those that waited for them.
<1> DEFINE m == Items(d)
           waits == {cont[x] : x \in m} \ {NoCall}
<1>11. /\ \A k \in m : st[k] = "responded" /\ Origin[k] = c /\ Target[k] = t /\ st'[k] = "completed"
       /\ \A k \in Call : k \notin m => st'[k] = st[k]
  <2>1. \A k \in m : st[k] = "responded" /\ Origin[k] = c /\ Target[k] = t
    BY <1>9 DEF InPlace, Outboxes
  <2>2. m = {d[i] : i \in DOMAIN d}
    BY <1>6, ItemsType
  <2>3. \A k \in Call : st'[k] = IF k \in m THEN "completed" ELSE st[k]
    BY <1>5, <2>2
  <2> QED BY <1>9, <2>1, <2>3
<1>12. PICK s : s = [i \in 1 .. Len(d) |-> Continuation(d[i])]
  OBVIOUS
<1>13. /\ s \in Seq(Task) /\ Once(s, CallTask, CallOf)
       /\ \A i \in Kinds, j \in Call :
            TaskOf(i, j) \in Items(s) <=> i = "store" /\ \E x \in m : cont[x] = j
  BY <1>0, <1>6, <1>9, <1>12, ContinuationItems
<1> HIDE DEF m
<1>14. \A j \in waits : /\ j \in Call /\ j \in Awaiting /\ st[j] = "executing" /\ Target[j] = c /\ j \notin m
                        /\ \A p \in Cpu : j \notin Stack(p)
  <2> SUFFICES ASSUME NEW j \in waits
               PROVE  /\ j \in Call /\ j \in Awaiting /\ st[j] = "executing" /\ Target[j] = c /\ j \notin m
                      /\ \A p \in Cpu : j \notin Stack(p)
    OBVIOUS
  <2>1. PICK x \in m : cont[x] = j /\ j # NoCall
    OBVIOUS
  <2>2. x \in Call /\ st[x] # "completed" /\ Origin[x] = c
    BY <1>9, <1>11 DEF m
  <2>3. j \in Call /\ st[j] = "executing" /\ Target[j] = c /\ \A p \in Cpu : j \notin Stack(p)
    BY <1>0, <2>1, <2>2 DEF Conts, TypeOK
  <2>4. j \in Awaiting
    BY <2>1, <2>2 DEF Awaiting
  <2> QED BY <1>11, <2>3, <2>4
<1>15. Awaiting' = Awaiting \ waits
  <2>1. \A j \in Call : cont[j] # NoCall => cont[j] \in Call
    BY <1>0 DEF TypeOK
  <2>2. \A j \in Call : st'[j] # "completed" <=> st[j] # "completed" /\ j \notin m
    BY <1>11
  <2>3. ASSUME NEW x, x \in Awaiting' PROVE x \in Awaiting /\ x \notin waits
    <3>1. PICK j \in Call : x = cont[j] /\ st'[j] # "completed" /\ x # NoCall
      BY <1>5, <2>3 DEF Awaiting
    <3>2. x \in Awaiting /\ j \notin m
      BY <2>2, <3>1 DEF Awaiting
    <3>3. \A y \in m : y \in Call
      BY <1>9 DEF m
    <3>4. x \notin waits
      BY <1>0, <3>1, <3>2, <3>3 DEF Conts
    <3> QED BY <3>2, <3>4
  <2>4. ASSUME NEW x, x \in Awaiting, x \notin waits PROVE x \in Awaiting'
    <3>1. PICK j \in Call : x = cont[j] /\ st[j] # "completed" /\ x # NoCall
      BY <2>4 DEF Awaiting
    <3>2. j \notin m
      BY <2>4, <3>1
    <3> QED BY <1>5, <2>2, <3>1, <3>2 DEF Awaiting
  <2> QED BY <2>3, <2>4
<1>16. \A p \in Cpu, j \in waits : j \notin TaskCalls(p) /\ j \notin Items(expired[p]) /\ j \notin parked
  <2>1. \A p \in Cpu, j \in waits : j \notin TaskCalls(p) /\ j \notin Items(expired[p])
    BY <1>14 DEF InPlace, Executing
  <2>2. \A j \in waits : j \notin parked
    BY <1>14 DEF InPlace, Executing
  <2> QED BY <2>1, <2>2
<1>17. /\ \A p \in Cpu : Once(task_queue'[p], CallTask, CallOf)
       /\ \A p \in Cpu, j \in Call, i \in Kinds :
            HasTask(j, p, i)' <=> HasTask(j, p, i) \/ (p = c /\ TaskOf(i, j) \in Items(s))
  <2>1. task_queue' = [task_queue EXCEPT ![c] = @ \o s]
    BY <1>5, <1>12
  <2>2. \A j \in Call, i \in Kinds : TaskOf(i, j) \in Items(s) => j \in waits
    BY <1>13, CrossCpuAssumption
  <2>3. \A j \in Call, i \in Kinds : TaskOf(i, j) \in Items(s) => j \notin TaskCalls(c)
    BY <1>16, <2>2
  <2> QED BY <1>13, <2>1, <2>3, ScheduledTasks
<1>18. \A j \in Call, i \in Kinds : TaskOf(i, j) \in Items(s) <=> i = "store" /\ j \in waits
  BY <1>13, CrossCpuAssumption
<1> HIDE DEF waits
<1>19. Onces'
  <2>1. \A o, p \in Cpu : Once(InboxOf(o, p)', Call, Id) /\ Once(OutboxOf(o, p)', Call, Id)
    <3> SUFFICES ASSUME NEW o \in Cpu, NEW p \in Cpu
                 PROVE  Once(InboxOf(o, p)', Call, Id) /\ Once(OutboxOf(o, p)', Call, Id)
      OBVIOUS
    <3>1. Once(InboxOf(o, p), Call, Id) /\ Once(OutboxOf(o, p), Call, Id)
      BY DEF InPlace, Inboxes, Outboxes
    <3>2. CASE o = c /\ p = t
      BY <1>8, <1>9, <1>10, <3>1, <3>2
    <3>3. CASE ~(o = c /\ p = t)
      BY <1>10, <3>1, <3>3
    <3> QED BY <3>2, <3>3
  <2>2. \A p \in Cpu : Once(expired'[p], Call, Id) /\ (handling'[p] # <<>> => pc'[p] = "handle")
    BY <1>5 DEF InPlace, Executing
  <2> QED BY <1>17, <2>1, <2>2 DEF Onces
<1>20. ASSUME NEW j \in Call, j \notin m \cup waits PROVE Same(j)
  <2>1. \A o, p \in Cpu : j \in Items(OutboxOf(o, p)') <=> j \in Items(OutboxOf(o, p))
    BY <1>8, <1>9, <1>10, <1>20 DEF m
  <2>2. \A p \in Cpu, i \in Kinds : HasTask(j, p, i)' <=> HasTask(j, p, i)
    BY <1>17, <1>18, <1>20
  <2>3. j \in Awaiting' <=> j \in Awaiting
    BY <1>15, <1>20
  <2> QED BY <1>5, <1>10, <1>11, <1>20, <2>1, <2>2, <2>3 DEF Same
<1>21. ASSUME NEW j \in Call, j \in m PROVE Place(j)'
  <2>0. Place(j) /\ st[j] = "responded" /\ Origin[j] = c /\ Target[j] = t /\ st'[j] = "completed" /\ j \notin waits
    BY <1>11, <1>14, <1>21, PlacesApart
  <2>1. \A o, p \in Cpu : j \notin Items(InboxOf(o, p)')
    BY <1>10, <2>0 DEF Place
  <2>2. \A o, p \in Cpu : j \notin Items(OutboxOf(o, p)')
    <3> SUFFICES ASSUME NEW o \in Cpu, NEW p \in Cpu PROVE j \notin Items(OutboxOf(o, p)')
      OBVIOUS
    <3>1. CASE o = c /\ p = t
      BY <1>8, <1>9, <1>21, <3>1 DEF m
    <3>2. CASE ~(o = c /\ p = t)
      BY <1>10, <2>0, <3>2 DEF Place
    <3> QED BY <3>1, <3>2
  <2>3. \A p \in Cpu : /\ j \notin Stack(p)' /\ j \notin Items(expired'[p])
                       /\ \A i \in Kinds : ~HasTask(j, p, i)
    BY <1>5, <1>10, <2>0 DEF Place
  <2>4. \A p \in Cpu, i \in Kinds : ~HasTask(j, p, i)'
    BY <1>17, <1>18, <2>0, <2>3
  <2>5. \A p \in Cpu : j \notin TaskCalls(p)'
    BY <2>4, TaskMembersNext
  <2>6. j \notin parked'
    BY <1>5, <2>0 DEF Place
  <2> QED BY <2>0, <2>1, <2>2, <2>3, <2>4, <2>5, <2>6 DEF Place
<1>22. ASSUME NEW j \in Call, j \in waits PROVE Place(j)'
  <2>0. Place(j) /\ st[j] = "executing" /\ Target[j] = c /\ st'[j] = "executing" /\ j \notin m
    BY <1>11, <1>14, <1>22, PlacesApart
  <2>1. \A o, p \in Cpu : j \notin Items(InboxOf(o, p)')
    BY <1>10, <2>0 DEF Place
  <2>2. \A o, p \in Cpu : j \notin Items(OutboxOf(o, p)')
    <3> SUFFICES ASSUME NEW o \in Cpu, NEW p \in Cpu PROVE j \notin Items(OutboxOf(o, p)')
      OBVIOUS
    <3>0. j \notin Items(OutboxOf(o, p))
      BY <2>0 DEF Place
    <3>1. CASE o = c /\ p = t
      BY <1>8, <1>9, <3>0, <3>1 DEF m
    <3>2. CASE ~(o = c /\ p = t)
      BY <1>10, <3>0, <3>2
    <3> QED BY <3>1, <3>2
  <2>3. \A p \in Cpu : /\ j \notin Stack(p)' /\ j \notin Items(expired'[p])
                       /\ \A i \in Kinds : ~HasTask(j, p, i)
    BY <1>5, <1>10, <1>14, <1>16, <1>22, TaskMembers
  <2>4. \A p \in Cpu, i \in Kinds : HasTask(j, p, i)' => p = c /\ i = "store"
    BY <1>17, <1>18, <2>3
  <2>5. j \notin parked' /\ j \notin Awaiting' /\ Origin[j] # Target[j]
    BY <1>5, <1>15, <1>16, <1>22, <2>0 DEF Place
  <2>6. UnderWay(j)'
    <3>1. PICK kind \in Kinds : kind = "store"
      BY DEF Kinds
    <3>2. HasTask(j, c, kind)'
      BY <1>17, <1>18, <1>22, <3>1
    <3> QED BY <2>0, <3>2, TaskMembersNext DEF UnderWay
  <2> QED BY <2>0, <2>1, <2>2, <2>3, <2>4, <2>5, <2>6 DEF Place
<1>23. Conts'
  <2>1. \A j \in Call : cont[j] # NoCall => cont[j] \in Call
    BY <1>0 DEF TypeOK
  <2>2. \A j \in Call : /\ st'[j] = "new" => st[j] = "new"
                        /\ st[j] \notin {"new", "submitted"} => st'[j] \notin {"new", "submitted"}
                        /\ st[j] = "executing" => st'[j] = "executing"
                        /\ st'[j] # "completed" => st[j] # "completed"
    BY <1>11
  <2> QED BY <1>0, <1>5, <1>10, <2>1, <2>2 DEF Conts
<1>24. Lasts'
  <2> SUFFICES ASSUME NEW p \in Cpu, user'[p], last'[p] # NoCall
               PROVE  /\ Origin[last'[p]] = p /\ st'[last'[p]] \notin {"new", "completed"}
                      /\ cont'[last'[p]] = NoCall
    BY DEF Lasts
  <2>1. user[p] /\ last'[p] = last[p] /\ last[p] # NoCall /\ p # c
    BY <1>0, <1>5
  <2>2. last[p] \in Call
    BY <1>0, <2>1 DEF TypeOK
  <2>3. Origin[last[p]] = p /\ st[last[p]] \notin {"new", "completed"} /\ cont[last[p]] = NoCall
    BY <1>0, <2>1, <2>2 DEF Lasts
  <2>4. last[p] \notin m
    BY <1>11, <2>1, <2>3
  <2> QED BY <1>5, <1>11, <2>1, <2>2, <2>3, <2>4
<1>25. InPlace'
  <2>1. \A j \in Call : j \notin m \cup waits => Same(j)
    BY <1>20
  <2>2. \A j \in Call : j \in m \cup waits => Place(j)'
    BY <1>21, <1>22
  <2> DEFINE mw == m \cup waits
  <2>3. (\A j \in Call : j \notin mw => Same(j)) /\ (\A j \in Call : j \in mw => Place(j)')
    BY <2>1, <2>2
  <2> HIDE DEF mw
  <2> QED BY <1>19, <1>23, <1>24, <2>3, MovesKeep
<1>26. m \in SUBSET Call /\ (\A k \in m : st[k] = "responded")
       /\ \A k \in Call : st'[k] = IF k \in m THEN "completed" ELSE st[k]
  BY <1>9, <1>11 DEF m
<1> QED BY <1>10, <1>25, <1>26

-----------------------------------------------------------------------------
(* The steps there are, by what they do to the calls.                      *)

Fires(c) == /\ PollSignals(c) /\ expired' = [expired EXCEPT ![c] = <<>>]
            /\ task_queue' = [task_queue EXCEPT ![c] = @ \o TasksOf("timer", expired[c])]

Moves(c) ==
  \/ StartFn(c) \/ FnReturns(c) \/ PollRx(c) \/ Fires(c)
  \/ RunTask(c) /\ (RunTimer(c) \/ RunStore(c))
  \/ RunTask(c) /\ RunRespond(c)
  \/ \E k \in Call : SubmitRemote(c, k) \/ SubmitLocal(c, k)

LEMMA StillStutter ==
  ASSUME Typing, Typing', InPlace, UNCHANGED vars
  PROVE  Still
<1>1. /\ st' = st /\ cont' = cont /\ parked' = parked /\ expired' = expired /\ handling' = handling
      /\ ring' = ring /\ buf' = buf /\ peer' = peer /\ user' = user /\ last' = last
      /\ task_queue' = task_queue /\ pc' = pc
  BY DEF vars, reactorVars, crossVars
<1>2. \A l \in Lane : Line(l)' = Line(l)
  BY <1>1, SameLines
<1>3. \A p \in Cpu : TasksKept(task_queue[p], task_queue'[p])
  BY <1>1, KeptSame
<1>4. Executing
  BY DEF InPlace
<1> QED BY <1>1, <1>2, <1>3, <1>4, StillIf

LEMMA MoveOrStill ==
  ASSUME Typing, Typing', InPlace, [Next]_vars
  PROVE  Still \/ (\E c \in Cpu : Moves(c)) \/ (\E k \in Call : Expire(k))
<1>1. CASE UNCHANGED vars
  BY <1>1, StillStutter
<1>2. ASSUME NEW c \in Cpu, Start(c) PROVE Still
  BY <1>2, StillStart
<1>3. ASSUME NEW c \in Cpu, Signal(c) PROVE Still
  BY <1>3, StillReactor
<1>4. ASSUME NEW c \in Cpu, Running(c) PROVE Still \/ Moves(c)
  <2>1. CASE Boot(c) \/ IdleOrRun(c) \/ NextRound(c) \/ Sleep(c)
    BY <2>1, StillReactor
  <2>2. CASE PollSignals(c)
    <3>1. \/ task_queue' = task_queue /\ expired' = expired
          \/ Fires(c)
      BY <2>2 DEF PollSignals, LoadSignals, ClearSignals, Schedule, Fires
    <3> QED BY <2>2, <3>1, StillPoll DEF Moves
  <2>3. CASE FlushMore(c) \/ FlushEnd(c) \/ PollFlush(c)
    BY <2>3, StillFlush
  <2>4. CASE PollTx(c)
    BY <2>4, StillPopped
  <2>5. CASE NextPeer(c)
    BY <2>5, StillPoll
  <2>6. CASE TaskReturns(c)
    BY <2>6, StillUser
  <2>7. CASE RunTask(c)
    <3>1. RunUser(c) \/ RunTimer(c) \/ RunStore(c) \/ RunRespond(c)
      BY <2>7 DEF RunTask
    <3> QED BY <2>7, <3>1, StillUser DEF Moves
  <2>8. CASE PollRx(c) \/ StartFn(c) \/ FnReturns(c)
    BY <2>8 DEF Moves
  <2> QED BY <1>4, <2>1, <2>2, <2>3, <2>4, <2>5, <2>6, <2>7, <2>8 DEF Running
<1>5. ASSUME NEW c \in Cpu, NEW k \in Call, SubmitRemote(c, k) \/ SubmitLocal(c, k) PROVE Moves(c)
  BY <1>5 DEF Moves
<1> QED BY <1>1, <1>2, <1>3, <1>4, <1>5, Steps

LEMMA InPlaceStep == Typing /\ Typing' /\ InPlace /\ [Next]_vars => InPlace'
<1> SUFFICES ASSUME Typing, Typing', InPlace, [Next]_vars PROVE InPlace'
  OBVIOUS
<1>1. CASE Still
  BY <1>1, StillKeeps
<1>2. ASSUME NEW c \in Cpu, Moves(c) PROVE InPlace'
  <2>1. CASE StartFn(c)
    BY <2>1, StartFnKeeps
  <2>2. CASE FnReturns(c)
    BY <2>2, FnReturnsKeeps
  <2>3. CASE PollRx(c)
    BY <2>3, PollRxKeeps
  <2>4. CASE Fires(c)
    BY <2>4, TimersKeep DEF Fires
  <2>5. CASE RunTask(c) /\ (RunTimer(c) \/ RunStore(c))
    BY <2>5, RunTimerKeeps
  <2>6. CASE RunTask(c) /\ RunRespond(c)
    BY <2>6, RunRespondKeeps
  <2>7. ASSUME NEW k \in Call, SubmitRemote(c, k) \/ SubmitLocal(c, k) PROVE InPlace'
    BY <2>7, SubmitRemoteKeeps, SubmitLocalKeeps
  <2> QED BY <1>2, <2>1, <2>2, <2>3, <2>4, <2>5, <2>6, <2>7 DEF Moves
<1>3. ASSUME NEW k \in Call, Expire(k) PROVE InPlace'
  BY <1>3, ExpireKeeps
<1> QED BY <1>1, <1>2, <1>3, MoveOrStill

LEMMA InPlaceInit == Init /\ Typing => InPlace
<1> SUFFICES ASSUME Init, Typing PROVE InPlace
  OBVIOUS
<1>1. /\ \A c \in Cpu : task_queue[c] = <<>> /\ handling[c] = <<>> /\ ~user[c] /\ expired[c] = <<>>
      /\ \A k \in Call : st[k] = "new" /\ cont[k] = NoCall
      /\ parked = {}
  BY DEF Init, ReactorInit
<1>2. \A o, t \in Cpu : InboxOf(o, t) = <<>> /\ OutboxOf(o, t) = <<>>
  <2> SUFFICES ASSUME NEW o \in Cpu, NEW t \in Cpu PROVE InboxOf(o, t) = <<>> /\ OutboxOf(o, t) = <<>>
    OBVIOUS
  <2>1. <<"tx", o, t>> \in Lane /\ <<"rx", o, t>> \in Lane
    BY DEF Lane
  <2>2. \A l \in Lane : ring[l] = <<>> /\ buf[l] = <<>>
    BY DEF Init
  <2>3. Unrun(t) = <<>>
    BY <1>1 DEF Unrun
  <2>4. <<>> \o <<>> = <<>>
    BY EmptySeq, ConcatEmptySeq
  <2> QED BY <2>1, <2>2, <2>3, <2>4 DEF InboxOf, OutboxOf
<1>3. /\ Items(<<>>) = {} /\ Once(<<>>, Call, Id) /\ Once(<<>>, CallTask, CallOf)
      /\ Keys(<<>>, CallTask, CallOf) = {}
  BY ItemsOfNone, OnceEmpty
<1>4. \A c \in Cpu : Stack(c) = {} /\ TaskCalls(c) = {}
  BY <1>1, <1>3 DEF Stack, TaskCalls
<1>5. Inboxes /\ Outboxes /\ Queued
  BY <1>1, <1>2, <1>3 DEF Inboxes, Outboxes, Queued
<1>6. Present /\ Conts /\ Lasts
  BY <1>1 DEF Present, Conts, Lasts
<1>7. Executing
  BY <1>1, <1>3, <1>4 DEF Executing
<1> QED BY <1>5, <1>6, <1>7 DEF InPlace

LEMMA InPlaceHolds == Safe => [](Typing /\ InPlace)
<1>1. Init => Typing /\ InPlace
  BY TypingInit, InPlaceInit
<1>2. Typing /\ InPlace /\ [Next]_vars => (Typing /\ InPlace)'
  BY TypingStep, InPlaceStep
<1> QED BY <1>1, <1>2, PTL DEF Safe

-----------------------------------------------------------------------------
(* What a reader wants to know of it.                                      *)

\* The answer to a call whose function returned the future of another call is
\* not on its way before that call has completed: respond_ is chained to the
\* future process() returns (cross_cpu_queue.cpp:10).
THEOREM NestedAnswerWaits == Safe => []NestedAnswersAfterInner
<1>1. Typing /\ InPlace => NestedAnswersAfterInner
  BY DEF InPlace, Conts, NestedAnswersAfterInner
<1> QED BY <1>1, InPlaceHolds, PTL

LEMMA TimesOnce ==
  ASSUME NEW S, NEW q \in Seq(S), NEW x,
         \A i, j \in 1 .. Len(q) : q[i] = x /\ q[j] = x => i = j
  PROVE  Times(q, x) = IF x \in Items(q) THEN 1 ELSE 0
<1> DEFINE s == {i \in DOMAIN q : q[i] = x}
<1>1. DOMAIN q = 1 .. Len(q)
  BY LenProperties
<1>2. CASE x \in Items(q)
  <2>1. PICK i \in 1 .. Len(q) : q[i] = x
    BY <1>2 DEF Items
  <2>2. s = {i}
    BY <1>1, <2>1
  <2>3. Cardinality({i}) = 1
    BY FS_Singleton
  <2> QED BY <1>2, <2>2, <2>3 DEF Times
<1>3. CASE x \notin Items(q)
  <2>1. s = {}
    BY <1>1, <1>3 DEF Items
  <2>2. Cardinality({}) = 0
    BY FS_EmptySet
  <2> QED BY <1>3, <2>1, <2>2 DEF Times
<1> QED BY <1>2, <1>3

LEMMA TimesCall ==
  ASSUME NEW q \in Seq(Call), NEW k \in Call, Once(q, Call, Id)
  PROVE  Times(q, k) = IF k \in Items(q) THEN 1 ELSE 0
<1>1. \A i, j \in 1 .. Len(q) : q[i] = k /\ q[j] = k => i = j
  BY DEF Once, Id
<1> QED BY <1>1, TimesOnce

\* The calls CPU t has popped come from its peer of the moment.
LEMMA UnrunFacts ==
  ASSUME Typing, InPlace, NEW t \in Cpu
  PROVE  /\ Unrun(t) \in Seq(Call) /\ Once(Unrun(t), Call, Id)
         /\ \A k \in Items(Unrun(t)) : Origin[k] = peer[t]
<1>1. CASE Unrun(t) = <<>>
  BY <1>1, ItemsOfNone, EmptySeq
<1>2. CASE Unrun(t) # <<>>
  <2>1. handling[t] # <<>>
    BY <1>2 DEF Unrun
  <2>2. peer[t] \in Cpu \ {t}
    BY <2>1 DEF InPlace, Executing, Typing, PeerOK, Polling
  <2>3. PICK o \in Cpu \ {t} : o = peer[t]
    BY <2>2
  <2>4. PICK u : u = Unrun(t)
    OBVIOUS
  <2>5. PICK w : w = Line(<<"tx", o, t>>)
    OBVIOUS
  <2>6. u \in Seq(Call) /\ w \in Seq(Call) /\ InboxOf(o, t) = u \o w
    BY <2>3, <2>4, <2>5, InboxLine DEF Before
  <2>7. Once(u \o w, Call, Id) /\ \A k \in Items(u \o w) : Origin[k] = o
    BY <2>6 DEF InPlace, Inboxes
  <2>8. Once(u, Call, Id)
    BY <2>6, <2>7, OnceSplit
  <2>9. Items(u) \subseteq Items(u \o w)
    BY <2>6, ItemsConcat
  <2> QED BY <2>3, <2>4, <2>6, <2>7, <2>8, <2>9
<1> QED BY <1>1, <1>2

LEMMA RouteCounts ==
  ASSUME Typing, InPlace, NEW k \in Call, Origin[k] # Target[k]
  PROVE  Times(buf[Route(k)], k) + Times(ring[Route(k)], k) + Times(Unrun(Target[k]), k)
           = IF st[k] = "submitted" THEN 1 ELSE 0
<1>0. TypeOK /\ Place(k)
  BY PlacesApart DEF Typing
<1>1. PICK o \in Cpu, t \in Cpu : o = Origin[k] /\ t = Target[k] /\ o # t
  BY CrossCpuAssumption
<1>2. PICK l \in Lane : l = <<"tx", o, t>>
  BY DEF Lane
<1>3. PICK b \in Seq(Call), r \in Seq(Call) : b = buf[l] /\ r = ring[l]
  BY <1>0, <1>2, LineType
<1>4. PICK u \in Seq(Call) : u = Unrun(t) /\ Once(u, Call, Id) /\ \A j \in Items(u) : Origin[j] = peer[t]
  BY UnrunFacts
<1>5. PICK v \in Seq(Call) : v = Before(o, t)
  BY <1>1, InboxLine
<1>6. v = (IF peer[t] = o THEN u ELSE <<>>) /\ r \o b \in Seq(Call)
  BY <1>4, <1>5, ConcatProperties DEF Before
<1>7. InboxOf(o, t) = v \o (r \o b)
  BY <1>1, <1>2, <1>3, <1>5, InboxLine DEF Line
<1>8. Once(v \o (r \o b), Call, Id)
  <2>1. PICK z : z = InboxOf(o, t)
    OBVIOUS
  <2>2. Once(z, Call, Id)
    BY <2>1 DEF InPlace, Inboxes
  <2> QED BY <1>7, <2>1, <2>2
<1>9. PICK w \in Seq(Call) : w = r \o b
  BY <1>6
<1>10. /\ Once(v, Call, Id) /\ Once(w, Call, Id) /\ Items(v) \cap Items(w) = {}
       /\ Items(v \o w) = Items(v) \cup Items(w)
  <2>1. Once(v \o w, Call, Id)
    BY <1>8, <1>9
  <2>2. Once(v, Call, Id) /\ Once(w, Call, Id) /\ Keys(v, Call, Id) \cap Keys(w, Call, Id) = {}
    BY <2>1, OnceSplit
  <2>3. Keys(v, Call, Id) = Items(v) /\ Keys(w, Call, Id) = Items(w)
    BY KeysOfCalls
  <2> QED BY <2>2, <2>3, ItemsConcat
<1>11. /\ Once(r, Call, Id) /\ Once(b, Call, Id) /\ Items(r) \cap Items(b) = {}
       /\ Items(w) = Items(r) \cup Items(b)
  <2>1. Once(r \o b, Call, Id)
    BY <1>9, <1>10
  <2>2. Once(r, Call, Id) /\ Once(b, Call, Id) /\ Keys(r, Call, Id) \cap Keys(b, Call, Id) = {}
    BY <2>1, OnceSplit
  <2>3. Keys(r, Call, Id) = Items(r) /\ Keys(b, Call, Id) = Items(b)
    BY KeysOfCalls
  <2>4. Items(r \o b) = Items(r) \cup Items(b)
    BY ItemsConcat
  <2> QED BY <1>9, <2>2, <2>3, <2>4
<1>12. st[k] = "submitted" <=> k \in Items(v \o w)
  BY <1>0, <1>1, <1>7, <1>9 DEF Place
<1>13. k \in Items(u) <=> k \in Items(v)
  BY <1>1, <1>4, <1>6, ItemsOfNone
<1>14. /\ Times(b, k) = IF k \in Items(b) THEN 1 ELSE 0
       /\ Times(r, k) = IF k \in Items(r) THEN 1 ELSE 0
       /\ Times(u, k) = IF k \in Items(u) THEN 1 ELSE 0
  BY <1>4, <1>11, TimesCall
<1>15. Times(b, k) + Times(r, k) + Times(u, k) = IF st[k] = "submitted" THEN 1 ELSE 0
  BY <1>10, <1>11, <1>12, <1>13, <1>14
<1>16. Route(k) = l /\ Target[k] = t
  BY <1>1, <1>2 DEF Route
<1> QED BY <1>3, <1>4, <1>15, <1>16

LEMMA BackCounts ==
  ASSUME Typing, InPlace, NEW k \in Call, Origin[k] # Target[k]
  PROVE  Times(buf[Back(k)], k) + Times(ring[Back(k)], k) = IF st[k] = "responded" THEN 1 ELSE 0
<1>0. TypeOK /\ Place(k)
  BY PlacesApart DEF Typing
<1>1. PICK o \in Cpu, t \in Cpu : o = Origin[k] /\ t = Target[k] /\ o # t
  BY CrossCpuAssumption
<1>2. PICK l \in Lane : l = <<"rx", o, t>>
  BY DEF Lane
<1>3. PICK b \in Seq(Call), r \in Seq(Call) : b = buf[l] /\ r = ring[l]
  BY <1>0, <1>2, LineType
<1>4. OutboxOf(o, t) = r \o b
  BY <1>1, <1>2, <1>3 DEF OutboxOf
<1>5. /\ Once(r, Call, Id) /\ Once(b, Call, Id) /\ Items(r) \cap Items(b) = {}
      /\ Items(r \o b) = Items(r) \cup Items(b)
  <2>0. PICK z : z = OutboxOf(o, t)
    OBVIOUS
  <2>a. Once(z, Call, Id)
    BY <2>0 DEF InPlace, Outboxes
  <2>1. Once(r \o b, Call, Id)
    BY <1>4, <2>0, <2>a
  <2>2. Once(r, Call, Id) /\ Once(b, Call, Id) /\ Keys(r, Call, Id) \cap Keys(b, Call, Id) = {}
    BY <2>1, OnceSplit
  <2>3. Keys(r, Call, Id) = Items(r) /\ Keys(b, Call, Id) = Items(b)
    BY KeysOfCalls
  <2> QED BY <2>2, <2>3, ItemsConcat
<1>6. st[k] = "responded" <=> k \in Items(r \o b)
  BY <1>0, <1>1, <1>4 DEF Place
<1>7. /\ Times(b, k) = IF k \in Items(b) THEN 1 ELSE 0
      /\ Times(r, k) = IF k \in Items(r) THEN 1 ELSE 0
  BY <1>5, TimesCall
<1>8. Times(b, k) + Times(r, k) = IF st[k] = "responded" THEN 1 ELSE 0
  BY <1>5, <1>6, <1>7
<1>9. Back(k) = l
  BY <1>1, <1>2 DEF Back
<1> QED BY <1>3, <1>8, <1>9

LEMMA TaskCounts ==
  ASSUME Typing, InPlace, NEW k \in Call, Origin[k] # Target[k]
  PROVE  Times(task_queue[Target[k]], TaskOf("respond", k)) = IF st[k] = "stored" THEN 1 ELSE 0
<1>0. TypeOK /\ Place(k) /\ Target[k] \in Cpu
  BY PlacesApart, CrossCpuAssumption DEF Typing
<1>1. PICK q \in Seq(Task) : q = task_queue[Target[k]] /\ Once(q, CallTask, CallOf)
  BY <1>0 DEF InPlace, Queued, TypeOK
<1>2. PICK x \in CallTask : x = TaskOf("respond", k)
  BY CallTaskFacts
<1>3. \A i, j \in 1 .. Len(q) : q[i] = x /\ q[j] = x => i = j
  BY <1>1 DEF Once
<1>4. Times(q, x) = IF x \in Items(q) THEN 1 ELSE 0
  BY <1>3, TimesOnce
<1>5. x \in Items(q) <=> st[k] = "stored"
  <2>1. "respond" \in Kinds /\ (x \in Items(q) <=> HasTask(k, Target[k], "respond"))
    BY <1>1, <1>2 DEF Kinds, HasTask
  <2> QED BY <1>0, <2>1 DEF Place
<1> QED BY <1>1, <1>2, <1>4, <1>5

\* No call is lost, none is in two queues, none is run, answered or deleted
\* twice: where a call is on its way is one place, at the stage it is at.
THEOREM EachCallIsInOnePlace == Safe => []EachCallInOnePlace
<1>1. Typing /\ InPlace => EachCallInOnePlace
  BY RouteCounts, BackCounts, TaskCounts DEF EachCallInOnePlace
<1> QED BY <1>1, InPlaceHolds, PTL

-----------------------------------------------------------------------------
(* RemoteCalls is what the queues implement.                               *)

Stages == [k \in Call |-> StageOf(k)]
Waiting == [o \in Cpu |-> [t \in Cpu |-> InboxOf(o, t)]]

LEMMA StagesMove ==
  ASSUME NEW m, NEW v, TypeOK, TypeOK',
         \A k \in Call : k \notin m => StageOf(k)' = StageOf(k),
         \A k \in Call : k \in m => StageOf(k)' = v
  PROVE  Stages' = [k \in Call |-> IF k \in m THEN v ELSE Stages[k]]
BY DEF Stages

LEMMA StutterIf ==
  ASSUME \A k \in Call : StageOf(k)' = StageOf(k),
         \A o, t \in Cpu : InboxOf(o, t)' = InboxOf(o, t)
  PROVE  Abstract!vars' = Abstract!vars
<1>1. Stages' = Stages /\ Waiting' = Waiting
  BY DEF Stages, Waiting
<1> QED BY <1>1 DEF Abstract!vars, Stages, Waiting

\* One call gets to another stage.
LEMMA OneStage ==
  ASSUME NEW k \in Call, NEW v,
         StageOf(k)' = v, \A j \in Call : j # k => StageOf(j)' = StageOf(j)
  PROVE  Stages' = [Stages EXCEPT ![k] = v]
BY DEF Stages

LEMMA OneInbox ==
  ASSUME NEW o \in Cpu, NEW t \in Cpu, NEW q, InboxOf(o, t)' = q,
         \A a, p \in Cpu : ~(a = o /\ p = t) => InboxOf(a, p)' = InboxOf(a, p)
  PROVE  Waiting' = [Waiting EXCEPT ![o][t] = q]
BY DEF Waiting

LEMMA StepImplements ==
  ASSUME Typing, Typing', InPlace, [Next]_vars
  PROVE  [Abstract!Next]_Abstract!vars
<1>0. TypeOK
  BY DEF Typing
<1>1. CASE Still
  BY <1>1, StutterIf DEF Still, StageOf
<1>2. ASSUME NEW k \in Call, Expire(k) PROVE Abstract!vars' = Abstract!vars
  BY <1>2, ExpireKeeps, StutterIf DEF StageOf
<1>3. ASSUME NEW c \in Cpu, FnReturns(c) \/ Fires(c) PROVE Abstract!vars' = Abstract!vars
  <2>1. st' = st /\ \A o, t \in Cpu : InboxOf(o, t)' = InboxOf(o, t)
    BY <1>3, FnReturnsKeeps, TimersKeep DEF Fires
  <2> QED BY <2>1, StutterIf DEF StageOf
<1>4. ASSUME NEW c \in Cpu, RunTask(c), RunRespond(c) PROVE Abstract!vars' = Abstract!vars
  <2>1. PICK k \in Call : /\ st[k] = "stored" /\ st'[k] = "responded"
                          /\ \A j \in Call : j # k => st'[j] = st[j]
    BY <1>4, RunRespondKeeps
  <2>2. \A j \in Call : StageOf(j)' = StageOf(j)
    BY <2>1 DEF StageOf
  <2>3. \A o, t \in Cpu : InboxOf(o, t)' = InboxOf(o, t)
    BY <1>4, RunRespondKeeps
  <2> QED BY <2>2, <2>3, StutterIf
<1>5. ASSUME NEW c \in Cpu, RunTask(c), RunTimer(c) \/ RunStore(c)
      PROVE  (\E k \in Call : Abstract!Answer(k)) \/ Abstract!vars' = Abstract!vars
  <2>1. PICK k \in Call, v \in {"executing", "stored"} : st[k] = "executing" /\ st' = [st EXCEPT ![k] = v]
    BY <1>5, RunTimerKeeps
  <2>2. /\ \A o, t \in Cpu : InboxOf(o, t)' = InboxOf(o, t)
        /\ \A j \in Call : j # k => StageOf(j)' = StageOf(j)
        /\ st'[k] = v
    BY <1>0, <1>5, <2>1, RunTimerKeeps DEF StageOf, TypeOK
  <2>3. CASE v = "executing"
    <3>1. \A j \in Call : StageOf(j)' = StageOf(j)
      BY <2>1, <2>2, <2>3 DEF StageOf
    <3> QED BY <2>2, <3>1, StutterIf
  <2>4. CASE v = "stored"
    <3>1. StageOf(k)' = "answered" /\ StageOf(k) = "executing"
      BY <2>1, <2>2, <2>4 DEF StageOf
    <3>2. Stages' = [Stages EXCEPT ![k] = "answered"] /\ Stages[k] = "executing"
      BY <2>2, <3>1, OneStage DEF Stages
    <3>3. Waiting' = Waiting
      BY <2>2 DEF Waiting
    <3>4. Abstract!Answer(k)
      BY <3>2, <3>3 DEF Abstract!Answer, Stages, Waiting
    <3> QED BY <3>4
  <2> QED BY <2>3, <2>4
<1>6. ASSUME NEW c \in Cpu, NEW k \in Call, SubmitLocal(c, k) PROVE Abstract!RunInline(k)
  <2>1. /\ \A o, t \in Cpu : InboxOf(o, t)' = InboxOf(o, t)
        /\ Origin[k] = Target[k] /\ st[k] = "new" /\ st' = [st EXCEPT ![k] = "completed"]
    BY <1>6, SubmitLocalKeeps
  <2>2. StageOf(k) = "new" /\ StageOf(k)' = "completed" /\ \A j \in Call : j # k => StageOf(j)' = StageOf(j)
    BY <1>0, <2>1 DEF StageOf, TypeOK
  <2>3. Stages' = [Stages EXCEPT ![k] = "completed"] /\ Stages[k] = "new"
    BY <2>2, OneStage DEF Stages
  <2>4. Waiting' = Waiting
    BY <2>1 DEF Waiting
  <2> QED BY <2>1, <2>3, <2>4 DEF Abstract!RunInline, Stages, Waiting
<1>7. ASSUME NEW c \in Cpu, NEW k \in Call, SubmitRemote(c, k) PROVE Abstract!Submit(k)
  <2>1. /\ st[k] = "new" /\ st' = [st EXCEPT ![k] = "submitted"]
        /\ \E t \in Cpu \ {c} :
              /\ Origin[k] = c /\ Target[k] = t /\ InboxOf(c, t)' = Append(InboxOf(c, t), k)
              /\ \A o, p \in Cpu : ~(o = c /\ p = t) => InboxOf(o, p)' = InboxOf(o, p)
    BY <1>7, SubmitRemoteKeeps
  <2>2. PICK t \in Cpu \ {c} :
              /\ Origin[k] = c /\ Target[k] = t /\ InboxOf(c, t)' = Append(InboxOf(c, t), k)
              /\ \A o, p \in Cpu : ~(o = c /\ p = t) => InboxOf(o, p)' = InboxOf(o, p)
    BY <2>1
  <2>3. StageOf(k) = "new" /\ StageOf(k)' = "submitted" /\ \A j \in Call : j # k => StageOf(j)' = StageOf(j)
    BY <1>0, <2>1 DEF StageOf, TypeOK
  <2>4. Stages' = [Stages EXCEPT ![k] = "submitted"] /\ Stages[k] = "new"
    BY <2>3, OneStage DEF Stages
  <2>5. PICK q : q = Append(InboxOf(c, t), k)
    OBVIOUS
  <2>6. Waiting' = [Waiting EXCEPT ![c][t] = q] /\ q = Append(Waiting[c][t], k)
    <3>1. InboxOf(c, t)' = q
      BY <2>2, <2>5
    <3>2. Waiting' = [Waiting EXCEPT ![c][t] = q]
      BY <2>2, <3>1, OneInbox
    <3>3. Waiting[c][t] = InboxOf(c, t)
      BY DEF Waiting
    <3> QED BY <2>5, <3>2, <3>3
  <2>7. Waiting' = [Waiting EXCEPT ![Origin[k]][Target[k]] = Append(@, k)]
    BY <2>2, <2>6
  <2>8. Origin[k] # Target[k]
    BY <2>2
  <2> QED BY <2>4, <2>7, <2>8 DEF Abstract!Submit, Stages, Waiting
<1>8. ASSUME NEW c \in Cpu, StartFn(c) PROVE \E o \in Cpu : Abstract!Run(o, c)
  <2>1. PICK p \in Cpu \ {c}, k \in Call :
           /\ k = Head(handling[c]) /\ st'[k] = "executing"
           /\ \A j \in Call : j # k => st'[j] = st[j]
           /\ InboxOf(p, c) \in Seq(Call) /\ InboxOf(p, c) # <<>>
           /\ Head(InboxOf(p, c)) = k /\ InboxOf(p, c)' = Tail(InboxOf(p, c))
           /\ \A o, t \in Cpu : /\ ~(o = p /\ t = c) => InboxOf(o, t)' = InboxOf(o, t)
                                /\ OutboxOf(o, t)' = OutboxOf(o, t)
    BY <1>8, StartFnEffect
  <2>2. StageOf(k)' = "executing" /\ \A j \in Call : j # k => StageOf(j)' = StageOf(j)
    BY <2>1 DEF StageOf
  <2>3. Stages' = [Stages EXCEPT ![k] = "executing"]
    BY <2>2, OneStage
  <2>4. PICK q : q = Tail(InboxOf(p, c))
    OBVIOUS
  <2>5. Waiting[p][c] = InboxOf(p, c)
    BY DEF Waiting
  <2>6. Waiting' = [Waiting EXCEPT ![p][c] = q]
    <3>1. InboxOf(p, c)' = q /\ \A o, t \in Cpu : ~(o = p /\ t = c) => InboxOf(o, t)' = InboxOf(o, t)
      BY <2>1, <2>4
    <3> QED BY <3>1, OneInbox
  <2>7. /\ Waiting[p][c] # <<>> /\ Waiting' = [Waiting EXCEPT ![p][c] = Tail(@)]
        /\ Stages' = [Stages EXCEPT ![Head(Waiting[p][c])] = "executing"]
    BY <2>1, <2>3, <2>4, <2>5, <2>6
  <2>8. Abstract!Run(p, c)
    BY <2>7 DEF Abstract!Run, Stages, Waiting
  <2> QED BY <2>8
<1>9. ASSUME NEW c \in Cpu, PollRx(c)
      PROVE  (\E done \in (SUBSET Call) \ {{}} : Abstract!Complete(done)) \/ Abstract!vars' = Abstract!vars
  <2>1. \A o, t \in Cpu : InboxOf(o, t)' = InboxOf(o, t)
    BY <1>9, PollRxKeeps
  <2>2. PICK m \in SUBSET Call :
          /\ \A k \in m : st[k] = "responded"
          /\ \A k \in Call : st'[k] = IF k \in m THEN "completed" ELSE st[k]
    BY <1>9, PollRxKeeps
  <2>3. CASE m = {}
    <3>1. \A k \in Call : StageOf(k)' = StageOf(k)
      BY <2>2, <2>3 DEF StageOf
    <3> QED BY <2>1, <3>1, StutterIf
  <2>4. CASE m # {}
    <3>1. /\ \A k \in m : Stages[k] = "answered"
          /\ Stages' = [k \in Call |-> IF k \in m THEN "completed" ELSE Stages[k]]
      BY <2>2 DEF StageOf, Stages
    <3>2. Waiting' = Waiting
      BY <2>1 DEF Waiting
    <3>3. Abstract!Complete(m)
      BY <3>1, <3>2 DEF Abstract!Complete, Stages, Waiting
    <3>4. m \in (SUBSET Call) \ {{}}
      <4>1. m \in SUBSET Call
        BY <2>2
      <4>2. m \notin {{}}
        BY <2>4
      <4> QED BY <4>1, <4>2
    <3>5. \E done \in (SUBSET Call) \ {{}} : Abstract!Complete(done)
      BY <3>3, <3>4
    <3> QED BY <3>5
  <2> QED BY <2>3, <2>4
<1>10. ASSUME NEW c \in Cpu, Moves(c) PROVE Abstract!Next \/ Abstract!vars' = Abstract!vars
  BY <1>3, <1>4, <1>5, <1>6, <1>7, <1>8, <1>9, <1>10 DEF Moves, Abstract!Next
<1> QED BY <1>1, <1>2, <1>10, MoveOrStill

\* The promise of submit_to (os.h, RemoteCalls): a function is run on its target
\* exactly once, in the order its pair of CPUs submitted its functions, its
\* future is resolved after it is answered and once, for any number of CPUs and
\* calls and any size of the queues, whatever the CPUs and the timers do.
THEOREM QueuesImplementRemoteCalls == Safe => ImplementsRemoteCalls
<1>1. Init => Abstract!Init
  <2> SUFFICES ASSUME Init PROVE Abstract!Init
    OBVIOUS
  <2>1. \A k \in Call : StageOf(k) = "new"
    BY DEF Init, StageOf
  <2>2. \A o, t \in Cpu : InboxOf(o, t) = <<>>
    <3> SUFFICES ASSUME NEW o \in Cpu, NEW t \in Cpu PROVE InboxOf(o, t) = <<>>
      OBVIOUS
    <3>1. \A l \in Lane : ring[l] = <<>> /\ buf[l] = <<>>
      BY DEF Init
    <3>2. <<"tx", o, t>> \in Lane /\ Unrun(t) = <<>>
      BY DEF Lane, Unrun, Init
    <3>3. <<>> \o <<>> = <<>>
      BY EmptySeq, ConcatEmptySeq
    <3> QED BY <3>1, <3>2, <3>3 DEF InboxOf
  <2> QED BY <2>1, <2>2 DEF Abstract!Init
<1>2. Typing /\ InPlace /\ Typing' /\ [Next]_vars => [Abstract!Next]_Abstract!vars
  BY StepImplements
<1>3. Safe => []Typing
  BY InPlaceHolds, PTL
<1> QED BY <1>1, <1>2, InPlaceHolds, PTL DEF Safe, ImplementsRemoteCalls, Abstract!Safe

-----------------------------------------------------------------------------
(* What is left in a queue_buffer when its producer goes to sleep.         *)

\* CPU o flushes its lane to t before it next goes to sleep: its round of polls
\* has yet to get to t, or found something to do.
WillFlush(o, t) ==
  \/ pc[o] \in Starting \cup {"boot", "signal", "clear", "tasks"}
  \/ pc[o] \in Polling /\ peer[o] < t
  \/ pc[o] = "flush_tx" /\ peer[o] = t
  \/ cpu_active[o]

\* A call that is ahead of the ones left behind, and that t owes o an answer to.
Forerunner(k, o, t) ==
  InFlight(k) /\ Origin[k] = o /\ Target[k] = t /\ k \notin Items(buf[<<"tx", o, t>>])

\* While a CPU has calls to run it has found something to do, no CPU calls
\* itself through a queue, and what stays in a queue_buffer will be flushed or
\* has a forerunner.
LeftBehind ==
  /\ \A c \in Cpu : handling[c] # <<>> => cpu_active[c]
  /\ \A l \in Lane \ Link : buf[l] = <<>>
  /\ \A o, t \in Cpu : o # t /\ buf[<<"tx", o, t>>] # <<>> =>
       WillFlush(o, t) \/ \E k \in Call : Forerunner(k, o, t)

\* The flushes and the pushes are what changes a queue_buffer.
LEMMA BufSteps ==
  ASSUME [Next]_vars
  PROVE  \/ buf' = buf
         \/ \E c \in Cpu : FlushMore(c) \/ PollFlush(c) \/ (RunTask(c) /\ RunRespond(c))
         \/ \E c \in Cpu, k \in Call : SubmitRemote(c, k)
<1>1. CASE UNCHANGED vars
  BY <1>1 DEF vars, crossVars
<1>2. ASSUME NEW c \in Cpu, Start(c) PROVE buf' = buf
  BY <1>2 DEF Start, crossVars
<1>3. ASSUME NEW c \in Cpu, Running(c)
      PROVE  buf' = buf \/ FlushMore(c) \/ PollFlush(c) \/ (RunTask(c) /\ RunRespond(c))
  <2>1. Boot(c) \/ PollSignals(c) \/ IdleOrRun(c) \/ NextRound(c) \/ Sleep(c) => buf' = buf
    BY DEF Boot, PollSignals, IdleOrRun, NextRound, Sleep, crossVars, otherVars
  <2>2. FlushEnd(c) \/ PollRx(c) \/ PollTx(c) \/ StartFn(c) \/ FnReturns(c) => buf' = buf
    BY DEF FlushEnd, PollRx, PollTx, StartFn, FnReturns
  <2>3. NextPeer(c) \/ TaskReturns(c) => buf' = buf
    BY DEF NextPeer, TaskReturns, otherVars
  <2>4. RunTask(c) => buf' = buf \/ RunRespond(c)
    BY DEF RunTask, RunUser, RunTimer, RunStore
  <2> QED BY <1>3, <2>1, <2>2, <2>3, <2>4 DEF Running
<1>4. ASSUME NEW c \in Cpu, Signal(c) PROVE buf' = buf
  BY <1>4 DEF Signal, crossVars
<1>5. ASSUME NEW c \in Cpu, NEW k \in Call, SubmitLocal(c, k) PROVE buf' = buf
  BY <1>5 DEF SubmitLocal
<1>6. ASSUME NEW k \in Call, Expire(k) PROVE buf' = buf
  BY <1>6 DEF Expire
<1> QED BY <1>1, <1>2, <1>3, <1>4, <1>5, <1>6, Steps

\* A flush makes a queue_buffer shorter and leaves the others alone.
LEMMA MoveBuf ==
  ASSUME TypeOK, NEW l \in Lane, NEW q, q = buf[l], q # <<>>, MoveOne(l, q)
  PROVE  /\ \A m \in Lane : m # l => buf'[m] = buf[m]
         /\ Items(buf'[l]) \subseteq Items(buf[l])
         /\ buf'[l] \in Seq(Call) /\ ring'[l] # <<>>
<1>1. q \in Seq(Call) /\ ring[l] \in Seq(Call)
  BY DEF TypeOK
<1>2. Tail(q) \in Seq(Call) /\ Head(q) \in Call /\ Items(Tail(q)) \subseteq Items(q)
  BY <1>1, ItemsTail
<1>3. Append(ring[l], Head(q)) # <<>>
  BY <1>1, <1>2, AppendProperties
<1> QED BY <1>2, <1>3 DEF MoveOne, TypeOK

LEMMA FlushBuf ==
  ASSUME TypeOK, NEW c \in Cpu, NEW l \in Lane, NEW q, q = buf[l], BeginFlush(c, l, q)
  PROVE  /\ \A m \in Lane : m # l => buf'[m] = buf[m]
         /\ Items(buf'[l]) \subseteq Items(buf[l])
         /\ buf'[l] # <<>> => ring'[l] # <<>>
<1>1. CASE q # <<>> /\ HasRoom(l)
  <2>1. MoveOne(l, q)
    BY <1>1 DEF BeginFlush
  <2> QED BY <1>1, <2>1, MoveBuf
<1>2. CASE ~(q # <<>> /\ HasRoom(l))
  <2>1. buf' = [buf EXCEPT ![l] = q] /\ ring' = ring
    BY <1>2 DEF BeginFlush
  <2>2. buf' = buf
    BY <2>1 DEF TypeOK
  <2>3. q # <<>> => ring[l] # <<>>
    <3>1. ~HasRoom(l) => Len(ring[l]) # 0
      BY CrossCpuAssumption DEF HasRoom
    <3>2. Len(<<>>) = 0
      BY EmptySeq
    <3> QED BY <1>2, <3>1, <3>2
  <2> QED BY <2>1, <2>2, <2>3
<1> QED BY <1>1, <1>2

\* A push is to one lane.
LEMMA PushBuf ==
  ASSUME TypeOK, NEW c \in Cpu, NEW l \in Lane, NEW k \in Call, Push(c, l, k)
  PROVE  \A m \in Lane : m # l => buf'[m] = buf[m]
<1> PICK q : q = Append(buf[l], k)
  OBVIOUS
<1>1. buf' = [buf EXCEPT ![l] = q] \/ MoveOne(l, q)
  BY DEF Push, BeginFlush
<1> QED BY <1>1 DEF MoveOne, TypeOK

\* The respond_ of a task goes into the lane of its call.
LEMMA RespondLane ==
  ASSUME Typing, InPlace, NEW c \in Cpu, RunTask(c), RunRespond(c)
  PROVE  \E k \in Call : /\ Push(c, <<"rx", Origin[k], c>>, k) /\ <<"rx", Origin[k], c>> \in Link
<1> PICK x : x = Head(task_queue[c])
  OBVIOUS
<1>1. task_queue[c] \in Seq(Task) /\ task_queue[c] # <<>>
  BY DEF RunTask, Typing, TypeOK
<1>2. x \in Task /\ x.kind = "respond" /\ x \in Items(task_queue[c])
  BY <1>1, ItemsTail DEF RunRespond
<1>3. x \in CallTask /\ x.call \in Call
  BY <1>2 DEF Task, UserTask, CallTask
<1>4. Target[x.call] = c /\ st[x.call] = "stored"
  BY <1>2, <1>3 DEF InPlace, Queued
<1>5. Origin[x.call] \in Cpu /\ Origin[x.call] # c
  BY <1>3, <1>4, CrossCpuAssumption DEF InPlace, Present
<1>6. <<"rx", Origin[x.call], c>> \in Link
  BY <1>5 DEF Link, Lane
<1>7. Push(c, <<"rx", Origin[x.call], c>>, x.call)
  BY DEF RunRespond
<1> QED BY <1>3, <1>6, <1>7

\* Between two CPUs calls wait for the poll of the answers before: a step adds to
\* a queue_buffer of calls only when user code of its producer submits.
LEMMA LaneBuf ==
  ASSUME Typing, InPlace, NEW o \in Cpu, NEW t \in Cpu, o # t, [Next]_vars,
         \A k \in Call : ~SubmitRemote(o, k)
  PROVE  Items(buf'[<<"tx", o, t>>]) \subseteq Items(buf[<<"tx", o, t>>])
<1> PICK l : l = <<"tx", o, t>>
  OBVIOUS
<1>0. TypeOK /\ l \in Lane
  BY DEF Typing, Lane
<1>1. ASSUME NEW c \in Cpu, FlushMore(c) PROVE Items(buf'[l]) \subseteq Items(buf[l])
  <2>1. flushing[c] \in Lane
    BY <1>0, <1>1 DEF FlushMore, TypeOK
  <2>2. PICK m \in Lane : m = flushing[c]
    BY <2>1
  <2>3. PICK q : q = buf[m]
    OBVIOUS
  <2>4. q # <<>> /\ MoveOne(m, q)
    BY <1>1, <2>2, <2>3 DEF FlushMore
  <2> QED BY <1>0, <2>2, <2>3, <2>4, MoveBuf
<1>2. ASSUME NEW c \in Cpu, PollFlush(c) PROVE Items(buf'[l]) \subseteq Items(buf[l])
  <2>1. PolledLane(c) \in Lane
    BY <1>2, PolledLaneType DEF PollFlush
  <2>2. PICK m \in Lane : m = PolledLane(c)
    BY <2>1
  <2>3. PICK q : q = buf[m]
    OBVIOUS
  <2>4. BeginFlush(c, m, q)
    BY <1>2, <2>2, <2>3 DEF PollFlush
  <2> QED BY <1>0, <2>2, <2>3, <2>4, FlushBuf
<1>3. ASSUME NEW c \in Cpu, RunTask(c), RunRespond(c) PROVE buf'[l] = buf[l]
  <2>1. PICK k \in Call : /\ Push(c, <<"rx", Origin[k], c>>, k)
                          /\ <<"rx", Origin[k], c>> \in Link
    BY <1>3, RespondLane
  <2>2. <<"rx", Origin[k], c>> \in Lane /\ <<"rx", Origin[k], c>> # l
    BY <2>1 DEF Link
  <2> QED BY <1>0, <2>1, <2>2, PushBuf
<1>4. ASSUME NEW c \in Cpu, NEW k \in Call, SubmitRemote(c, k) PROVE buf'[l] = buf[l]
  <2>1. <<"tx", c, Target[k]>> \in Lane /\ <<"tx", c, Target[k]>> # l
    BY <1>4, CrossCpuAssumption DEF Lane
  <2>2. Push(c, <<"tx", c, Target[k]>>, k)
    BY <1>4 DEF SubmitRemote
  <2> QED BY <1>0, <2>1, <2>2, PushBuf
<1> QED BY <1>1, <1>2, <1>3, <1>4, BufSteps

\* No CPU calls itself through a queue.
LEMMA OwnBuf ==
  ASSUME Typing, InPlace, NEW l \in Lane \ Link, buf[l] = <<>>, [Next]_vars
  PROVE  buf'[l] = <<>>
<1>0. TypeOK
  BY DEF Typing
<1>1. ASSUME NEW c \in Cpu, FlushMore(c) PROVE buf'[l] = buf[l]
  <2>1. flushing[c] \in Lane
    BY <1>0, <1>1 DEF FlushMore, TypeOK
  <2>2. PICK m \in Lane : m = flushing[c]
    BY <2>1
  <2>3. PICK q : q = buf[m]
    OBVIOUS
  <2>4. q # <<>> /\ MoveOne(m, q)
    BY <1>1, <2>2, <2>3 DEF FlushMore
  <2> QED BY <1>0, <2>2, <2>3, <2>4, MoveBuf
<1>2. ASSUME NEW c \in Cpu, PollFlush(c) PROVE buf'[l] = buf[l]
  <2>1. PolledLane(c) \in Link
    BY <1>2, PolledLaneType DEF PollFlush, Link
  <2>2. PICK m \in Lane : m = PolledLane(c)
    BY <2>1 DEF Link
  <2>3. PICK q : q = buf[m]
    OBVIOUS
  <2>4. BeginFlush(c, m, q)
    BY <1>2, <2>2, <2>3 DEF PollFlush
  <2> QED BY <1>0, <2>1, <2>2, <2>3, <2>4, FlushBuf
<1>3. ASSUME NEW c \in Cpu, RunTask(c), RunRespond(c) PROVE buf'[l] = buf[l]
  <2>1. PICK k \in Call : /\ Push(c, <<"rx", Origin[k], c>>, k)
                          /\ <<"rx", Origin[k], c>> \in Link
    BY <1>3, RespondLane
  <2>2. <<"rx", Origin[k], c>> \in Lane /\ <<"rx", Origin[k], c>> # l
    BY <2>1 DEF Link
  <2> QED BY <1>0, <2>1, <2>2, PushBuf
<1>4. ASSUME NEW c \in Cpu, NEW k \in Call, SubmitRemote(c, k) PROVE buf'[l] = buf[l]
  <2>1. <<"tx", c, Target[k]>> \in Link
    BY <1>4, CrossCpuAssumption DEF Link, Lane, SubmitRemote
  <2>2. Push(c, <<"tx", c, Target[k]>>, k)
    BY <1>4 DEF SubmitRemote
  <2>3. <<"tx", c, Target[k]>> \in Lane /\ <<"tx", c, Target[k]>> # l
    BY <2>1 DEF Link
  <2> QED BY <1>0, <2>2, <2>3, PushBuf
<1> QED BY <1>1, <1>2, <1>3, <1>4, BufSteps

\* What a CPU has popped to run counts as activity until it decides again.
LEMMA BusyHandling ==
  ASSUME Typing, InPlace, NEW p \in Cpu, handling[p] # <<>> => cpu_active[p], [Next]_vars
  PROVE  handling'[p] # <<>> => cpu_active'[p]
<1>0. /\ cpu_active \in [Cpu -> BOOLEAN] /\ handling \in [Cpu -> Seq(Call)]
      /\ pc \in [Cpu -> Labels] /\ TypeOK
  BY DEF Typing, TypeOK
<1>1. handling[p] # <<>> => pc[p] = "handle"
  BY DEF InPlace, Executing
<1>2. CASE UNCHANGED vars
  BY <1>2 DEF vars, reactorVars, crossVars
<1>3. ASSUME NEW c \in Cpu, Start(c) PROVE handling' = handling /\ cpu_active' = cpu_active
  BY <1>0, <1>3, StartFacts DEF crossVars
<1>4. ASSUME NEW c \in Cpu, Running(c) \/ Signal(c) PROVE handling'[p] # <<>> => cpu_active'[p]
  <2>1. CASE Boot(c) \/ NextRound(c) \/ Sleep(c) \/ Signal(c)
    BY <2>1 DEF Boot, NextRound, Sleep, Signal, InitPollers, EndBatch, CheckPending, Deliver,
                crossVars
  <2>2. CASE PollSignals(c)
    BY <1>0, <2>2 DEF PollSignals, LoadSignals, ClearSignals, SetActive, otherVars
  <2>3. CASE IdleOrRun(c)
    BY <1>0, <1>1, <2>3 DEF IdleOrRun, Decide, crossVars
  <2>4. CASE FlushMore(c) \/ PollFlush(c) \/ StartFn(c) \/ NextPeer(c) \/ TaskReturns(c) \/ RunTask(c)
    BY <2>4 DEF FlushMore, PollFlush, StartFn, NextPeer, TaskReturns, RunTask, reactorVars, otherVars
  <2>5. CASE FlushEnd(c)
    BY <1>0, <2>5 DEF FlushEnd, SetActive
  <2>6. CASE PollRx(c)
    BY <1>0, <2>6 DEF PollRx, SetActive
  <2>7. CASE PollTx(c)
    BY <1>0, <2>7 DEF PollTx, SetActive
  <2>8. CASE FnReturns(c)
    <3>1. /\ handling' = [handling EXCEPT ![c] = Tail(@)] /\ handling[c] # <<>>
          /\ cpu_active' = cpu_active
      BY <2>8 DEF FnReturns, Typing, UserOK
    <3> QED BY <1>0, <3>1
  <2> QED BY <1>4, <2>1, <2>2, <2>3, <2>4, <2>5, <2>6, <2>7, <2>8 DEF Running
<1>5. ASSUME NEW c \in Cpu, NEW k \in Call, SubmitRemote(c, k) \/ SubmitLocal(c, k)
      PROVE  handling' = handling /\ cpu_active' = cpu_active
  BY <1>5 DEF SubmitRemote, SubmitLocal, reactorVars
<1>6. ASSUME NEW k \in Call, Expire(k) PROVE handling' = handling /\ cpu_active' = cpu_active
  BY <1>6 DEF Expire
<1> QED BY <1>2, <1>3, <1>4, <1>5, <1>6, Steps

\* A CPU that is to flush a lane does so before it sleeps.
LEMMA TurnStep ==
  ASSUME Typing, NEW o \in Cpu, NEW t \in Cpu, o # t, WillFlush(o, t), [Next]_vars
  PROVE  \/ WillFlush(o, t)'
         \/ PollFlush(o) /\ PolledLane(o) = <<"tx", o, t>>
<1>0. /\ pc \in [Cpu -> Labels] /\ cpu_active \in [Cpu -> BOOLEAN] /\ peer \in [Cpu -> 0 .. N]
      /\ TypeOK
  BY DEF Typing, TypeOK
<1>1. ASSUME pc'[o] = pc[o], peer'[o] = peer[o], cpu_active[o] => cpu_active'[o]
      PROVE  WillFlush(o, t)'
  BY <1>1 DEF WillFlush
<1>2. CASE UNCHANGED vars
  BY <1>1, <1>2 DEF vars, reactorVars, crossVars
<1>3. ASSUME NEW c \in Cpu, Start(c) PROVE WillFlush(o, t)'
  <2>1. /\ UNCHANGED <<cpu_active, peer>> /\ pc'[c] \in Starting \cup {"boot"}
        /\ \A p \in Cpu : p # c => pc'[p] = pc[p]
    BY <1>0, <1>3, StartFacts DEF crossVars
  <2> QED BY <1>1, <2>1 DEF WillFlush
<1>4. ASSUME NEW c \in Cpu, Running(c) \/ Signal(c), c # o PROVE WillFlush(o, t)'
  <2>1. CASE Boot(c) \/ NextRound(c) \/ Sleep(c) \/ Signal(c) \/ IdleOrRun(c)
    BY <1>0, <1>1, <1>4, <2>1
       DEF Boot, NextRound, Sleep, Signal, IdleOrRun, InitPollers, EndBatch, CheckPending,
           Deliver, Decide, Goto, crossVars
  <2>2. CASE PollSignals(c)
    BY <1>0, <1>1, <1>4, <2>2 DEF PollSignals, LoadSignals, ClearSignals, SetActive, Goto
  <2>3. CASE FlushMore(c) \/ StartFn(c) \/ TaskReturns(c) \/ RunTask(c) \/ FnReturns(c)
    BY <1>1, <2>3 DEF FlushMore, StartFn, TaskReturns, RunTask, FnReturns, reactorVars
  <2>4. CASE FlushEnd(c) \/ PollFlush(c) \/ PollRx(c) \/ PollTx(c) \/ NextPeer(c)
    BY <1>0, <1>1, <1>4, <2>4 DEF FlushEnd, PollFlush, PollRx, PollTx, NextPeer, SetActive, Goto
  <2> QED BY <1>4, <2>1, <2>2, <2>3, <2>4 DEF Running
<1>5. CASE Running(o) \/ Signal(o)
  <2>1. CASE Boot(o) \/ NextRound(o)
    BY <1>0, <2>1 DEF Boot, NextRound, InitPollers, EndBatch, Goto, WillFlush
  <2>2. CASE Signal(o)
    BY <1>0, <1>1, <2>2 DEF Signal, Deliver, crossVars, WillFlush
  <2>3. CASE PollSignals(o)
    <3>1. CASE pc'[o] = "clear"
      BY <3>1 DEF WillFlush
    <3>2. CASE ClearSignals(o, PollLabel(o, 0), TasksOf("timer", expired[o]))
      BY <1>0, <3>2 DEF ClearSignals, SetActive, WillFlush
    <3>3. CASE LoadSignals(o, PollLabel(o, 0)) /\ pc'[o] # "clear"
      <4>1. /\ pc' = [pc EXCEPT ![o] = PollLabel(o, 0)]
            /\ peer' = [peer EXCEPT ![o] = PeerFrom(o, 0)]
        BY <1>0, <2>3, <3>3 DEF PollSignals, LoadSignals, Goto
      <4>2. 0 \in 0 .. N /\ t >= 0 /\ ~(t < 0)
        BY ReactorAssumption DEF Cpu
      <4>3. PollLabel(o, 0) = "flush_tx" /\ t >= PeerFrom(o, 0) /\ PeerFrom(o, 0) \in 0 .. N
        BY <4>2, PeerFacts
      <4>4. pc'[o] = "flush_tx" /\ peer'[o] = PeerFrom(o, 0)
        BY <1>0, <4>1, <4>3
      <4>5. peer'[o] < t \/ peer'[o] = t
        BY <4>3, <4>4, ReactorAssumption DEF Cpu
      <4> QED BY <4>4, <4>5 DEF WillFlush, Polling
    <3> QED BY <2>3, <3>1, <3>2, <3>3 DEF PollSignals
  <2>4. CASE IdleOrRun(o)
    <3>1. pc[o] = "decide"
      BY <2>4 DEF IdleOrRun, Decide
    <3>2. cpu_active[o]
      BY <3>1 DEF WillFlush, Polling, Starting, Latch
    <3>3. pc'[o] = "tasks"
      BY <1>0, <2>4, <3>2 DEF IdleOrRun, Decide, Idle, Goto
    <3> QED BY <3>3 DEF WillFlush
  <2>5. CASE Sleep(o)
    <3>1. pc[o] = "masked" /\ cpu_active' = cpu_active
      BY <2>5 DEF Sleep, CheckPending
    <3> QED BY <3>1 DEF WillFlush, Polling, Starting, Latch
  <2>6. CASE FlushMore(o) \/ StartFn(o) \/ TaskReturns(o) \/ RunTask(o) \/ FnReturns(o)
    BY <1>1, <2>6 DEF FlushMore, StartFn, TaskReturns, RunTask, FnReturns, reactorVars
  <2>7. CASE FlushEnd(o)
    BY <1>0, <1>1, <2>7 DEF FlushEnd, SetActive
  <2>8. CASE PollFlush(o) \/ PollRx(o) \/ PollTx(o)
    <3>1. /\ peer' = peer
          /\ cpu_active[o] => cpu_active'[o]
          /\ pc[o] \in Polling /\ pc'[o] \in Polling
          /\ pc[o] = "flush_tx" => PollFlush(o)
      BY <1>0, <2>8 DEF PollFlush, PollRx, PollTx, SetActive, Goto, Polling
    <3>2. CASE pc[o] = "flush_tx" /\ peer[o] = t
      BY <3>1, <3>2, PolledLaneType
    <3>3. CASE ~(pc[o] = "flush_tx" /\ peer[o] = t)
      <4>1. (pc[o] \in Polling /\ peer[o] < t) \/ cpu_active[o]
        BY <3>1, <3>3 DEF WillFlush, Polling, Starting, Latch
      <4> QED BY <3>1, <4>1 DEF WillFlush
    <3> QED BY <3>2, <3>3
  <2>9. CASE NextPeer(o)
    <3>1. /\ pc[o] = "handle" /\ cpu_active' = cpu_active
          /\ pc' = [pc EXCEPT ![o] = PollLabel(o, peer[o] + 1)]
          /\ peer' = [peer EXCEPT ![o] = PeerFrom(o, peer[o] + 1)]
      BY <1>0, <2>9 DEF NextPeer, Goto
    <3>2. CASE cpu_active[o]
      BY <3>1, <3>2 DEF WillFlush
    <3>3. CASE ~cpu_active[o]
      <4>1. peer[o] < t
        BY <3>1, <3>3 DEF WillFlush, Polling, Starting, Latch
      <4>2. peer[o] + 1 \in 0 .. N /\ t >= peer[o] + 1 /\ ~(t < peer[o] + 1)
        BY <1>0, <4>1, ReactorAssumption DEF Cpu
      <4>3. /\ PollLabel(o, peer[o] + 1) = "flush_tx"
            /\ PeerFrom(o, peer[o] + 1) \in 0 .. N
            /\ t >= PeerFrom(o, peer[o] + 1)
        BY <4>2, PeerFacts
      <4>4. pc'[o] = "flush_tx" /\ peer'[o] = PeerFrom(o, peer[o] + 1)
        BY <1>0, <3>1, <4>3
      <4>5. peer'[o] < t \/ peer'[o] = t
        BY <4>3, <4>4, ReactorAssumption DEF Cpu
      <4> QED BY <4>4, <4>5 DEF WillFlush, Polling
    <3> QED BY <3>2, <3>3
  <2> QED BY <1>5, <2>1, <2>2, <2>3, <2>4, <2>5, <2>6, <2>7, <2>8, <2>9 DEF Running
<1>6. ASSUME NEW c \in Cpu, NEW k \in Call, SubmitRemote(c, k) \/ SubmitLocal(c, k)
      PROVE  WillFlush(o, t)'
  BY <1>1, <1>6 DEF SubmitRemote, SubmitLocal, reactorVars
<1>7. ASSUME NEW k \in Call, Expire(k) PROVE WillFlush(o, t)'
  BY <1>1, <1>7 DEF Expire
<1> QED BY <1>2, <1>3, <1>4, <1>5, <1>6, <1>7, Steps

\* A call is completed by the poll of the answers on its own CPU, which then has
\* found something to do.
LEMMA FinishedCalls ==
  ASSUME Typing, InPlace, NEW k \in Call, InFlight(k), [Next]_vars
  PROVE  InFlight(k)' \/ cpu_active'[Origin[k]]
<1>0. /\ st \in [Call -> {"new", "submitted", "executing", "stored", "responded", "completed"}]
      /\ cpu_active \in [Cpu -> BOOLEAN] /\ TypeOK
  BY DEF Typing, TypeOK
<1>1. CASE st' = st
  BY <1>1 DEF InFlight
<1>2. ASSUME NEW c \in Cpu, PollRx(c) PROVE InFlight(k)' \/ cpu_active'[Origin[k]]
  <2>1. /\ PolledLane(c) \in Lane /\ peer[c] \in Cpu \ {c}
        /\ PolledLane(c) = <<"rx", c, peer[c]>>
    BY <1>2, PolledLaneType DEF PollRx
  <2>2. PICK l \in Lane : l = PolledLane(c)
    BY <2>1
  <2>3. PICK t \in Cpu : t = peer[c]
    BY <2>1
  <2>4. /\ st' = [j \in Call |-> IF \E i \in DOMAIN Popped(l) : Popped(l)[i] = j
                                 THEN "completed" ELSE st[j]]
        /\ cpu_active' = [cpu_active EXCEPT ![c] = @ \/ Popped(l) # <<>>] /\ Pop(l)
    BY <1>2, <2>2 DEF PollRx, SetActive
  <2>5. CASE \E i \in DOMAIN Popped(l) : Popped(l)[i] = k
    <3>1. k \in Items(Popped(l)) /\ Popped(l) # <<>>
      <4>1. Popped(l) \in Seq(Call)
        BY <1>0, <2>4, PopFacts
      <4>2. k \in Items(Popped(l))
        BY <2>5, <4>1, ItemsType
      <4> QED BY <4>2, ItemsOfNone
    <3>2. k \in Items(OutboxOf(c, t))
      <4>1. OutboxOf(c, t) = Line(l)
        BY <2>1, <2>2, <2>3, OutboxLine
      <4>2. buf' = buf
        BY <1>2 DEF PollRx
      <4>3. /\ Popped(l) \in Seq(Call) /\ Line(l)' \in Seq(Call)
            /\ Line(l) = Popped(l) \o Line(l)'
        BY <1>0, <2>4, <4>2, PopLine
      <4>4. PICK w : w = Line(l)'
        OBVIOUS
      <4>5. Items(Popped(l) \o w) = Items(Popped(l)) \cup Items(w)
        BY <4>3, <4>4, ItemsConcat
      <4> QED BY <3>1, <4>1, <4>3, <4>4, <4>5
    <3>3. Origin[k] = c
      BY <3>2 DEF InPlace, Outboxes
    <3> QED BY <1>0, <2>4, <3>1, <3>3
  <2>6. CASE ~\E i \in DOMAIN Popped(l) : Popped(l)[i] = k
    BY <1>0, <2>4, <2>6 DEF InFlight
  <2> QED BY <2>5, <2>6
<1>3. ASSUME NEW j, NEW v \in {"submitted", "executing", "stored", "responded"},
             st' = [st EXCEPT ![j] = v]
      PROVE  InFlight(k)'
  BY <1>0, <1>3 DEF InFlight
<1>4. ASSUME NEW c \in Cpu, Running(c) \/ Signal(c) PROVE InFlight(k)' \/ cpu_active'[Origin[k]]
  <2>1. CASE Boot(c) \/ NextRound(c) \/ Sleep(c) \/ Signal(c) \/ IdleOrRun(c) \/ PollSignals(c)
    BY <1>1, <2>1 DEF Boot, NextRound, Sleep, Signal, IdleOrRun, PollSignals, crossVars, otherVars
  <2>2. CASE FlushMore(c) \/ FlushEnd(c) \/ PollFlush(c) \/ PollTx(c) \/ FnReturns(c)
             \/ NextPeer(c) \/ TaskReturns(c)
    BY <1>1, <2>2 DEF FlushMore, FlushEnd, PollFlush, PollTx, FnReturns, NextPeer, TaskReturns,
                      otherVars
  <2>3. CASE StartFn(c)
    BY <1>3, <2>3 DEF StartFn
  <2>4. CASE RunTask(c)
    <3>1. RunUser(c) \/ RunTimer(c) => st' = st
      BY DEF RunUser, RunTimer
    <3>2. RunStore(c) \/ RunRespond(c) => InFlight(k)'
      BY <1>3 DEF RunStore, RunRespond
    <3> QED BY <1>1, <2>4, <3>1, <3>2 DEF RunTask
  <2> QED BY <1>2, <1>4, <2>1, <2>2, <2>3, <2>4 DEF Running
<1>5. ASSUME NEW c \in Cpu, NEW j \in Call, SubmitRemote(c, j) PROVE InFlight(k)'
  BY <1>3, <1>5 DEF SubmitRemote
<1>6. ASSUME NEW c \in Cpu, NEW j \in Call, SubmitLocal(c, j) PROVE InFlight(k)'
  BY <1>0, <1>6 DEF SubmitLocal, Submit, InFlight
<1>7. ASSUME NEW j \in Call, Expire(j) PROVE st' = st
  BY <1>7 DEF Expire
<1>8. ASSUME NEW c \in Cpu, Start(c) PROVE st' = st
  BY <1>0, <1>8, StartFacts DEF crossVars
<1>9. UNCHANGED vars => st' = st
  BY DEF vars, crossVars
<1> QED BY <1>1, <1>4, <1>5, <1>6, <1>7, <1>8, <1>9, Steps

\* A flush leaves items only behind those in the ring, which then is full.
LEMMA FlushedBehind ==
  ASSUME Typing, Typing', InPlace', NEW o \in Cpu, NEW t \in Cpu, o # t,
         PollFlush(o), PolledLane(o) = <<"tx", o, t>>, buf'[<<"tx", o, t>>] # <<>>
  PROVE  \E k \in Call : Forerunner(k, o, t)' /\ st'[k] = "submitted"
<1>0. PICK l \in Lane : l = <<"tx", o, t>>
  BY DEF Lane
<1>1. /\ TypeOK /\ buf[l] \in Seq(Call) /\ ring[l] \in Seq(Call)
      /\ ring'[l] \in Seq(Call) /\ buf'[l] \in Seq(Call)
  BY DEF Typing, TypeOK
<1>2. PICK q : q = buf[l]
  OBVIOUS
<1>3. BeginFlush(o, l, q)
  BY <1>0, <1>2 DEF PollFlush
<1>4. ring'[l] # <<>>
  BY <1>0, <1>1, <1>2, <1>3, FlushBuf
<1>5. PICK r : r = ring'[l]
  OBVIOUS
<1>6. PICK b : b = buf'[l]
  OBVIOUS
<1>7. PICK a : a = Before(o, t)'
  OBVIOUS
<1>8. InboxOf(o, t)' = a \o (r \o b) /\ a \in Seq(Call) /\ r \in Seq(Call) /\ b \in Seq(Call)
  BY <1>0, <1>1, <1>5, <1>6, <1>7, InboxLineNext DEF Line
<1>9. PICK k : k = Head(r)
  OBVIOUS
<1>10. k \in Call /\ k \in Items(r) /\ r \o b \in Seq(Call)
  BY <1>4, <1>5, <1>8, <1>9, ItemsTail, ConcatProperties
<1>11. k \in Items(InboxOf(o, t)')
  <2>1. r \in Seq(Call) /\ b \in Seq(Call) /\ a \in Seq(Call)
    BY <1>8
  <2>2. Items(r \o b) = Items(r) \cup Items(b)
    BY <2>1, ItemsConcat
  <2>3. PICK s : s = r \o b
    OBVIOUS
  <2>4. s \in Seq(Call)
    BY <1>10, <2>3
  <2>5. Items(a \o s) = Items(a) \cup Items(s)
    BY <2>1, <2>4, ItemsConcat
  <2> QED BY <1>8, <1>10, <2>2, <2>3, <2>5
<1>12. k \notin Items(b)
  <2>0. Once(InboxOf(o, t)', Call, Id)
    BY DEF InPlace, Inboxes
  <2>1. Once(a \o (r \o b), Call, Id)
    BY <1>8, <2>0
  <2>2. Once(r \o b, Call, Id)
    BY <1>8, <1>10, <2>1, OnceSplit
  <2>3. Keys(r, Call, Id) \cap Keys(b, Call, Id) = {}
    BY <1>8, <2>2, OnceSplit
  <2>4. Keys(r, Call, Id) = Items(r) /\ Keys(b, Call, Id) = Items(b)
    BY <1>8, KeysOfCalls
  <2> QED BY <1>10, <2>3, <2>4
<1>13. st'[k] = "submitted" /\ Origin[k] = o /\ Target[k] = t
  BY <1>11 DEF InPlace, Inboxes
<1>14. Forerunner(k, o, t)'
  BY <1>0, <1>6, <1>12, <1>13 DEF Forerunner, InFlight
<1> QED BY <1>10, <1>13, <1>14

\* User code runs on a CPU only where it is to flush its lanes.
LEMMA NoneSubmitted ==
  ASSUME Typing, LeftBehind, NEW o \in Cpu, NEW t \in Cpu, ~WillFlush(o, t)
  PROVE  \A k \in Call : ~SubmitRemote(o, k)
<1> SUFFICES ASSUME NEW k \in Call, SubmitRemote(o, k) PROVE FALSE
  OBVIOUS
<1>1. user[o]
  BY DEF SubmitRemote, Submit
<1>2. pc[o] = "tasks" \/ handling[o] # <<>>
  BY <1>1 DEF Typing, UserOK
<1> QED BY <1>2 DEF LeftBehind, WillFlush

LEMMA LeftBehindStep == Typing /\ Typing' /\ InPlace /\ InPlace' /\ LeftBehind /\ [Next]_vars => LeftBehind'
<1> SUFFICES ASSUME Typing, Typing', InPlace, InPlace', LeftBehind, [Next]_vars
             PROVE  LeftBehind'
  OBVIOUS
<1>1. \A c \in Cpu : handling'[c] # <<>> => cpu_active'[c]
  BY BusyHandling DEF LeftBehind
<1>2. \A l \in Lane \ Link : buf'[l] = <<>>
  BY OwnBuf DEF LeftBehind
<1>3. ASSUME NEW o \in Cpu, NEW t \in Cpu, o # t, buf'[<<"tx", o, t>>] # <<>>
      PROVE  WillFlush(o, t)' \/ \E k \in Call : Forerunner(k, o, t)'
  <2>0. PICK l \in Lane : l = <<"tx", o, t>>
    BY DEF Lane
  <2>1. /\ TypeOK /\ buf[l] \in Seq(Call) /\ ring[l] \in Seq(Call) 
        /\ ring'[l] \in Seq(Call) /\ buf'[l] \in Seq(Call)
    BY DEF Typing, TypeOK
  <2>2. CASE WillFlush(o, t) /\ ~WillFlush(o, t)'
    <3>1. PollFlush(o) /\ PolledLane(o) = <<"tx", o, t>>
      BY <1>3, <2>2, TurnStep
    <3> QED BY <1>3, <3>1, FlushedBehind
  <2>3. CASE ~WillFlush(o, t)
    <3>1. \A k \in Call : ~SubmitRemote(o, k)
      BY <2>3, NoneSubmitted
    <3>2. Items(buf'[l]) \subseteq Items(buf[l])
      BY <1>3, <2>0, <3>1, LaneBuf
    <3>3. buf[l] # <<>>
      <4>1. PICK b : b = buf'[l]
        OBVIOUS
      <4>2. b \in Seq(Call) /\ b # <<>>
        BY <1>3, <2>0, <2>1, <4>1
      <4>3. Items(b) # {}
        <5>1. b \in Seq(Call) /\ b # <<>>
          BY <4>2
        <5>2. Items(b) = {Head(b)} \cup Items(Tail(b))
          BY <5>1, ItemsTail
        <5> QED BY <5>2
      <4> QED BY <3>2, <4>1, <4>3, ItemsOfNone
    <3>4. PICK k \in Call : Forerunner(k, o, t)
      BY <1>3, <2>0, <2>3, <3>3 DEF LeftBehind
    <3>5. InFlight(k)' \/ cpu_active'[o]
      BY <3>4, FinishedCalls DEF Forerunner
    <3>6. CASE cpu_active'[o]
      BY <3>6 DEF WillFlush
    <3>7. CASE InFlight(k)'
      BY <2>0, <3>2, <3>4, <3>7 DEF Forerunner
    <3> QED BY <3>5, <3>6, <3>7
  <2> QED BY <2>2, <2>3
<1> QED BY <1>1, <1>2, <1>3 DEF LeftBehind

LEMMA LeftBehindInit == Init => LeftBehind
BY DEF Init, LeftBehind, Lane

\* A CPU goes to sleep with calls left in a queue_buffer only behind a call that
\* is owed an answer, whose delivery wakes it (os.cpp:66, cpu.cpp:61): flush_tx
\* leaves items only if the ring is full, and the poll that takes the answer to
\* the last of those in it makes the CPU go round again.
THEOREM StrandedCallsAreBehind == Safe => []StrandedCallsHaveForerunner
<1>1. Init => Typing /\ WakeInv /\ InPlace /\ LeftBehind
  <2> SUFFICES ASSUME Init PROVE Typing /\ WakeInv /\ InPlace /\ LeftBehind
    OBVIOUS
  <2> QED BY TypingInit, WakeInit, InPlaceInit, LeftBehindInit
<1>2. Typing /\ WakeInv /\ InPlace /\ LeftBehind /\ [Next]_vars
        => (Typing /\ WakeInv /\ InPlace /\ LeftBehind)'
  BY TypingStep, WakeStep, InPlaceStep, LeftBehindStep
<1>3. Typing /\ WakeInv /\ LeftBehind => StrandedCallsHaveForerunner
  <2> SUFFICES ASSUME Typing, WakeInv, LeftBehind, NEW l \in Lane,
                      l[1] = "tx", buf[l] # <<>>, pc[Producer(l)] = "asleep"
               PROVE  \E k \in Call : /\ InFlight(k) /\ Origin[k] = l[2] /\ Target[k] = l[3]
                                      /\ \A i \in DOMAIN buf[l] : buf[l][i] # k
    BY DEF StrandedCallsHaveForerunner
  <2>1. l \in Link
    BY DEF LeftBehind
  <2>2. /\ l = <<"tx", Producer(l), Consumer(l)>> /\ Producer(l) = l[2] /\ Consumer(l) = l[3]
        /\ Producer(l) \in Cpu /\ Consumer(l) \in Cpu /\ Producer(l) # Consumer(l)
    BY <2>1, LinkFacts DEF Producer, Consumer
  <2>3. ~WillFlush(Producer(l), Consumer(l))
    BY <2>2 DEF WakeInv, IdleOK, WillFlush, Polling, Starting, Latch
  <2>4. PICK k \in Call : Forerunner(k, Producer(l), Consumer(l))
    BY <2>2, <2>3 DEF LeftBehind
  <2>5. k \notin Items(buf[l])
    BY <2>2, <2>4 DEF Forerunner
  <2>6. buf[l] \in Seq(Call)
    BY DEF Typing, TypeOK
  <2>7. \A i \in DOMAIN buf[l] : buf[l][i] # k
    BY <2>5, <2>6, ItemsType
  <2> QED BY <2>2, <2>4, <2>7 DEF Forerunner
<1> QED BY <1>1, <1>2, <1>3, PTL DEF Safe

-----------------------------------------------------------------------------
(* When all is quiet all is done.                                          *)

\* A CPU inside a flush is in poll_queues or runs user code or a task.
FlushAwake ==
  \A c \in Cpu : flushing[c] # NoLane =>
    pc[c] \in {"poll_rx", "poll_tx", "tasks"} \/ (pc[c] = "handle" /\ user[c])

LEMMA FlushAwakeStep == Typing /\ FlushAwake /\ [Next]_vars => FlushAwake'
<1> SUFFICES ASSUME Typing, FlushAwake, [Next]_vars PROVE FlushAwake'
  OBVIOUS
<1>0. /\ pc \in [Cpu -> Labels] /\ flushing \in [Cpu -> Lane \cup {NoLane}]
      /\ user \in [Cpu -> BOOLEAN] /\ TypeOK /\ UserOK
  BY DEF Typing, TypeOK
<1> USE DEF FlushAwake
<1>1. CASE UNCHANGED vars
  BY <1>1 DEF vars, reactorVars, crossVars
<1>2. ASSUME NEW c \in Cpu, Start(c) PROVE FlushAwake'
  BY <1>0, <1>2, StartFacts DEF crossVars, Starting, Latch
<1>3. ASSUME NEW c \in Cpu, Running(c) \/ Signal(c) PROVE FlushAwake'
  <2>1. CASE Boot(c) \/ Signal(c)
    BY <1>0, <2>1 DEF Boot, Signal, InitPollers, Deliver, Goto, crossVars
  <2>2. CASE PollSignals(c)
    BY <1>0, <2>2 DEF PollSignals, LoadSignals, ClearSignals, Goto, otherVars
  <2>3. CASE IdleOrRun(c) \/ NextRound(c) \/ Sleep(c)
    BY <1>0, <2>3 DEF IdleOrRun, NextRound, Sleep, Decide, EndBatch, CheckPending, NotFlushing,
                      Goto, crossVars
  <2>4. CASE FlushMore(c) \/ FlushEnd(c)
    BY <1>0, <2>4 DEF FlushMore, FlushEnd, reactorVars
  <2>5. CASE PollFlush(c)
    <3>1. \A d \in Cpu : d # c => pc'[d] = pc[d] /\ flushing'[d] = flushing[d] /\ user'[d] = user[d]
      BY <1>0, <2>5 DEF PollFlush, BeginFlush, Goto
    <3>2. pc'[c] \in {"poll_rx", "poll_tx"}
      BY <1>0, <2>5 DEF PollFlush, Goto
    <3> QED BY <3>1, <3>2
  <2>6. CASE PollRx(c) \/ PollTx(c)
    BY <1>0, <2>6 DEF PollRx, PollTx, NotFlushing, Goto
  <2>7. CASE StartFn(c) \/ FnReturns(c) \/ TaskReturns(c)
    BY <1>0, <2>7 DEF StartFn, FnReturns, TaskReturns, NotFlushing, reactorVars
  <2>8. CASE NextPeer(c)
    BY <1>0, <2>8 DEF NextPeer, Goto, otherVars
  <2>9. CASE RunTask(c)
    <3>1. pc[c] = "tasks" /\ pc' = pc
      BY <2>9 DEF RunTask, RunUser, RunTimer, RunStore, RunRespond, TakeTask
    <3>2. \A d \in Cpu : d # c => flushing'[d] = flushing[d] /\ user'[d] = user[d]
      BY <1>0, <2>9 DEF RunTask, RunUser, RunTimer, RunStore, RunRespond, Push, BeginFlush
    <3> QED BY <3>1, <3>2
  <2> QED BY <1>3, <2>1, <2>2, <2>3, <2>4, <2>5, <2>6, <2>7, <2>8, <2>9 DEF Running
<1>4. ASSUME NEW c \in Cpu, NEW k \in Call, SubmitRemote(c, k) \/ SubmitLocal(c, k) PROVE FlushAwake'
  <2>1. (pc[c] = "tasks" \/ pc[c] = "handle") /\ user[c] /\ pc' = pc /\ user' = user
    BY <1>0, <1>4 DEF SubmitRemote, SubmitLocal, Submit, UserOK, reactorVars
  <2>2. \A d \in Cpu : d # c => flushing'[d] = flushing[d]
    BY <1>0, <1>4 DEF SubmitRemote, SubmitLocal, Push, BeginFlush
  <2> QED BY <2>1, <2>2
<1>5. ASSUME NEW k \in Call, Expire(k) PROVE FlushAwake'
  BY <1>5 DEF Expire
<1> QED BY <1>1, <1>2, <1>3, <1>4, <1>5, Steps

\* The calls in the order of their last move: <<k, j>> is in R if j was submitted
\* or started after the last time k was.
Latest(R, x) == {p \in R : p[1] # x /\ p[2] # x} \cup {<<k, x>> : k \in Call \ {x}}

\* Among any calls there is one that none of the others moved after.
Grounded(R) == \A T \in (SUBSET Call) \ {{}} : \E m \in T : \A x \in T : <<m, x>> \notin R

\* Whatever a call waits for has moved after it: the call whose answer it is to
\* be, the one it may be chained to when it returns, the forerunner of the
\* queue_buffer it is left in (which has not moved yet if it still is submitted).
WaitsForLater(R) ==
  /\ \A k, j \in Call : st[k] = "executing" /\ cont[j] = k /\ InFlight(j) => <<k, j>> \in R
  /\ \A c \in Cpu : \A k \in Stack(c) : last[c] # NoCall => <<k, last[c]>> \in R
  /\ \A o, t \in Cpu : o # t => \A k \in Items(buf[<<"tx", o, t>>]) :
       WillFlush(o, t) \/ \E f \in Call : Forerunner(f, o, t) /\ (st[f] = "submitted" \/ <<k, f>> \in R)

Ordering == \E R \in SUBSET (Call \X Call) : Grounded(R) /\ WaitsForLater(R)

LEMMA LatestIsGrounded ==
  ASSUME NEW R \in SUBSET (Call \X Call), Grounded(R), NEW x \in Call
  PROVE  /\ Latest(R, x) \in SUBSET (Call \X Call) /\ Grounded(Latest(R, x))
         /\ \A k, j \in Call : k # x /\ <<k, j>> \in R => <<k, j>> \in Latest(R, x)
         /\ \A k \in Call : k # x => <<k, x>> \in Latest(R, x)
<1>1. /\ Latest(R, x) \in SUBSET (Call \X Call)
      /\ \A k, j \in Call : k # x /\ <<k, j>> \in R => <<k, j>> \in Latest(R, x)
      /\ \A k \in Call : k # x => <<k, x>> \in Latest(R, x)
  BY DEF Latest
<1>2. ASSUME NEW T \in (SUBSET Call) \ {{}}
      PROVE  \E m \in T : \A z \in T : <<m, z>> \notin Latest(R, x)
  <2>1. CASE x \in T
    BY <2>1 DEF Latest
  <2>2. CASE x \notin T
    <3>1. PICK m \in T : \A z \in T : <<m, z>> \notin R
      BY DEF Grounded
    <3> QED BY <2>2, <3>1 DEF Latest
  <2> QED BY <2>1, <2>2
<1> QED BY <1>1, <1>2 DEF Grounded

\* Calls are submitted and started by these steps only, and chained to others by
\* the return of a function.
LEMMA OtherSteps ==
  ASSUME Typing, Typing', InPlace, [Next]_vars,
         \A c \in Cpu : ~StartFn(c) /\ ~FnReturns(c) /\ \A k \in Call : ~SubmitRemote(c, k)
  PROVE  /\ cont' = cont
         /\ \A k \in Call : /\ st'[k] = "executing" => st[k] = "executing"
                            /\ InFlight(k)' => InFlight(k)
                            /\ st[k] = "submitted" => st'[k] = "submitted"
         /\ \A c \in Cpu : Stack(c)' # {} /\ last'[c] # NoCall =>
              Stack(c)' = Stack(c) /\ last'[c] = last[c]
<1>0. /\ st \in [Call -> {"new", "submitted", "executing", "stored", "responded", "completed"}]
      /\ TypeOK
  BY DEF Typing, TypeOK
<1>1. CASE Still
  <2>1. st' = st /\ cont' = cont
    BY <1>1 DEF Still
  <2>2. \A c \in Cpu : Stack(c)' # {} /\ last'[c] # NoCall => Stack(c)' = Stack(c) /\ last'[c] = last[c]
    BY <1>1 DEF Still, Stack
  <2> QED BY <2>1, <2>2 DEF InFlight
\* The others leave the stacks alone and move calls that have been started, or
\* are called on their own CPU.
<1>2. ASSUME NEW c \in Cpu, Fires(c) \/ PollRx(c) \/ (RunTask(c) /\ ~RunUser(c))
             \/ \E k \in Call : SubmitLocal(c, k)
      PROVE  cont' = cont /\ last' = last /\ user' = user /\ handling' = handling
  BY <1>2 DEF Fires, PollSignals, otherVars, PollRx, RunTask, RunTimer, RunStore, RunRespond,
             SubmitLocal
<1>3. ASSUME NEW c \in Cpu, Fires(c) \/ (RunTask(c) /\ RunTimer(c))
      PROVE  st' = st
  BY <1>3 DEF Fires, PollSignals, otherVars, RunTimer
<1>4. ASSUME NEW c \in Cpu, PollRx(c)
      PROVE  \A k \in Call : st'[k] = st[k] \/ (st[k] = "responded" /\ st'[k] = "completed")
  <2>1. \E m \in SUBSET Call : /\ \A k \in m : st[k] = "responded"
                               /\ \A k \in Call : st'[k] = IF k \in m THEN "completed" ELSE st[k]
    BY <1>4, PollRxKeeps
  <2> QED BY <2>1
<1>5. ASSUME NEW c \in Cpu, RunTask(c), RunStore(c) \/ RunRespond(c)
      PROVE  \E k \in Call, v \in {"stored", "responded"} :
               st[k] \in {"executing", "stored"} /\ st' = [st EXCEPT ![k] = v]
  <2>1. PICK x : x = Head(task_queue[c])
    OBVIOUS
  <2>2. task_queue[c] \in Seq(Task) /\ task_queue[c] # <<>>
    BY <1>0, <1>5 DEF RunTask, TypeOK
  <2>3. x \in Task /\ x.kind \in {"store", "respond"} /\ x \in Items(task_queue[c])
    BY <1>5, <2>1, <2>2, ItemsTail DEF RunStore, RunRespond
  <2>4. x \in CallTask /\ x.call \in Call
    BY <2>3 DEF Task, UserTask, CallTask
  <2>5. st[x.call] \in {"executing", "stored"}
    BY <2>3, <2>4 DEF InPlace, Queued
  <2>6. \E v \in {"stored", "responded"} : st' = [st EXCEPT ![x.call] = v]
    BY <1>5, <2>1 DEF RunStore, RunRespond
  <2> QED BY <2>4, <2>5, <2>6
<1>6. ASSUME NEW c \in Cpu, NEW k \in Call, SubmitLocal(c, k)
      PROVE  st[k] = "new" /\ st' = [st EXCEPT ![k] = "completed"]
  BY <1>6 DEF SubmitLocal, Submit
<1>7. ASSUME NEW c \in Cpu, Moves(c)
      PROVE  /\ cont' = cont /\ last' = last /\ user' = user /\ handling' = handling
             /\ \A k \in Call : /\ st'[k] = "executing" => st[k] = "executing"
                                /\ InFlight(k)' => InFlight(k)
                                /\ st[k] = "submitted" => st'[k] = "submitted"
  <2>0. \/ Fires(c) \/ PollRx(c)
        \/ RunTask(c) /\ (RunTimer(c) \/ RunStore(c) \/ RunRespond(c))
        \/ \E k \in Call : SubmitLocal(c, k)
    BY <1>7 DEF Moves
  <2>1. cont' = cont /\ last' = last /\ user' = user /\ handling' = handling
    <3>1. RunTimer(c) \/ RunStore(c) \/ RunRespond(c) => ~RunUser(c)
      BY DEF RunTimer, RunStore, RunRespond, RunUser
    <3> QED BY <1>2, <2>0, <3>1
  <2>2. CASE st' = st
    BY <2>1, <2>2 DEF InFlight
  <2>3. CASE PollRx(c)
    BY <1>4, <2>1, <2>3 DEF InFlight
  <2>4. CASE RunTask(c) /\ (RunStore(c) \/ RunRespond(c))
    BY <1>0, <1>5, <2>1, <2>4 DEF InFlight
  <2>5. CASE \E k \in Call : SubmitLocal(c, k)
    BY <1>0, <1>6, <2>1, <2>5 DEF InFlight
  <2> QED BY <1>3, <2>0, <2>2, <2>3, <2>4, <2>5
<1>8. CASE \E c \in Cpu : Moves(c)
  BY <1>7, <1>8 DEF Stack
<1>9. ASSUME NEW k \in Call, Expire(k)
      PROVE  st' = st /\ cont' = cont /\ last' = last /\ user' = user /\ handling' = handling
  BY <1>9 DEF Expire
<1>10. CASE \E k \in Call : Expire(k)
  BY <1>9, <1>10 DEF Stack, InFlight
<1> QED BY <1>1, <1>8, <1>10, MoveOrStill

\* What is left in a queue_buffer is submitted.
LEMMA LeftCalls ==
  ASSUME Typing, InPlace, NEW o \in Cpu, NEW t \in Cpu, o # t
  PROVE  \A k \in Items(buf[<<"tx", o, t>>]) : k \in Call /\ st[k] = "submitted"
<1>1. PICK l \in Lane : l = <<"tx", o, t>>
  BY DEF Lane
<1>2. PICK b : b = buf[l]
  OBVIOUS
<1>3. PICK r : r = ring[l]
  OBVIOUS
<1>4. PICK a : a = Before(o, t)
  OBVIOUS
<1>5. InboxOf(o, t) = a \o (r \o b) /\ a \in Seq(Call) /\ r \in Seq(Call) /\ b \in Seq(Call)
  <2>1. TypeOK
    BY DEF Typing
  <2> QED BY <1>1, <1>2, <1>3, <1>4, <2>1, InboxLine DEF Line, TypeOK
<1>6. Items(r \o b) = Items(r) \cup Items(b) /\ r \o b \in Seq(Call)
  BY <1>5, ItemsConcat, ConcatProperties
<1>7. PICK s : s = r \o b
  OBVIOUS
<1>8. Items(a \o s) = Items(a) \cup Items(s)
  <2>1. s \in Seq(Call)
    BY <1>6, <1>7
  <2> QED BY <1>5, <2>1, ItemsConcat
<1>9. Items(b) \subseteq Items(InboxOf(o, t))
  BY <1>5, <1>6, <1>7, <1>8
<1>10. Items(b) \subseteq Call
  BY <1>5, ItemsType
<1> QED BY <1>1, <1>2, <1>9, <1>10 DEF InPlace, Inboxes

LEMMA LeftCallsNext ==
  Typing' /\ InPlace' =>
    (\A o, t \in Cpu : o # t => \A k \in Items(buf[<<"tx", o, t>>]) : k \in Call /\ st[k] = "submitted")'
<1>1. Typing /\ InPlace =>
        \A o, t \in Cpu : o # t => \A k \in Items(buf[<<"tx", o, t>>]) : k \in Call /\ st[k] = "submitted"
  BY LeftCalls
<1> QED BY <1>1, PTL

\* The forerunners stay ahead.
LEMMA ForerunnersLater ==
  ASSUME Typing, Typing', InPlace, InPlace', LeftBehind, [Next]_vars, NEW R, WaitsForLater(R), NEW Q,
         \A k, f \in Call : /\ k # f /\ st[k] = "submitted" /\ st'[k] = "submitted"
                            /\ st[f] = "submitted" \/ <<k, f>> \in R
                            => st'[f] = "submitted" \/ <<k, f>> \in Q,
         NEW o \in Cpu, NEW t \in Cpu, o # t, NEW k \in Items(buf'[<<"tx", o, t>>])
  PROVE  \/ WillFlush(o, t)'
         \/ \E f \in Call : Forerunner(f, o, t)' /\ (st'[f] = "submitted" \/ <<k, f>> \in Q)
<1>1. CASE WillFlush(o, t) /\ ~WillFlush(o, t)'
  <2>1. PollFlush(o) /\ PolledLane(o) = <<"tx", o, t>>
    BY <1>1, TurnStep
  <2>2. buf'[<<"tx", o, t>>] # <<>>
    BY ItemsOfNone
  <2> QED BY <2>1, <2>2, FlushedBehind
<1>2. CASE ~WillFlush(o, t)
  <2>1. Items(buf'[<<"tx", o, t>>]) \subseteq Items(buf[<<"tx", o, t>>])
    BY <1>2, NoneSubmitted, LaneBuf
  <2>2. k \in Items(buf[<<"tx", o, t>>])
    BY <2>1
  <2>3. PICK f \in Call : Forerunner(f, o, t) /\ (st[f] = "submitted" \/ <<k, f>> \in R)
    BY <1>2, <2>2 DEF WaitsForLater
  <2>4. k \in Call /\ st[k] = "submitted" /\ st'[k] = "submitted" /\ k # f
    BY <2>2, <2>3, LeftCalls, LeftCallsNext DEF Forerunner
  <2>5. st'[f] = "submitted" \/ <<k, f>> \in Q
    BY <2>3, <2>4
  <2>6. InFlight(f)' \/ cpu_active'[o]
    BY <2>3, FinishedCalls DEF Forerunner
  <2>7. CASE cpu_active'[o]
    BY <2>7 DEF WillFlush
  <2>8. CASE InFlight(f)'
    BY <2>1, <2>3, <2>5, <2>8 DEF Forerunner
  <2> QED BY <2>6, <2>7, <2>8
<1> QED BY <1>1, <1>2

LEMMA OrderingStep ==
  Typing /\ Typing' /\ InPlace /\ InPlace' /\ LeftBehind /\ Ordering /\ [Next]_vars => Ordering'
<1> SUFFICES ASSUME Typing, Typing', InPlace, InPlace', LeftBehind, Ordering, [Next]_vars
             PROVE  Ordering'
  OBVIOUS
<1>0. /\ st \in [Call -> {"new", "submitted", "executing", "stored", "responded", "completed"}]
      /\ TypeOK /\ UserOK /\ Conts /\ Executing
      /\ \A c \in Cpu : last[c] # NoCall => last[c] \in Call
  BY DEF Typing, TypeOK, InPlace
<1>1. PICK R \in SUBSET (Call \X Call) : Grounded(R) /\ WaitsForLater(R)
  BY DEF Ordering
<1>2. /\ \A k, j \in Call : st[k] = "executing" /\ cont[j] = k /\ InFlight(j) => <<k, j>> \in R
      /\ \A c \in Cpu : \A k \in Stack(c) : last[c] # NoCall => <<k, last[c]>> \in R
  BY <1>1 DEF WaitsForLater
\* What is to be shown of the relation Q after the step.
<1>3. ASSUME NEW Q \in SUBSET (Call \X Call), Grounded(Q),
             \A k, j \in Call : st'[k] = "executing" /\ cont'[j] = k /\ InFlight(j)' => <<k, j>> \in Q,
             \A c \in Cpu : \A k \in Stack(c)' : last'[c] # NoCall => <<k, last'[c]>> \in Q,
             \A k, f \in Call : /\ k # f /\ st[k] = "submitted" /\ st'[k] = "submitted"
                                /\ st[f] = "submitted" \/ <<k, f>> \in R
                                => st'[f] = "submitted" \/ <<k, f>> \in Q
      PROVE  Ordering'
  <2>1. \A o, t \in Cpu : o # t => \A k \in Items(buf'[<<"tx", o, t>>]) :
          \/ WillFlush(o, t)'
          \/ \E f \in Call : Forerunner(f, o, t)' /\ (st'[f] = "submitted" \/ <<k, f>> \in Q)
    BY <1>1, <1>3, ForerunnersLater
  <2>2. WaitsForLater(Q)'
    BY <1>3, <2>1 DEF WaitsForLater
  <2> QED BY <1>3, <2>2 DEF Ordering
<1>4. ASSUME NEW c \in Cpu, StartFn(c) PROVE Ordering'
  <2>1. /\ ~user[c] /\ handling[c] # <<>> /\ handling' = handling /\ cont' = cont
        /\ user' = [user EXCEPT ![c] = TRUE] /\ last' = [last EXCEPT ![c] = NoCall]
    BY <1>4 DEF StartFn
  <2>2. PICK x \in Call : /\ x = Head(handling[c]) /\ st'[x] = "executing"
                          /\ \A j \in Call : j # x => st'[j] = st[j]
    BY <1>4, StartFnEffect
  <2>3. st[x] = "submitted"
    <3>1. PICK p \in Cpu : /\ InboxOf(p, c) \in Seq(Call) /\ InboxOf(p, c) # <<>>
                           /\ Head(InboxOf(p, c)) = Head(handling[c])
      BY <1>4, StartFnEffect
    <3>2. x \in Items(InboxOf(p, c))
      <4>1. PICK q : q = InboxOf(p, c)
        OBVIOUS
      <4>2. Items(q) = {Head(q)} \cup Items(Tail(q))
        BY <3>1, <4>1, ItemsTail
      <4> QED BY <2>2, <3>1, <4>1, <4>2
    <3> QED BY <3>2 DEF InPlace, Inboxes
  <2>4. PICK Q : Q = Latest(R, x)
    OBVIOUS
  <2>5. /\ Q \in SUBSET (Call \X Call) /\ Grounded(Q)
        /\ \A k, j \in Call : k # x /\ <<k, j>> \in R => <<k, j>> \in Q
        /\ \A k \in Call : k # x => <<k, x>> \in Q
    BY <1>1, <2>4, LatestIsGrounded
  <2>6. ASSUME NEW k \in Call, NEW j \in Call, st'[k] = "executing", cont'[j] = k, InFlight(j)'
        PROVE  <<k, j>> \in Q
    <3>1. cont[j] = k /\ k # NoCall
      BY <2>1, <2>6, CrossCpuAssumption
    <3>2. k # x /\ st[k] = "executing"
      BY <1>0, <2>2, <2>3, <2>6, <3>1 DEF Conts
    <3>3. j = x \/ InFlight(j)
      BY <2>2, <2>6 DEF InFlight
    <3> QED BY <1>2, <2>5, <3>1, <3>2, <3>3
  <2>7. ASSUME NEW d \in Cpu, NEW k \in Stack(d)', last'[d] # NoCall PROVE <<k, last'[d]>> \in Q
    <3>1. d # c
      BY <1>0, <2>1, <2>7 DEF TypeOK
    <3>2. k \in Stack(d) /\ last'[d] = last[d]
      BY <1>0, <2>1, <2>7, <3>1 DEF Stack, TypeOK
    <3>3. k \in Call /\ k # x /\ last[d] \in Call
      BY <1>0, <2>3, <2>7, <3>2, StackFacts DEF Executing
    <3> QED BY <1>2, <2>5, <2>7, <3>2, <3>3
  <2>8. ASSUME NEW k \in Call, NEW f \in Call, k # f, st'[k] = "submitted",
               st[f] = "submitted" \/ <<k, f>> \in R
        PROVE  st'[f] = "submitted" \/ <<k, f>> \in Q
    BY <2>2, <2>5, <2>8
  <2> QED BY <1>3, <2>5, <2>6, <2>7, <2>8
<1>5. ASSUME NEW c \in Cpu, NEW x \in Call, SubmitRemote(c, x) PROVE Ordering'
  <2>1. /\ st[x] = "new" /\ st' = [st EXCEPT ![x] = "submitted"] /\ cont' = cont
        /\ handling' = handling /\ user' = user /\ last' = [last EXCEPT ![c] = x]
    BY <1>5 DEF SubmitRemote, Submit
  <2>2. st'[x] = "submitted" /\ \A j \in Call : j # x => st'[j] = st[j]
    BY <1>0, <2>1
  <2>3. PICK Q : Q = Latest(R, x)
    OBVIOUS
  <2>4. /\ Q \in SUBSET (Call \X Call) /\ Grounded(Q)
        /\ \A k, j \in Call : k # x /\ <<k, j>> \in R => <<k, j>> \in Q
        /\ \A k \in Call : k # x => <<k, x>> \in Q
    BY <1>1, <2>3, LatestIsGrounded
  <2>5. ASSUME NEW k \in Call, NEW j \in Call, st'[k] = "executing", cont'[j] = k, InFlight(j)'
        PROVE  <<k, j>> \in Q
    <3>1. k # x /\ st[k] = "executing"
      BY <2>2, <2>5
    <3>2. j = x \/ InFlight(j)
      BY <2>2, <2>5 DEF InFlight
    <3> QED BY <1>2, <2>1, <2>4, <2>5, <3>1, <3>2
  <2>6. ASSUME NEW d \in Cpu, NEW k \in Stack(d)', last'[d] # NoCall PROVE <<k, last'[d]>> \in Q
    <3>1. k \in Stack(d)
      BY <2>1 DEF Stack
    <3>2. k \in Call /\ k # x
      BY <1>0, <2>1, <3>1, StackFacts DEF Executing
    <3>3. CASE d = c
      BY <1>0, <2>1, <2>4, <3>2, <3>3 DEF TypeOK
    <3>4. CASE d # c
      BY <1>0, <1>2, <2>1, <2>4, <2>6, <3>1, <3>2, <3>4 DEF TypeOK
    <3> QED BY <3>3, <3>4
  <2>7. ASSUME NEW k \in Call, NEW f \in Call, k # f, st[k] = "submitted",
               st[f] = "submitted" \/ <<k, f>> \in R
        PROVE  st'[f] = "submitted" \/ <<k, f>> \in Q
    BY <2>1, <2>2, <2>4, <2>7
  <2> QED BY <1>3, <2>4, <2>5, <2>6, <2>7
<1>6. ASSUME NEW c \in Cpu, FnReturns(c) PROVE Ordering'
  <2>1. /\ st' = st /\ user[c] /\ user' = [user EXCEPT ![c] = FALSE] /\ last' = last
        /\ handling' = [handling EXCEPT ![c] = Tail(@)] /\ handling[c] # <<>>
    BY <1>0, <1>6 DEF FnReturns, UserOK
  <2>2. \/ cont' = cont
        \/ /\ last[c] # NoCall /\ cont' = [cont EXCEPT ![last[c]] = Head(handling[c])]
    BY <1>6 DEF FnReturns, AwaitInner
  <2>3. ASSUME NEW k \in Call, NEW j \in Call, st'[k] = "executing", cont'[j] = k, InFlight(j)'
        PROVE  <<k, j>> \in R
    <3>1. st[k] = "executing" /\ InFlight(j)
      BY <2>1, <2>3 DEF InFlight
    <3>2. CASE cont[j] = k
      BY <1>2, <3>1, <3>2
    <3>3. CASE cont[j] # k
      <4>1. last[c] # NoCall /\ j = last[c] /\ k = Head(handling[c])
        BY <1>0, <2>2, <2>3, <3>3 DEF TypeOK
      <4>2. k \in Stack(c)
        BY <2>1, <4>1 DEF Stack
      <4> QED BY <1>2, <4>1, <4>2
    <3> QED BY <3>2, <3>3
  <2>4. ASSUME NEW d \in Cpu, NEW k \in Stack(d)', last'[d] # NoCall PROVE <<k, last'[d]>> \in R
    <3>1. d # c
      BY <1>0, <2>1, <2>4 DEF Stack, TypeOK
    <3>2. k \in Stack(d)
      BY <1>0, <2>1, <2>4, <3>1 DEF Stack, TypeOK
    <3> QED BY <1>2, <2>1, <2>4, <3>2
  <2>5. \A k, f \in Call : st[f] = "submitted" \/ <<k, f>> \in R => st'[f] = "submitted" \/ <<k, f>> \in R
    BY <2>1
  <2> QED BY <1>1, <1>3, <2>3, <2>4, <2>5
<1>7. CASE \A c \in Cpu : ~StartFn(c) /\ ~FnReturns(c) /\ \A k \in Call : ~SubmitRemote(c, k)
  <2>1. /\ cont' = cont
        /\ \A k \in Call : /\ st'[k] = "executing" => st[k] = "executing"
                           /\ InFlight(k)' => InFlight(k)
                           /\ st[k] = "submitted" => st'[k] = "submitted"
        /\ \A c \in Cpu : Stack(c)' # {} /\ last'[c] # NoCall =>
             Stack(c)' = Stack(c) /\ last'[c] = last[c]
    BY <1>7, OtherSteps
  <2>2. \A k, j \in Call : st'[k] = "executing" /\ cont'[j] = k /\ InFlight(j)' => <<k, j>> \in R
    BY <1>2, <2>1
  <2>3. ASSUME NEW d \in Cpu, NEW k \in Stack(d)', last'[d] # NoCall PROVE <<k, last'[d]>> \in R
    BY <1>2, <2>1, <2>3
  <2>4. \A k, f \in Call : st[f] = "submitted" \/ <<k, f>> \in R => st'[f] = "submitted" \/ <<k, f>> \in R
    BY <2>1
  <2> QED BY <1>1, <1>3, <2>2, <2>3, <2>4
<1> QED BY <1>4, <1>5, <1>6, <1>7

\* Where the calls of a quiet system can be.
LEMMA QuietCalls ==
  ASSUME Typing, WakeInv, InPlace, FlushAwake, Quiescent, NoStrandedAnswer, NEW k \in Call, InFlight(k)
  PROVE  \/ st[k] = "submitted" /\ k \in Items(buf[<<"tx", Origin[k], Target[k]>>])
         \/ /\ st[k] = "executing"
            /\ \E j \in Call : cont[j] = k /\ InFlight(j)
<1>0. /\ st \in [Call -> {"new", "submitted", "executing", "stored", "responded", "completed"}]
      /\ TypeOK
  BY DEF Typing, TypeOK
<1>1. \A c \in Cpu : /\ pc[c] = "asleep" /\ ~raised[c] /\ task_queue[c] = <<>> /\ expired[c] = <<>>
                     /\ handling[c] = <<>> /\ flushing[c] = NoLane
  <2>1. \A c \in Cpu : pc[c] = "asleep" /\ ~raised[c]
    BY DEF Quiescent
  <2>2. \A c \in Cpu : task_queue[c] = <<>> /\ expired[c] = <<>>
    BY <2>1 DEF WakeInv, IdleOK, TimersAwaited
  <2>3. \A c \in Cpu : handling[c] = <<>> /\ flushing[c] = NoLane
    BY <2>1 DEF InPlace, Executing, FlushAwake
  <2> QED BY <2>1, <2>2, <2>3
<1>2. \A l \in Link : ring[l] = <<>>
  <2>1. NoLostWakeup
    BY WakeInvSafe
  <2>2. \A l \in Link : Producer(l) \in Cpu /\ Consumer(l) \in Cpu /\ l # NoLane
    BY LinkFacts, NoLaneAssumption DEF Link
  <2> QED BY <1>1, <2>1, <2>2 DEF NoLostWakeup
<1>3. Origin[k] \in Cpu /\ Target[k] \in Cpu /\ Origin[k] # Target[k]
  BY CrossCpuAssumption DEF InPlace, Present, InFlight
<1>4. PICK o \in Cpu, t \in Cpu : o = Origin[k] /\ t = Target[k] /\ o # t
  BY <1>3
<1>5. /\ <<"tx", o, t>> \in Link /\ <<"rx", o, t>> \in Link
      /\ ring[<<"tx", o, t>>] = <<>> /\ ring[<<"rx", o, t>>] = <<>> /\ buf[<<"rx", o, t>>] = <<>>
  <2>1. <<"tx", o, t>> \in Link /\ <<"rx", o, t>> \in Link
    BY <1>4 DEF Link, Lane
  <2> QED BY <1>2, <2>1 DEF NoStrandedAnswer, Link
<1>6. \A s \in Seq(Call) : <<>> \o s = s
  BY ConcatEmptySeq
<1>7. CASE st[k] = "submitted"
  <2>1. k \in Items(InboxOf(o, t))
    BY <1>4, <1>7 DEF InPlace, Present
  <2>2. Unrun(t) = <<>>
    BY <1>1 DEF Unrun
  <2>3. InboxOf(o, t) = buf[<<"tx", o, t>>]
    <3>1. PICK b : b = buf[<<"tx", o, t>>]
      OBVIOUS
    <3>2. b \in Seq(Call) /\ <<>> \in Seq(Call)
      BY <1>0, <1>5, <3>1, EmptySeq DEF TypeOK, Link
    <3>3. InboxOf(o, t) = (<<>> \o <<>>) \o b
      BY <1>4, <1>5, <2>2, <3>1 DEF InboxOf
    <3> QED BY <1>6, <3>1, <3>2, <3>3
  <2> QED BY <1>4, <1>7, <2>1, <2>3
<1>8. CASE st[k] = "responded"
  <2>1. k \in Items(OutboxOf(o, t))
    BY <1>4, <1>8 DEF InPlace, Present
  <2>2. OutboxOf(o, t) = <<>>
    <3>1. <<>> \in Seq(Call)
      BY EmptySeq
    <3> QED BY <1>4, <1>5, <1>6, <3>1 DEF OutboxOf
  <2> QED BY <2>1, <2>2, ItemsOfNone
<1>9. CASE st[k] = "stored"
  BY <1>1, <1>4, <1>9, ItemsOfNone DEF InPlace, Present
<1>10. CASE st[k] = "executing"
  <2>1. UnderWay(k)
    BY <1>10 DEF InPlace, Present
  <2>2. Stack(t) = {} /\ TaskCalls(t) = {} /\ Items(expired[t]) = {} /\ parked = {}
    <3>1. Keys(<<>>, CallTask, CallOf) = {}
      BY OnceEmpty
    <3> QED BY <1>1, <3>1, ItemsOfNone DEF Stack, TaskCalls, Quiescent
  <2>3. k \in Awaiting
    BY <1>4, <2>1, <2>2 DEF UnderWay
  <2>4. PICK j \in Call : cont[j] = k /\ st[j] # "completed" /\ k # NoCall
    BY <2>3 DEF Awaiting
  <2>5. st[j] # "new"
    BY <2>4 DEF InPlace, Conts
  <2> QED BY <1>10, <2>4, <2>5 DEF InFlight
<1> QED BY <1>0, <1>7, <1>8, <1>9, <1>10 DEF InFlight

\* When every CPU sleeps, nothing is under way to wake one and no answer is left
\* in a queue_buffer, every call has completed: the two halves of the loop
\* (cpu.cpp:61, cpu.cpp:129) and the wakeups of os.cpp:66 leave no cycle of CPUs
\* that wait for each other.  What a call waits for has been submitted or
\* started after it, so that of the calls in flight one would wait for nothing.
THEOREM AllDoneWhenQuiet == Safe => []QuietMeansDone
<1> DEFINE Inv == Typing /\ WakeInv /\ InPlace /\ LeftBehind /\ FlushAwake /\ Ordering
<1>1. Init => Inv
  <2> SUFFICES ASSUME Init PROVE Inv
    OBVIOUS
  <2>1. Typing /\ WakeInv /\ InPlace /\ LeftBehind
    BY TypingInit, WakeInit, InPlaceInit, LeftBehindInit
  <2>2. FlushAwake
    BY DEF Init, FlushAwake
  <2>3. Ordering
    <3>1. {} \in SUBSET (Call \X Call) /\ Grounded({})
      BY DEF Grounded
    <3>2. WaitsForLater({})
      <4>1. \A o, t \in Cpu : Items(buf[<<"tx", o, t>>]) = {}
        BY ItemsOfNone DEF Init, Lane
      <4>2. \A c \in Cpu : Stack(c) = {}
        BY DEF Init, Stack
      <4>3. \A k \in Call : st[k] = "new"
        BY DEF Init
      <4> QED BY <4>1, <4>2, <4>3 DEF WaitsForLater
    <3> QED BY <3>1, <3>2 DEF Ordering
  <2> QED BY <2>1, <2>2, <2>3
<1>2. Inv /\ [Next]_vars => Inv'
  BY TypingStep, WakeStep, InPlaceStep, LeftBehindStep, FlushAwakeStep, OrderingStep
<1>3. Inv => QuietMeansDone
  <2> SUFFICES ASSUME Inv, Quiescent, NoStrandedAnswer, NEW z \in Call, InFlight(z) PROVE FALSE
    BY DEF QuietMeansDone
  <2>1. PICK R \in SUBSET (Call \X Call) : Grounded(R) /\ WaitsForLater(R)
    BY DEF Ordering
  <2>2. {k \in Call : InFlight(k)} \in (SUBSET Call) \ {{}}
    OBVIOUS
  <2>3. PICK m \in Call : InFlight(m) /\ \A x \in Call : InFlight(x) => <<m, x>> \notin R
    BY <2>1, <2>2 DEF Grounded
  <2>4. CASE st[m] = "executing"
    <3>1. PICK j \in Call : cont[j] = m /\ InFlight(j)
      BY <2>3, <2>4, QuietCalls
    <3> QED BY <2>1, <2>3, <2>4, <3>1 DEF WaitsForLater
  <2>5. CASE st[m] # "executing"
    <3>1. m \in Items(buf[<<"tx", Origin[m], Target[m]>>])
      BY <2>3, <2>5, QuietCalls
    <3>2. Origin[m] \in Cpu /\ Target[m] \in Cpu /\ Origin[m] # Target[m]
      BY <2>3, CrossCpuAssumption DEF InPlace, Present, InFlight
    <3>3. ~WillFlush(Origin[m], Target[m])
      BY <3>2 DEF Quiescent, WakeInv, IdleOK, WillFlush, Polling, Starting, Latch
    <3>4. PICK f \in Call : /\ Forerunner(f, Origin[m], Target[m])
                            /\ st[f] = "submitted" \/ <<m, f>> \in R
      BY <2>1, <3>1, <3>2, <3>3 DEF WaitsForLater
    <3>5. st[f] = "submitted"
      BY <2>3, <3>4 DEF Forerunner
    <3>6. f \in Items(buf[<<"tx", Origin[m], Target[m]>>])
      BY <3>4, <3>5, QuietCalls DEF Forerunner
    <3> QED BY <3>4, <3>6 DEF Forerunner
  <2> QED BY <2>4, <2>5
<1> QED BY <1>1, <1>2, <1>3, PTL DEF Safe
=============================================================================
