---------------------------- MODULE FuturesProofs ---------------------------
(***************************************************************************)
(* Futures: no pointer dangles, no result is lost or found twice, and no   *)
(* assertion of the header fails, for any number of promises, futures,     *)
(* continuations and pairs of them.  The invariant says of a heap what     *)
(* each function of the header leaves behind, so that what the functions   *)
(* compose to keeps it because each of them does.                          *)
(***************************************************************************)
EXTENDS Futures, QueueLemmas

Outcome == {"value", "exception"}
Result == {"none", "value", "exception"}

PromiseRecord == [alive : BOOLEAN, future : Future \cup {Null}, state : {"local", "task", Null},
                  local : State, task : Cont \cup {Null}, channel : 0 .. Channels]
FutureRecord == [alive : BOOLEAN, promise : Writer \cup {Null}, local : State,
                 channel : 0 .. Channels]
ContRecord == [stage : {"none", "attached", "scheduled", "done"}, state : State,
               wrapped : BOOLEAN, channel : 0 .. Channels]

Heap == [promise : [Writer -> PromiseRecord], future : [Future -> FutureRecord],
         cont : [Cont -> ContRecord], queue : Seq(Cont), made : 0 .. Channels,
         got : [Channel -> BOOLEAN], written : [Channel -> Result], read : [Channel -> Result]]

\* A continuation that has not run.
Waits(h, k) == h.cont[k].stage \in {"attached", "scheduled"}

\* A place where nothing is, is blank.
Blank(h) ==
  /\ \A p \in Writer : ~h.promise[p].alive => h.promise[p] = NoPromise
  /\ \A f \in Future : ~h.future[f].alive => h.future[f] = NoFuture
  /\ \A k \in Cont : h.cont[k].stage = "none" => h.cont[k] = NoCont /\ h.promise[k] = NoPromise

\* A promise and a future point to each other, and the state is in the promise.
Links(h) ==
  /\ \A p \in Writer, f \in Future : h.promise[p].future = f <=> h.future[f].promise = p
  /\ \A p \in Writer : h.promise[p].future # Null =>
       h.promise[p].state = "local" /\ h.promise[p].channel # 0
  /\ \A f \in Future : h.future[f].promise # Null =>
       h.future[f].alive /\ h.future[f].local = "future"

\* A promise that points into a continuation is the only one that does, and is
\* what the continuation waits for.
Tasks(h) ==
  /\ \A p \in Writer : h.promise[p].state = "task" <=> h.promise[p].task # Null
  /\ \A p \in Writer : h.promise[p].task # Null =>
       LET k == h.promise[p].task
       IN  /\ h.cont[k].stage = "attached" /\ h.cont[k].channel = h.promise[p].channel
           /\ h.promise[p].channel # 0 /\ h.promise[p].local = "future"
           /\ h.written[h.promise[p].channel] = "none"
  /\ \A p, q \in Writer : h.promise[p].task # Null /\ h.promise[p].task = h.promise[q].task => p = q
  /\ \A k \in Cont : h.cont[k].stage = "attached" => \E p \in Writer : h.promise[p].task = k

\* The queue holds the continuations that are scheduled, each once.
Self == [k \in Cont |-> k]

Queued(h) ==
  /\ Once(h.queue, Cont, Self)
  /\ Items(h.queue) = {k \in Cont : h.cont[k].stage = "scheduled"}

\* What is in a continuation, and the promise it will resolve.
Conts(h) ==
  \A k \in Cont :
    /\ h.cont[k].stage = "attached" => h.cont[k].state = "future"
    /\ h.cont[k].stage = "scheduled" =>
         h.cont[k].state \in Outcome /\ h.cont[k].state = h.written[h.cont[k].channel]
    /\ h.cont[k].stage = "done" => h.cont[k].state = "invalid"
    /\ Waits(h, k) => h.promise[k].channel # 0 /\ h.written[h.promise[k].channel] = "none"

\* The pairs that are not made yet.
Numbers(h) ==
  /\ \A n \in Channel : n > h.made => ~h.got[n] /\ h.written[n] = "none"
  /\ \A n \in Channel : ~h.got[n] => h.read[n] = "none"
  /\ \A p \in Writer : h.promise[p].channel <= h.made
  /\ \A f \in Future : h.future[f].channel # 0 =>
       h.got[h.future[f].channel] /\ h.read[h.future[f].channel] = "none"
  /\ \A k \in Cont : Waits(h, k) =>
       h.cont[k].channel # 0 /\ h.got[h.cont[k].channel] /\ h.read[h.cont[k].channel] = "none"

\* Each pair has one promise at most, which holds its result until it is taken.
OneWriter(h) ==
  \A p, q \in Writer : h.promise[p].channel # 0 /\ h.promise[p].channel = h.promise[q].channel => p = q

WriterHolds(h, p) ==
  LET n == h.promise[p].channel
      s == h.promise[p].local
  IN  /\ n = 0 \/ h.promise[p].state = Null => ~Available(s)
      /\ n # 0 /\ h.written[n] = "none" => s = "future" /\ h.promise[p].state # Null
      /\ n # 0 /\ h.written[n] # "none" => s \in {h.written[n], "invalid", "future"}
      /\ n # 0 /\ ~h.got[n] =>
           /\ h.promise[p].state = "local" /\ h.promise[p].future = Null
           /\ h.written[n] # "none" => s = h.written[n]

Writers(h) == OneWriter(h) /\ \A p \in Writer : WriterHolds(h, p)

\* Each pair has one reader at most, and it can get at the result.
OneReader(h) ==
  /\ \A f, g \in Future : h.future[f].channel # 0 /\ h.future[f].channel = h.future[g].channel => f = g
  /\ \A k, l \in Cont : Waits(h, k) /\ Waits(h, l) /\ h.cont[k].channel = h.cont[l].channel => k = l
  /\ \A f \in Future, k \in Cont : Waits(h, k) => h.cont[k].channel # h.future[f].channel

ReaderReaches(h, f) ==
  LET n == h.future[f].channel
      p == h.future[f].promise
  IN  n # 0 =>
        /\ p # Null => /\ h.promise[p].channel = n
                       /\ h.written[n] # "none" => h.promise[p].local = h.written[n]
        /\ p = Null => /\ h.future[f].local \in Outcome /\ h.future[f].local = h.written[n]
                       /\ \A q \in Writer : h.promise[q].channel # n

\* A result that a continuation has is in its promise no more.
Taken(h) ==
  \A k \in Cont, p \in Writer :
    h.cont[k].stage = "scheduled" /\ h.promise[p].channel = h.cont[k].channel =>
      ~Available(h.promise[p].local)

Readers(h) == OneReader(h) /\ (\A f \in Future : ReaderReaches(h, f)) /\ Taken(h)

Good(h) ==
  /\ h \in Heap /\ Blank(h) /\ Links(h) /\ Tasks(h) /\ Queued(h)
  /\ Conts(h) /\ Numbers(h) /\ Writers(h) /\ Readers(h)

Inv == Good(heap)

-----------------------------------------------------------------------------
(* The parts of a heap.                                                    *)

LEMMA HeapParts ==
  ASSUME NEW h \in Heap
  PROVE  /\ h.promise \in [Writer -> PromiseRecord] /\ h.future \in [Future -> FutureRecord]
         /\ h.cont \in [Cont -> ContRecord] /\ h.queue \in Seq(Cont) /\ h.made \in 0 .. Channels
         /\ h.got \in [Channel -> BOOLEAN]
         /\ h.written \in [Channel -> Result] /\ h.read \in [Channel -> Result]
BY DEF Heap

LEMMA HeapFields ==
  ASSUME NEW h \in Heap
  PROVE  /\ h.made \in Nat /\ Channels \in Nat
         /\ \A p \in Writer :
              /\ h.promise[p].future \in Future \cup {Null} /\ h.promise[p].task \in Cont \cup {Null}
              /\ h.promise[p].state \in {"local", "task", Null} /\ h.promise[p].local \in State
              /\ h.promise[p].channel \in Nat /\ h.promise[p].channel <= Channels
              /\ h.promise[p].channel # 0 => h.promise[p].channel \in Channel
              /\ h.promise[p].alive \in BOOLEAN
         /\ \A f \in Future :
              /\ h.future[f].promise \in Writer \cup {Null} /\ h.future[f].local \in State
              /\ h.future[f].channel \in Nat
              /\ h.future[f].channel # 0 => h.future[f].channel \in Channel
         /\ \A k \in Cont :
              /\ h.cont[k].stage \in {"none", "attached", "scheduled", "done"}
              /\ h.cont[k].state \in State /\ h.cont[k].channel \in Nat
              /\ h.cont[k].channel # 0 => h.cont[k].channel \in Channel
<1>1. Channels \in Nat
  BY FuturesAssumption
<1>2. h.made \in Nat
  BY <1>1, HeapParts
<1>3. ASSUME NEW p \in Writer
      PROVE  /\ h.promise[p].future \in Future \cup {Null} /\ h.promise[p].task \in Cont \cup {Null}
             /\ h.promise[p].state \in {"local", "task", Null} /\ h.promise[p].local \in State
             /\ h.promise[p].channel \in Nat /\ h.promise[p].channel <= Channels
             /\ h.promise[p].channel # 0 => h.promise[p].channel \in Channel
             /\ h.promise[p].alive \in BOOLEAN
  <2>1. h.promise[p] \in PromiseRecord
    BY HeapParts
  <2> QED BY <1>1, <2>1 DEF PromiseRecord, Channel
<1>4. ASSUME NEW f \in Future
      PROVE  /\ h.future[f].promise \in Writer \cup {Null} /\ h.future[f].local \in State
             /\ h.future[f].channel \in Nat
             /\ h.future[f].channel # 0 => h.future[f].channel \in Channel
  <2>1. h.future[f] \in FutureRecord
    BY HeapParts
  <2> QED BY <1>1, <2>1 DEF FutureRecord, Channel
<1>5. ASSUME NEW k \in Cont
      PROVE  /\ h.cont[k].stage \in {"none", "attached", "scheduled", "done"}
             /\ h.cont[k].state \in State /\ h.cont[k].channel \in Nat
             /\ h.cont[k].channel # 0 => h.cont[k].channel \in Channel
  <2>1. h.cont[k] \in ContRecord
    BY HeapParts
  <2> QED BY <1>1, <2>1 DEF ContRecord, Channel
<1> QED BY <1>1, <1>2, <1>3, <1>4, <1>5

\* What Tasks, WriterHolds and ReaderReaches say stays true of what stays as it was.
LEMMA TasksStay ==
  ASSUME NEW h, Tasks(h), NEW g,
         \A q \in Writer : g.promise[q].state = h.promise[q].state /\ g.promise[q].task = h.promise[q].task,
         \A q \in Writer : h.promise[q].task # Null =>
           /\ g.promise[q].channel = h.promise[q].channel /\ g.promise[q].local = h.promise[q].local
           /\ g.cont[h.promise[q].task] = h.cont[h.promise[q].task]
           /\ g.written[h.promise[q].channel] = h.written[h.promise[q].channel],
         \A k \in Cont : g.cont[k].stage = "attached" => h.cont[k].stage = "attached"
  PROVE  Tasks(g)
<1>1. \A q \in Writer : g.promise[q].state = "task" <=> g.promise[q].task # Null
  BY DEF Tasks
<1>2. ASSUME NEW q \in Writer, g.promise[q].task # Null
      PROVE  LET k == g.promise[q].task
             IN  /\ g.cont[k].stage = "attached" /\ g.cont[k].channel = g.promise[q].channel
                 /\ g.promise[q].channel # 0 /\ g.promise[q].local = "future"
                 /\ g.written[g.promise[q].channel] = "none"
  BY <1>2 DEF Tasks
<1>3. \A p, q \in Writer : g.promise[p].task # Null /\ g.promise[p].task = g.promise[q].task => p = q
  BY DEF Tasks
<1>4. \A k \in Cont : g.cont[k].stage = "attached" => \E p \in Writer : g.promise[p].task = k
  BY DEF Tasks
<1> QED BY <1>1, <1>2, <1>3, <1>4 DEF Tasks

LEMMA NumbersStay ==
  ASSUME NEW h, Numbers(h), NEW g, g.made = h.made, g.got = h.got, g.written = h.written,
         \A n \in Channel : ~h.got[n] => g.read[n] = "none",
         \A p \in Writer : g.promise[p].channel <= h.made,
         \A f \in Future : g.future[f].channel # 0 =>
           h.got[g.future[f].channel] /\ g.read[g.future[f].channel] = "none",
         \A k \in Cont : Waits(g, k) =>
           g.cont[k].channel # 0 /\ h.got[g.cont[k].channel] /\ g.read[g.cont[k].channel] = "none"
  PROVE  Numbers(g)
BY DEF Numbers

LEMMA HolderStays ==
  ASSUME NEW h, NEW g, NEW p, WriterHolds(h, p),
         g.promise[p].channel = h.promise[p].channel, g.promise[p].state = h.promise[p].state,
         g.promise[p].local = h.promise[p].local,
         h.promise[p].channel # 0 =>
           /\ g.written[h.promise[p].channel] = h.written[h.promise[p].channel]
           /\ g.got[h.promise[p].channel] = h.got[h.promise[p].channel],
         g.promise[p].future # Null => h.promise[p].future # Null
  PROVE  WriterHolds(g, p)
BY DEF WriterHolds

LEMMA ReachStays ==
  ASSUME NEW h, NEW g, NEW f, ReaderReaches(h, f), g.future[f] = h.future[f],
         h.future[f].channel # 0 => g.written[h.future[f].channel] = h.written[h.future[f].channel],
         h.future[f].promise # Null =>
           /\ g.promise[h.future[f].promise].channel = h.promise[h.future[f].promise].channel
           /\ g.promise[h.future[f].promise].local = h.promise[h.future[f].promise].local,
         h.future[f].promise = Null =>
           \A q \in Writer : g.promise[q].channel \in {0, h.promise[q].channel}
  PROVE  ReaderReaches(g, f)
BY DEF ReaderReaches

\* The next pair's number is nobody's yet.
LEMMA FreshNumber ==
  ASSUME NEW h, Good(h), h.made < Channels, NEW n, n = h.made + 1
  PROVE  /\ n \in Channel /\ n # 0 /\ n \in 0 .. Channels
         /\ ~h.got[n] /\ h.written[n] = "none" /\ h.read[n] = "none"
         /\ \A p \in Writer : h.promise[p].channel # n
         /\ \A f \in Future : h.future[f].channel # n
         /\ \A k \in Cont : Waits(h, k) => h.cont[k].channel # n
         /\ \A m \in Channel : m > n => ~h.got[m] /\ h.written[m] = "none" /\ h.read[m] = "none"
         /\ \A p \in Writer : h.promise[p].channel <= n
<1>1. h \in Heap /\ Numbers(h)
  BY DEF Good
<1>2. h.made \in Nat /\ Channels \in Nat
  BY <1>1, HeapFields
<1>3. n \in Channel /\ n # 0 /\ n \in 0 .. Channels /\ n > h.made
  BY <1>2 DEF Channel
<1>4. ~h.got[n] /\ h.written[n] = "none" /\ h.read[n] = "none"
  BY <1>1, <1>3 DEF Numbers
<1>5. \A p \in Writer : h.promise[p].channel # n /\ h.promise[p].channel <= n
  BY <1>1, <1>2, <1>3, HeapFields DEF Numbers
<1>6. \A f \in Future : h.future[f].channel # n
  BY <1>1, <1>3, <1>4 DEF Numbers
<1>7. \A k \in Cont : Waits(h, k) => h.cont[k].channel # n
  BY <1>1, <1>3, <1>4 DEF Numbers
<1>8. \A m \in Channel : m > n => m > h.made
  BY <1>2 DEF Channel
<1> QED BY <1>1, <1>3, <1>4, <1>5, <1>6, <1>7, <1>8 DEF Numbers

-----------------------------------------------------------------------------
(* Each function of the header.                                            *)

LEMMA MadeKeeps ==
  ASSUME NEW h, Good(h), NEW p \in Writer, ~h.promise[p].alive, h.made < Channels,
         p \in Cont => h.cont[p].stage = "done"
  PROVE  Good(Made(h, p))
<1> DEFINE g == Made(h, p)
           n == h.made + 1
<1>0. h \in Heap /\ Blank(h) /\ Links(h) /\ Tasks(h) /\ Queued(h)
        /\ Conts(h) /\ Numbers(h) /\ Writers(h) /\ Readers(h)
  BY DEF Good
<1>1. p \in Writer /\ p # Null /\ \A k \in Cont : h.cont[k].stage = "none" \/ Waits(h, k) => k # p
  BY FuturesAssumption DEF Writer, Waits
<1>2. /\ g.promise = [h.promise EXCEPT ![p] = NewPromise(n)] /\ g.made = n
      /\ g.future = h.future /\ g.cont = h.cont /\ g.queue = h.queue /\ g.got = h.got
      /\ g.written = h.written /\ g.read = h.read
      /\ g = [h EXCEPT !.promise = g.promise, !.made = n]
  BY <1>0 DEF Made, Heap
<1> HIDE DEF g, n
<1>3. /\ n \in Channel /\ n # 0 /\ n \in 0 .. Channels
      /\ ~h.got[n] /\ h.written[n] = "none" /\ h.read[n] = "none"
      /\ \A q \in Writer : h.promise[q].channel # n
      /\ \A f \in Future : h.future[f].channel # n
      /\ \A k \in Cont : Waits(h, k) => h.cont[k].channel # n
      /\ \A m \in Channel : m > n => ~h.got[m] /\ h.written[m] = "none" /\ h.read[m] = "none"
      /\ \A q \in Writer : h.promise[q].channel <= n
  BY FreshNumber DEF n
<1>4. NewPromise(n) \in PromiseRecord
  BY <1>3 DEF NewPromise, PromiseRecord, State
<1>5. g \in Heap
  BY <1>0, <1>1, <1>2, <1>3, <1>4 DEF Heap
<1>6. /\ g.promise[p] = [alive |-> TRUE, future |-> Null, state |-> "local", local |-> "future",
                         task |-> Null, channel |-> n]
      /\ \A q \in Writer : q # p => g.promise[q] = h.promise[q]
  BY <1>0, <1>1, <1>2, HeapParts DEF NewPromise
<1>7. \A k \in Cont : Waits(g, k) <=> Waits(h, k)
  BY <1>2 DEF Waits
<1>8. Blank(g)
  BY <1>0, <1>1, <1>2, <1>6 DEF Blank
<1>9. Links(g)
  BY <1>0, <1>1, <1>2, <1>6 DEF Links, Blank, NoPromise
<1>10. Tasks(g)
  BY <1>0, <1>1, <1>2, <1>6 DEF Tasks, Blank, NoPromise
<1>11. Queued(g)
  BY <1>0, <1>2 DEF Queued
<1>12. Conts(g)
  BY <1>0, <1>1, <1>2, <1>6, <1>7 DEF Conts
<1>13. Numbers(g)
  BY <1>0, <1>1, <1>2, <1>3, <1>6, <1>7, n <= n DEF Numbers
<1>14. Writers(g)
  <2>1. OneWriter(g)
    BY <1>0, <1>2, <1>3, <1>6 DEF Writers, OneWriter
  <2>2. WriterHolds(g, p)
    BY <1>2, <1>3, <1>6, FuturesAssumption DEF WriterHolds, Available
  <2>3. \A q \in Writer : q # p => WriterHolds(g, q)
    BY <1>0, <1>2, <1>6 DEF Writers, WriterHolds
  <2> QED BY <2>1, <2>2, <2>3 DEF Writers
<1>15. Readers(g)
  <2>1. OneReader(g)
    BY <1>0, <1>2, <1>7 DEF Readers, OneReader
  <2>2. \A f \in Future : h.future[f].promise # p /\ ReaderReaches(h, f)
    BY <1>0, <1>1, FuturesAssumption DEF Links, Blank, NoPromise, Readers
  <2>3. \A f \in Future : ReaderReaches(g, f)
    BY <1>0, <1>2, <1>3, <1>6, <2>2, HeapFields DEF ReaderReaches
  <2>4. Taken(g)
    BY <1>0, <1>2, <1>3, <1>6, <1>7 DEF Readers, Taken, Available, Waits
  <2> QED BY <2>1, <2>3, <2>4 DEF Readers
<1> QED BY <1>5, <1>8, <1>9, <1>10, <1>11, <1>12, <1>13, <1>14, <1>15 DEF Good, g

LEMMA GotFutureKeeps ==
  ASSUME NEW h, Good(h), NEW p \in Writer, NEW f \in Future, ~h.future[f].alive,
         h.promise[p].channel # 0, ~h.got[h.promise[p].channel]
  PROVE  Good(GotFuture(h, p, f))
<1> DEFINE g == GotFuture(h, p, f)
           n == h.promise[p].channel
<1>0. h \in Heap /\ Blank(h) /\ Links(h) /\ Tasks(h) /\ Queued(h)
        /\ Conts(h) /\ Numbers(h) /\ Writers(h) /\ Readers(h)
  BY DEF Good
<1>1. n \in Channel /\ n # 0 /\ f # Null /\ p # Null
  BY <1>0, HeapFields, FuturesAssumption DEF Writer
<1>2. /\ g.promise = [h.promise EXCEPT ![p] = [h.promise[p] EXCEPT !.future = f]]
      /\ g.future = [h.future EXCEPT ![f] = [alive |-> TRUE, promise |-> p, local |-> "future",
                                             channel |-> n]]
      /\ g.got = [h.got EXCEPT ![n] = TRUE]
      /\ g.cont = h.cont /\ g.queue = h.queue /\ g.made = h.made
      /\ g.written = h.written /\ g.read = h.read
      /\ g = [h EXCEPT !.promise = g.promise, !.future = g.future, !.got = g.got]
  BY <1>0 DEF GotFuture, Linked, Heap
<1> HIDE DEF g
<1>3. /\ [h.promise[p] EXCEPT !.future = f] \in PromiseRecord
      /\ [alive |-> TRUE, promise |-> p, local |-> "future", channel |-> n] \in FutureRecord
      /\ h.promise[p] \in PromiseRecord
  <2>1. h.promise[p] \in PromiseRecord
    BY <1>0, HeapParts
  <2>2. n \in 0 .. Channels
    BY <2>1 DEF PromiseRecord
  <2> HIDE DEF n
  <2> QED BY <2>1, <2>2 DEF PromiseRecord, FutureRecord, State
<1> HIDE DEF n
<1>4. g \in Heap
  <2>1. /\ g.promise \in [Writer -> PromiseRecord] /\ g.future \in [Future -> FutureRecord]
        /\ g.got \in [Channel -> BOOLEAN]
    BY <1>0, <1>1, <1>2, <1>3, HeapParts
  <2> QED BY <1>0, <1>2, <2>1 DEF Heap
<1>5. /\ g.promise[p].future = f /\ g.promise[p].alive = h.promise[p].alive
      /\ g.promise[p].state = h.promise[p].state /\ g.promise[p].local = h.promise[p].local
      /\ g.promise[p].task = h.promise[p].task /\ g.promise[p].channel = n
      /\ \A q \in Writer : q # p => g.promise[q] = h.promise[q]
  BY <1>0, <1>2, <1>3, HeapParts DEF PromiseRecord, n
<1>6. /\ g.future[f] = [alive |-> TRUE, promise |-> p, local |-> "future", channel |-> n]
      /\ \A e \in Future : e # f => g.future[e] = h.future[e]
      /\ g.got[n] /\ \A m \in Channel : m # n => g.got[m] = h.got[m]
  BY <1>0, <1>1, <1>2, HeapParts
<1>7. /\ h.promise[p].alive /\ h.promise[p].state = "local" /\ h.promise[p].future = Null
      /\ h.promise[p].task = Null /\ h.promise[p].channel = n /\ ~h.got[n]
      /\ h.written[n] # "none" => h.promise[p].local = h.written[n]
  BY <1>0, <1>1, FuturesAssumption DEF Blank, NoPromise, Writers, WriterHolds, Tasks, n
<1>8. /\ \A e \in Future : h.future[e].channel # n /\ h.future[e].promise # p
      /\ \A k \in Cont : Waits(h, k) => h.cont[k].channel # n
      /\ \A q \in Writer : h.promise[q].future # f
      /\ h.future[f].channel = 0
  BY <1>0, <1>1, <1>7, FuturesAssumption DEF Numbers, Links, Blank, NoFuture, Writer
<1>9. \A k \in Cont : Waits(g, k) <=> Waits(h, k)
  BY <1>2 DEF Waits
<1>10. Blank(g)
  <2>1. h.promise[p] # NoPromise
    BY <1>7 DEF NoPromise
  <2>2. \A k \in Cont : h.cont[k].stage = "none" => k # p /\ k \in Writer
    BY <1>0, <2>1 DEF Blank, Writer
  <2>3. g.future[f].alive /\ g.promise[p].alive
    BY <1>5, <1>6, <1>7
  <2> QED BY <1>0, <1>2, <1>5, <1>6, <2>2, <2>3 DEF Blank
<1>11. Links(g)
  BY <1>0, <1>1, <1>5, <1>6, <1>7, <1>8, FuturesAssumption DEF Links
<1>12. Tasks(g)
  <2>1. \A q \in Writer : g.promise[q].state = h.promise[q].state /\ g.promise[q].task = h.promise[q].task
          /\ g.promise[q].channel = h.promise[q].channel /\ g.promise[q].local = h.promise[q].local
    BY <1>5, <1>7
  <2>2. g.cont = h.cont /\ g.written = h.written
    BY <1>2
  <2> QED BY <1>0, <2>1, <2>2, TasksStay
<1>13. Queued(g)
  BY <1>0, <1>2 DEF Queued
<1>14. Conts(g)
  BY <1>0, <1>2, <1>5, <1>7, <1>9 DEF Conts
<1>15. Numbers(g)
  <2>1. n <= h.made /\ ~(n > h.made)
    BY <1>0, <1>1, <1>7, HeapFields DEF Numbers
  <2>2. h.read[n] = "none"
    BY <1>0, <1>1, <1>7 DEF Numbers
  <2>3. \A m \in Channel : m > g.made => ~g.got[m] /\ g.written[m] = "none"
    BY <1>0, <1>2, <1>6, <2>1 DEF Numbers
  <2>4. \A m \in Channel : ~g.got[m] => g.read[m] = "none"
    BY <1>0, <1>2, <1>6 DEF Numbers
  <2>5. \A q \in Writer : g.promise[q].channel <= g.made
    BY <1>0, <1>2, <1>5, <2>1 DEF Numbers
  <2>6. \A e \in Future : h.future[e].channel # 0 => h.future[e].channel \in Channel
    BY <1>0, HeapFields
  <2>7. \A e \in Future : g.future[e].channel # 0 =>
          g.got[g.future[e].channel] /\ g.read[g.future[e].channel] = "none"
    BY <1>0, <1>2, <1>6, <1>8, <2>2, <2>6 DEF Numbers
  <2>8. \A k \in Cont : h.cont[k].channel # 0 => h.cont[k].channel \in Channel
    BY <1>0, HeapFields
  <2>9. \A k \in Cont : Waits(g, k) =>
          g.cont[k].channel # 0 /\ g.got[g.cont[k].channel] /\ g.read[g.cont[k].channel] = "none"
    BY <1>0, <1>2, <1>6, <1>8, <1>9, <2>8 DEF Numbers
  <2> QED BY <2>3, <2>4, <2>5, <2>7, <2>9 DEF Numbers
<1>16. Writers(g)
  <2>1. OneWriter(g)
    BY <1>0, <1>5, <1>7 DEF Writers, OneWriter
  <2>2. WriterHolds(h, p)
    BY <1>0 DEF Writers
  <2>3. WriterHolds(g, p)
    BY <1>2, <1>5, <1>6, <1>7, <2>2 DEF WriterHolds
  <2>4. ASSUME NEW q \in Writer, q # p PROVE WriterHolds(g, q)
    <3>1. WriterHolds(h, q) /\ (h.promise[q].channel # 0 => h.promise[q].channel # n)
      BY <1>0, <1>1, <1>7, <2>4 DEF Writers, OneWriter
    <3>2. h.promise[q].channel # 0 => h.promise[q].channel \in Channel
      BY <1>0, HeapFields
    <3> QED BY <1>2, <1>5, <1>6, <2>4, <3>1, <3>2 DEF WriterHolds
  <2> QED BY <2>1, <2>3, <2>4 DEF Writers
<1>17. Readers(g)
  <2>1. OneReader(g)
    BY <1>0, <1>2, <1>6, <1>8, <1>9 DEF Readers, OneReader
  <2>2. ReaderReaches(g, f)
    BY <1>1, <1>2, <1>5, <1>6, <1>7 DEF ReaderReaches
  <2>3. ASSUME NEW e \in Future, e # f PROVE ReaderReaches(g, e)
    <3>1. ReaderReaches(h, e) /\ h.future[e].promise # p
      BY <1>0, <1>8 DEF Readers
    <3>2. h.future[e].promise \in Writer \cup {Null}
      BY <1>0, HeapFields
    <3>3. \A q \in Writer : g.promise[q].channel = h.promise[q].channel
      BY <1>5, <1>7
    <3> QED BY <1>2, <1>5, <1>6, <2>3, <3>1, <3>2, <3>3 DEF ReaderReaches
  <2>4. Taken(g)
    BY <1>0, <1>2, <1>5, <1>7 DEF Readers, Taken
  <2> QED BY <2>1, <2>2, <2>3, <2>4 DEF Readers
<1> QED BY <1>4, <1>10, <1>11, <1>12, <1>13, <1>14, <1>15, <1>16, <1>17 DEF Good, g

-----------------------------------------------------------------------------
(* What the functions do to results: some only read, some only write.      *)

ReadsOne(h, g, n) == h.written[n] # "none" /\ h.read[n] = "none" /\ g.read[n] = h.written[n]

Reads(h, g) ==
  /\ g.written = h.written
  /\ \A n \in Channel : g.read[n] = h.read[n] \/ ReadsOne(h, g, n)
  /\ \A k \in Cont : Waits(h, k) =>
       \/ (Waits(g, k) /\ g.cont[k].channel = h.cont[k].channel)
       \/ ReadsOne(h, g, h.cont[k].channel)

Writes(h, g) ==
  /\ g.read = h.read
  /\ \A n \in Channel :
       g.written[n] = h.written[n] \/ (h.written[n] = "none" /\ g.written[n] \in Outcome)
  /\ \A k \in Cont : Waits(h, k) => Waits(g, k) /\ g.cont[k].channel = h.cont[k].channel

\* Some do neither.
Quiet(h, g) ==
  /\ g.written = h.written /\ g.read = h.read
  /\ \A k \in Cont : Waits(h, k) => Waits(g, k) /\ g.cont[k].channel = h.cont[k].channel

LEMMA QuietIsBoth == ASSUME NEW h, NEW g, Quiet(h, g) PROVE Reads(h, g) /\ Writes(h, g)
BY DEF Quiet, Reads, Writes

LEMMA WritesInARow ==
  ASSUME NEW h, NEW m, NEW g, Writes(h, m), Writes(m, g)
  PROVE  Writes(h, g)
BY DEF Writes

\* A result that has been read is not read again.
LEMMA ReadsInARow ==
  ASSUME NEW h, Good(h), NEW m, NEW g, Reads(h, m), Reads(m, g)
  PROVE  Reads(h, g)
<1>1. ASSUME NEW n \in Channel, ReadsOne(h, m, n)
      PROVE  ReadsOne(h, g, n)
  BY <1>1 DEF Reads, ReadsOne
<1>2. ASSUME NEW n \in Channel, ReadsOne(m, g, n)
      PROVE  ReadsOne(h, g, n)
  <2>1. m.written = h.written /\ (m.read[n] = h.read[n] \/ ReadsOne(h, m, n))
    BY DEF Reads
  <2> QED BY <1>2, <2>1 DEF ReadsOne
<1>3. \A n \in Channel : g.read[n] = h.read[n] \/ ReadsOne(h, g, n)
  BY <1>1, <1>2 DEF Reads
<1>4. ASSUME NEW k \in Cont, Waits(h, k)
      PROVE  \/ Waits(g, k) /\ g.cont[k].channel = h.cont[k].channel
             \/ ReadsOne(h, g, h.cont[k].channel)
  <2>1. h.cont[k].channel \in Channel
    BY <1>4, HeapFields DEF Good, Numbers
  <2> QED BY <1>1, <1>2, <1>4, <2>1 DEF Reads
<1> QED BY <1>3, <1>4 DEF Reads

\* A promise that is not resolved yet, and not that of a continuation that waits.
Open(h, p) ==
  /\ h.promise[p].channel # 0 /\ h.written[h.promise[p].channel] = "none"
  /\ p \in Cont => ~Waits(h, p)

\* A promise that nobody waits for a result of.
Settled(h, p) ==
  /\ h.promise[p].future # Null \/ h.promise[p].task # Null => StateAt(h, p) # "future"
  /\ p \in Cont => ~Waits(h, p)

\* A result is put into a promise nobody has called then() on.
LEMMA ResolvedHereKeeps ==
  ASSUME NEW h, Good(h), NEW p \in Writer, Open(h, p), NEW outcome \in Outcome,
         h.promise[p].state = "local"
  PROVE  /\ Good(Resolved(h, p, outcome)) /\ Writes(h, Resolved(h, p, outcome))
         /\ Settled(Resolved(h, p, outcome), p)
<1> DEFINE g == Resolved(h, p, outcome)
           n == h.promise[p].channel
<1>0. h \in Heap /\ Blank(h) /\ Links(h) /\ Tasks(h) /\ Queued(h)
        /\ Conts(h) /\ Numbers(h) /\ Writers(h) /\ Readers(h)
  BY DEF Good
<1>1. /\ n \in Channel /\ n # 0 /\ h.written[n] = "none" /\ h.promise[p].task = Null
      /\ h.promise[p] \in PromiseRecord /\ outcome \in State
  BY <1>0, HeapFields, HeapParts, FuturesAssumption DEF Open, Tasks, Outcome, State
<1>2. /\ g.promise = [h.promise EXCEPT ![p] = [h.promise[p] EXCEPT !.local = outcome]]
      /\ g.written = [h.written EXCEPT ![n] = outcome]
      /\ g.future = h.future /\ g.got = h.got
      /\ g.cont = h.cont /\ g.queue = h.queue /\ g.made = h.made /\ g.read = h.read
      /\ g = [h EXCEPT !.promise = g.promise, !.written = g.written]
  <2>1. PutState(h, p, outcome) = [h EXCEPT !.promise = [h.promise EXCEPT ![p] = [h.promise[p] EXCEPT !.local = outcome]]]
    BY DEF PutState
  <2> DEFINE set == PutState(h, p, outcome)
             w == [set EXCEPT !.written[h.promise[p].channel] = outcome]
  <2>2. w.promise[p].task = Null
    BY <1>0, <1>1, <2>1, HeapParts DEF Heap, PromiseRecord
  <2>3. g = w
    BY <2>2 DEF Resolved, MadeReady
  <2> QED BY <1>0, <2>1, <2>3 DEF Heap
<1> HIDE DEF g
<1>3. /\ g.promise[p].future = h.promise[p].future /\ g.promise[p].alive = h.promise[p].alive
      /\ g.promise[p].state = h.promise[p].state /\ g.promise[p].local = outcome
      /\ g.promise[p].task = h.promise[p].task /\ g.promise[p].channel = n
      /\ g.promise[p] \in PromiseRecord
      /\ \A q \in Writer : q # p => g.promise[q] = h.promise[q]
  <2>1. /\ g.promise[p] = [h.promise[p] EXCEPT !.local = outcome]
        /\ \A q \in Writer : q # p => g.promise[q] = h.promise[q]
    BY <1>0, <1>2, HeapParts
  <2>2. h.promise[p].channel = n
    OBVIOUS
  <2> HIDE DEF n
  <2> QED BY <1>1, <2>1, <2>2 DEF PromiseRecord
<1>4. g \in Heap
  <2>1. /\ g.promise \in [Writer -> PromiseRecord] /\ g.written \in [Channel -> Result]
    BY <1>0, <1>1, <1>2, <1>3, HeapParts DEF Outcome, Result
  <2> QED BY <1>0, <1>2, <2>1 DEF Heap
<1> HIDE DEF n
<1>5. /\ h.promise[p].alive /\ h.promise[p].channel = n /\ h.promise[p].state = "local"
      /\ h.promise[p].local = "future" /\ h.promise[p] # NoPromise
  BY <1>0, <1>1 DEF Blank, NoPromise, Writers, WriterHolds, n
<1>6. /\ g.written[n] = outcome /\ \A m \in Channel : m # n => g.written[m] = h.written[m]
  BY <1>0, <1>1, <1>2, HeapParts
<1>7. /\ \A q \in Writer : q # p => h.promise[q].channel # n
      /\ \A k \in Cont : h.cont[k].stage = "scheduled" => h.cont[k].channel # n
      /\ \A f \in Future : h.future[f].channel = n => h.future[f].promise = p
  <2>1. \A q \in Writer : q # p => h.promise[q].channel # n
    BY <1>0, <1>1, <1>5 DEF Writers, OneWriter
  <2>2. \A k \in Cont : h.cont[k].stage = "scheduled" => h.cont[k].channel # n
    BY <1>0, <1>1 DEF Conts, Outcome
  <2>3. \A f \in Future : h.future[f].channel = n => h.future[f].promise = p
    <3> SUFFICES ASSUME NEW f \in Future, h.future[f].channel = n PROVE h.future[f].promise = p
      OBVIOUS
    <3>1. h.future[f].promise # Null
      BY <1>0, <1>1 DEF Readers, ReaderReaches, Outcome
    <3>2. h.future[f].promise \in Writer /\ h.promise[h.future[f].promise].channel = n
      BY <1>0, <1>1, <3>1, HeapFields DEF Readers, ReaderReaches
    <3> QED BY <2>1, <3>2
  <2> QED BY <2>1, <2>2, <2>3
<1>8. \A k \in Cont : Waits(g, k) <=> Waits(h, k)
  BY <1>2 DEF Waits
<1>9. \A q \in Writer : g.promise[q].channel = h.promise[q].channel /\ g.promise[q].alive = h.promise[q].alive
        /\ g.promise[q].future = h.promise[q].future /\ g.promise[q].state = h.promise[q].state
        /\ g.promise[q].task = h.promise[q].task
  BY <1>3, <1>5
<1>10. Blank(g)
  <2>1. \A k \in Cont : h.cont[k].stage = "none" => k # p /\ k \in Writer
    BY <1>0, <1>5 DEF Blank, Writer
  <2> QED BY <1>0, <1>2, <1>3, <1>5, <2>1 DEF Blank
<1>11. Links(g)
  BY <1>0, <1>2, <1>9 DEF Links
<1>12. Tasks(g)
  <2>1. \A q \in Writer : h.promise[q].task # Null => q # p /\ h.promise[q].channel \in Channel
    BY <1>0, <1>1, HeapFields DEF Tasks
  <2>2. \A q \in Writer : h.promise[q].task # Null =>
          /\ g.promise[q] = h.promise[q] /\ h.promise[q].channel # n
          /\ g.written[h.promise[q].channel] = h.written[h.promise[q].channel]
    BY <1>3, <1>6, <1>7, <2>1
  <2>3. g.cont = h.cont
    BY <1>2
  <2> QED BY <1>0, <1>9, <2>2, <2>3, TasksStay
<1>13. Queued(g)
  BY <1>0, <1>2 DEF Queued
<1>14. Conts(g)
  <2>1. \A k \in Cont : Waits(h, k) => h.promise[k].channel \in Channel /\ h.cont[k].channel \in Channel
          /\ h.promise[k].channel # n
    BY <1>0, <1>7, HeapFields DEF Conts, Numbers, Open, Writer
  <2> QED BY <1>0, <1>2, <1>6, <1>7, <1>8, <1>9, <2>1 DEF Conts, Waits, Writer
<1>15. Numbers(g)
  <2>1. ~(n > h.made)
    BY <1>0, <1>1, <1>5, HeapFields DEF Numbers
  <2> QED BY <1>0, <1>2, <1>6, <1>8, <1>9, <2>1 DEF Numbers
<1>16. Writers(g)
  <2>1. OneWriter(g)
    BY <1>0, <1>9 DEF Writers, OneWriter
  <2>2. WriterHolds(h, p)
    BY <1>0 DEF Writers
  <2>3. WriterHolds(g, p)
    BY <1>1, <1>2, <1>3, <1>5, <1>6, <2>2, FuturesAssumption DEF WriterHolds, Outcome
  <2>4. ASSUME NEW q \in Writer, q # p PROVE WriterHolds(g, q)
    <3>1. WriterHolds(h, q) /\ h.promise[q].channel # n
      BY <1>0, <1>7, <2>4 DEF Writers
    <3>2. h.promise[q].channel # 0 => h.promise[q].channel \in Channel
      BY <1>0, HeapFields
    <3> QED BY <1>2, <1>3, <1>6, <2>4, <3>1, <3>2 DEF WriterHolds
  <2> QED BY <2>1, <2>3, <2>4 DEF Writers
<1>17. Readers(g)
  <2>1. OneReader(g)
    BY <1>0, <1>2, <1>8 DEF Readers, OneReader
  <2>2. ASSUME NEW f \in Future PROVE ReaderReaches(g, f)
    <3>1. ReaderReaches(h, f) /\ h.future[f].promise \in Writer \cup {Null}
            /\ (h.future[f].channel # 0 => h.future[f].channel \in Channel)
      BY <1>0, HeapFields DEF Readers
    <3>2. CASE h.future[f].channel = n
      BY <1>2, <1>3, <1>6, <1>7, <1>9, <3>1, <3>2, FuturesAssumption DEF ReaderReaches, Writer
    <3>3. CASE h.future[f].channel # n
      <4>1. h.future[f].channel # 0 /\ h.future[f].promise # Null => h.future[f].promise # p
        BY <1>5, <3>1, <3>3 DEF ReaderReaches
      <4> QED BY <1>2, <1>3, <1>6, <1>9, <3>1, <3>3, <4>1 DEF ReaderReaches
    <3> QED BY <3>2, <3>3
  <2>3. Taken(g)
    BY <1>0, <1>2, <1>3, <1>5, <1>7 DEF Readers, Taken
  <2> QED BY <2>1, <2>2, <2>3 DEF Readers
<1>18. Writes(h, g)
  BY <1>1, <1>2, <1>6 DEF Writes, Waits
<1>19. Settled(g, p)
  <2>1. StateAt(g, p) = outcome
    BY <1>3, <1>5 DEF StateAt
  <2> QED BY <1>2, <2>1 DEF Settled, Open, Outcome, Waits
<1> QED BY <1>4, <1>10, <1>11, <1>12, <1>13, <1>14, <1>15, <1>16, <1>17, <1>18, <1>19
        DEF Good, g

\* A result is put into the continuation that waits for it.
LEMMA ResolvedThereKeeps ==
  ASSUME NEW h, Good(h), NEW p \in Writer, Open(h, p), NEW outcome \in Outcome,
         h.promise[p].task # Null
  PROVE  /\ Good(Resolved(h, p, outcome)) /\ Writes(h, Resolved(h, p, outcome))
         /\ Settled(Resolved(h, p, outcome), p)
<1> DEFINE g == Resolved(h, p, outcome)
           n == h.promise[p].channel
           c == h.promise[p].task
<1>0. h \in Heap /\ Blank(h) /\ Links(h) /\ Tasks(h) /\ Queued(h)
        /\ Conts(h) /\ Numbers(h) /\ Writers(h) /\ Readers(h)
  BY DEF Good
<1>1. /\ n \in Channel /\ n # 0 /\ h.written[n] = "none" /\ c \in Cont
      /\ h.promise[p].state = "task" /\ h.promise[p].state # "local"
      /\ h.promise[p] \in PromiseRecord /\ h.cont[c] \in ContRecord /\ outcome \in State
  BY <1>0, HeapFields, HeapParts, FuturesAssumption DEF Open, Tasks, Outcome, State
<1>2. /\ g.promise = [h.promise EXCEPT ![p] = [h.promise[p] EXCEPT !.state = Null, !.task = Null]]
      /\ g.cont = [h.cont EXCEPT ![c] = [h.cont[c] EXCEPT !.state = outcome, !.stage = "scheduled"]]
      /\ g.written = [h.written EXCEPT ![n] = outcome]
      /\ g.queue = Append(h.queue, c)
      /\ g.future = h.future /\ g.got = h.got /\ g.made = h.made /\ g.read = h.read
      /\ g = [h EXCEPT !.promise = g.promise, !.cont = g.cont, !.queue = g.queue,
                       !.written = g.written]
  <2> DEFINE set == PutState(h, p, outcome)
             w == [set EXCEPT !.written[h.promise[p].channel] = outcome]
  <2>1. set = [h EXCEPT !.cont = [h.cont EXCEPT ![c] = [h.cont[c] EXCEPT !.state = outcome]]]
    BY <1>1 DEF PutState
  <2>2. /\ w.promise = h.promise /\ w.future = h.future /\ w.queue = h.queue /\ w.made = h.made
        /\ w.cont = [h.cont EXCEPT ![c] = [h.cont[c] EXCEPT !.state = outcome]]
        /\ w.got = h.got /\ w.read = h.read /\ w.written = [h.written EXCEPT ![n] = outcome]
        /\ w = [h EXCEPT !.cont = w.cont, !.written = w.written]
    <3> HIDE DEF n, c
    <3> QED BY <1>0, <2>1 DEF Heap, n
  <2>3. g = [w EXCEPT !.promise[p].state = Null, !.promise[p].task = Null,
                      !.cont[c].stage = "scheduled", !.queue = Append(@, c)]
    <3>1. w.promise[p].task = c /\ c # Null
      BY <2>2
    <3> HIDE DEF w, c
    <3>2. MadeReady(w, p) = [w EXCEPT !.promise[p].state = Null, !.promise[p].task = Null,
                      !.cont[c].stage = "scheduled", !.queue = Append(@, c)]
      BY <3>1 DEF MadeReady
    <3> QED BY <3>2 DEF Resolved, w
  <2> HIDE DEF g, w, n, c
  <2>4. /\ g.promise = [h.promise EXCEPT ![p] = [h.promise[p] EXCEPT !.state = Null, !.task = Null]]
        /\ g.queue = Append(h.queue, c) /\ g.written = w.written
        /\ g.future = h.future /\ g.got = h.got /\ g.made = h.made /\ g.read = h.read
        /\ g.cont = [w.cont EXCEPT ![c] = [w.cont[c] EXCEPT !.stage = "scheduled"]]
        /\ g = [h EXCEPT !.promise = g.promise, !.cont = g.cont, !.queue = g.queue,
                         !.written = g.written]
    BY <1>0, <1>1, <2>2, <2>3, HeapParts DEF Heap, PromiseRecord
  <2>5. g.cont = [h.cont EXCEPT ![c] = [h.cont[c] EXCEPT !.state = outcome, !.stage = "scheduled"]]
    <3> DEFINE a == [h.cont[c] EXCEPT !.state = outcome]
               b == [h.cont[c] EXCEPT !.state = outcome, !.stage = "scheduled"]
    <3>1. w.cont = [h.cont EXCEPT ![c] = a] /\ h.cont \in [Cont -> ContRecord]
      BY <1>0, <2>2, HeapParts
    <3>2. w.cont[c] = a
      BY <1>1, <3>1
    <3>3. [w.cont[c] EXCEPT !.stage = "scheduled"] = b
      BY <1>1, <3>2 DEF ContRecord
    <3>4. g.cont = [w.cont EXCEPT ![c] = b]
      BY <2>4, <3>3
    <3> HIDE DEF a, b
    <3>5. [[h.cont EXCEPT ![c] = a] EXCEPT ![c] = b] = [h.cont EXCEPT ![c] = b]
      BY <3>1
    <3> QED BY <3>1, <3>4, <3>5 DEF b
  <2> QED BY <2>2, <2>4, <2>5
<1> HIDE DEF g
<1>3. /\ g.promise[p].future = h.promise[p].future /\ g.promise[p].alive = h.promise[p].alive
      /\ g.promise[p].state = Null /\ g.promise[p].local = h.promise[p].local
      /\ g.promise[p].task = Null /\ g.promise[p].channel = n
      /\ g.promise[p] \in PromiseRecord
      /\ \A q \in Writer : q # p => g.promise[q] = h.promise[q]
  <2>1. /\ g.promise[p] = [h.promise[p] EXCEPT !.state = Null, !.task = Null]
        /\ \A q \in Writer : q # p => g.promise[q] = h.promise[q]
    BY <1>0, <1>2, HeapParts
  <2>2. h.promise[p].channel = n
    OBVIOUS
  <2> HIDE DEF n, c
  <2> QED BY <1>1, <2>1, <2>2 DEF PromiseRecord
<1>4. /\ g.cont[c].stage = "scheduled" /\ g.cont[c].state = outcome
      /\ g.cont[c].channel = h.cont[c].channel /\ g.cont[c] \in ContRecord
      /\ \A k \in Cont : k # c => g.cont[k] = h.cont[k]
  <2> HIDE DEF c, n
  <2>1. /\ g.cont[c] = [h.cont[c] EXCEPT !.state = outcome, !.stage = "scheduled"]
        /\ \A k \in Cont : k # c => g.cont[k] = h.cont[k]
    BY <1>0, <1>1, <1>2, HeapParts
  <2> QED BY <1>1, <2>1 DEF ContRecord
<1> HIDE DEF c, n
<1>5. g \in Heap
  <2>1. /\ g.promise \in [Writer -> PromiseRecord] /\ g.written \in [Channel -> Result]
        /\ g.cont \in [Cont -> ContRecord]
    BY <1>0, <1>1, <1>2, <1>3, <1>4, HeapParts DEF Outcome, Result
  <2>2. g.queue \in Seq(Cont)
    BY <1>0, <1>1, <1>2, HeapParts, AppendProperties
  <2> QED BY <1>0, <1>2, <2>1, <2>2 DEF Heap
<1>6. /\ h.promise[p].alive /\ h.promise[p].channel = n /\ h.promise[p].task = c
      /\ h.promise[p].local = "future" /\ h.promise[p] # NoPromise /\ h.promise[p].future = Null
      /\ h.cont[c].stage = "attached" /\ h.cont[c].channel = n /\ h.got[n]
  <2>1. h.promise[p].channel = n /\ h.promise[p].task = c
    BY DEF n, c
  <2>2. h.promise[p].alive /\ h.promise[p] # NoPromise
    BY <1>0, <1>1, <2>1 DEF Blank, NoPromise
  <2>3. /\ h.promise[p].local = "future" /\ h.promise[p].future = Null
        /\ h.cont[c].stage = "attached" /\ h.cont[c].channel = n
    BY <1>0, <1>1, <2>1, FuturesAssumption DEF Tasks, Links
  <2> QED BY <1>0, <1>1, <2>1, <2>2, <2>3 DEF Numbers, Waits
<1>7. /\ g.written[n] = outcome /\ \A m \in Channel : m # n => g.written[m] = h.written[m]
  BY <1>0, <1>1, <1>2, HeapParts
<1>8. /\ \A q \in Writer : q # p => h.promise[q].channel # n /\ h.promise[q].task # c
      /\ \A k \in Cont : Waits(h, k) /\ k # c => h.cont[k].channel # n
      /\ \A f \in Future : h.future[f].channel # n
  <2>1. \A q \in Writer : q # p => h.promise[q].channel # n /\ h.promise[q].task # c
    BY <1>0, <1>1, <1>6, FuturesAssumption DEF Writers, OneWriter, Tasks
  <2>2. Waits(h, c)
    BY <1>6 DEF Waits
  <2> QED BY <1>0, <1>1, <1>6, <2>1, <2>2 DEF Readers, OneReader
<1>9. \A k \in Cont : Waits(g, k) <=> Waits(h, k)
  BY <1>4, <1>6 DEF Waits
<1>10. \A q \in Writer : g.promise[q].channel = h.promise[q].channel /\ g.promise[q].alive = h.promise[q].alive
        /\ g.promise[q].future = h.promise[q].future /\ g.promise[q].local = h.promise[q].local
  BY <1>3, <1>6
<1>11. Blank(g)
  <2>1. \A k \in Cont : h.cont[k].stage = "none" => k # p /\ k # c /\ k \in Writer
    BY <1>0, <1>6 DEF Blank, Writer
  <2>2. \A k \in Cont : g.cont[k].stage = "none" => h.cont[k].stage = "none"
    BY <1>4
  <2> QED BY <1>0, <1>2, <1>3, <1>4, <1>6, <2>1, <2>2 DEF Blank
<1>12. Links(g)
  BY <1>0, <1>2, <1>3, <1>6, <1>10 DEF Links
<1>13. Tasks(g)
  <2>1. ASSUME NEW q \in Writer, h.promise[q].task # Null, q # p
        PROVE  /\ h.promise[q].task # c /\ h.promise[q].channel \in Channel
               /\ h.promise[q].channel # n /\ h.promise[q].task \in Cont
    BY <1>0, <1>8, <2>1, HeapFields DEF Tasks
  <2>2. \A q \in Writer : g.promise[q].state = "task" <=> g.promise[q].task # Null
    BY <1>0, <1>3, FuturesAssumption DEF Tasks
  <2>3. ASSUME NEW q \in Writer, g.promise[q].task # Null
        PROVE  LET k == g.promise[q].task
               IN  /\ g.cont[k].stage = "attached" /\ g.cont[k].channel = g.promise[q].channel
                   /\ g.promise[q].channel # 0 /\ g.promise[q].local = "future"
                   /\ g.written[g.promise[q].channel] = "none"
    <3>1. q # p /\ g.promise[q] = h.promise[q]
      BY <1>3, <2>3
    <3> QED BY <1>0, <1>4, <1>7, <2>1, <2>3, <3>1 DEF Tasks
  <2>4. \A q, r \in Writer : g.promise[q].task # Null /\ g.promise[q].task = g.promise[r].task => q = r
    BY <1>0, <1>3 DEF Tasks
  <2>5. ASSUME NEW k \in Cont, g.cont[k].stage = "attached"
        PROVE  \E q \in Writer : g.promise[q].task = k
    <3>1. k # c /\ h.cont[k].stage = "attached"
      BY <1>4, <2>5
    <3>2. PICK q \in Writer : h.promise[q].task = k
      BY <1>0, <3>1 DEF Tasks
    <3>3. q # p
      BY <1>6, <3>1, <3>2
    <3> QED BY <1>3, <3>2, <3>3
  <2> QED BY <2>2, <2>3, <2>4, <2>5 DEF Tasks
<1>14. Queued(g)
  <2>1. Once(h.queue, Cont, Self) /\ h.queue \in Seq(Cont)
          /\ Items(h.queue) = {k \in Cont : h.cont[k].stage = "scheduled"}
    BY <1>0, HeapParts DEF Queued
  <2>2. c \notin Items(h.queue)
    BY <1>6, <2>1
  <2>3. Keys(h.queue, Cont, Self) = {Self[x] : x \in Items(h.queue) \cap Cont}
    BY KeysOfItems
  <2>4. Self[c] \notin Keys(h.queue, Cont, Self)
    BY <1>1, <2>2, <2>3 DEF Self
  <2>5. Once(Append(h.queue, c), Cont, Self)
    BY <1>1, <2>1, <2>4, OnceAppend
  <2>6. /\ Items(Append(h.queue, c)) = Items(h.queue) \cup {c}
        /\ Ordered(h.queue, {}) /\ Apart(Items(h.queue), {c}, {}) => Ordered(Append(h.queue, c), {})
    BY <1>1, <2>1, OrderedAppend
  <2>7. {k \in Cont : g.cont[k].stage = "scheduled"} = Items(h.queue) \cup {c}
    BY <1>1, <1>4, <2>1
  <2> QED BY <1>2, <2>5, <2>6, <2>7 DEF Queued
<1>15. Conts(g)
  <2>1. \A k \in Cont : Waits(h, k) => h.promise[k].channel \in Channel /\ h.cont[k].channel \in Channel
          /\ h.promise[k].channel # n
    BY <1>0, <1>6, <1>8, HeapFields DEF Conts, Numbers, Open, Writer
  <2>2. ASSUME NEW k \in Cont, k # c
        PROVE  /\ g.cont[k].stage = "attached" => g.cont[k].state = "future"
               /\ g.cont[k].stage = "scheduled" =>
                    g.cont[k].state \in Outcome /\ g.cont[k].state = g.written[g.cont[k].channel]
               /\ g.cont[k].stage = "done" => g.cont[k].state = "invalid"
    BY <1>0, <1>4, <1>7, <1>8, <2>1, <2>2 DEF Conts, Waits
  <2>3. \A k \in Cont : Waits(g, k) => g.promise[k].channel # 0 /\ g.written[g.promise[k].channel] = "none"
    BY <1>0, <1>7, <1>9, <1>10, <2>1 DEF Conts, Writer
  <2>4. g.cont[c].stage = "scheduled" /\ g.cont[c].state \in Outcome /\ g.cont[c].state = g.written[g.cont[c].channel]
    BY <1>4, <1>6, <1>7
  <2> QED BY <2>2, <2>3, <2>4 DEF Conts
<1>16. Numbers(g)
  <2>1. ~(n > h.made)
    BY <1>0, <1>1, <1>6, HeapFields DEF Numbers
  <2>2. \A k \in Cont : g.cont[k].channel = h.cont[k].channel
    BY <1>4
  <2>3. \A m \in Channel : m > g.made => ~g.got[m] /\ g.written[m] = "none"
    BY <1>0, <1>2, <1>7, <2>1 DEF Numbers
  <2>4. \A m \in Channel : ~g.got[m] => g.read[m] = "none"
    BY <1>0, <1>2 DEF Numbers
  <2>5. \A q \in Writer : g.promise[q].channel <= g.made
    BY <1>0, <1>2, <1>10 DEF Numbers
  <2>6. \A e \in Future : g.future[e].channel # 0 =>
          g.got[g.future[e].channel] /\ g.read[g.future[e].channel] = "none"
    BY <1>0, <1>2 DEF Numbers
  <2>7. \A k \in Cont : Waits(g, k) =>
          g.cont[k].channel # 0 /\ g.got[g.cont[k].channel] /\ g.read[g.cont[k].channel] = "none"
    BY <1>0, <1>2, <1>9, <2>2 DEF Numbers
  <2> QED BY <2>3, <2>4, <2>5, <2>6, <2>7 DEF Numbers
<1>17. Writers(g)
  <2>1. OneWriter(g)
    BY <1>0, <1>10 DEF Writers, OneWriter
  <2>2. WriterHolds(g, p)
    BY <1>1, <1>2, <1>3, <1>6, <1>7 DEF WriterHolds, Outcome, Available
  <2>3. ASSUME NEW q \in Writer, q # p PROVE WriterHolds(g, q)
    <3>1. WriterHolds(h, q) /\ h.promise[q].channel # n
      BY <1>0, <1>8, <2>3 DEF Writers
    <3>2. h.promise[q].channel # 0 => h.promise[q].channel \in Channel
      BY <1>0, HeapFields
    <3> QED BY <1>2, <1>3, <1>7, <2>3, <3>1, <3>2 DEF WriterHolds
  <2> QED BY <2>1, <2>2, <2>3 DEF Writers
<1>18. Readers(g)
  <2>1. \A k \in Cont : g.cont[k].channel = h.cont[k].channel
    BY <1>4
  <2>2. OneReader(g)
    BY <1>0, <1>2, <1>9, <2>1 DEF Readers, OneReader
  <2>3. ASSUME NEW f \in Future PROVE ReaderReaches(g, f)
    <3>1. ReaderReaches(h, f) /\ h.future[f].promise \in Writer \cup {Null}
            /\ (h.future[f].channel # 0 => h.future[f].channel \in Channel)
            /\ h.future[f].channel # n
      BY <1>0, <1>8, HeapFields DEF Readers
    <3> QED BY <1>2, <1>7, <1>10, <3>1 DEF ReaderReaches
  <2>4. Taken(g)
    <3> SUFFICES ASSUME NEW k \in Cont, NEW q \in Writer, g.cont[k].stage = "scheduled",
                        g.promise[q].channel = g.cont[k].channel
                 PROVE  ~Available(g.promise[q].local)
      BY DEF Taken
    <3>1. CASE k = c
      <4>1. q = p
        BY <1>6, <1>8, <1>10, <2>1, <3>1
      <4> QED BY <1>3, <1>6, <4>1 DEF Available
    <3>2. CASE k # c
      BY <1>0, <1>4, <1>10, <3>2 DEF Readers, Taken
    <3> QED BY <3>1, <3>2
  <2> QED BY <2>2, <2>3, <2>4 DEF Readers
<1>19. Writes(h, g)
  <2>1. \A k \in Cont : Waits(h, k) => Waits(g, k) /\ g.cont[k].channel = h.cont[k].channel
    BY <1>4 DEF Waits
  <2> QED BY <1>1, <1>2, <1>7, <2>1 DEF Writes
<1>20. Settled(g, p)
  <2>1. c # p
    BY <1>1, <1>6 DEF Open, Waits
  <2> QED BY <1>3, <1>4, <1>6, <2>1 DEF Settled, Open, Waits
<1> QED BY <1>5, <1>11, <1>12, <1>13, <1>14, <1>15, <1>16, <1>17, <1>18, <1>19, <1>20
        DEF Good, g

\* set_value and set_exception.
LEMMA ResolvedKeeps ==
  ASSUME NEW h, Good(h), NEW p \in Writer, Open(h, p), NEW outcome \in Outcome
  PROVE  /\ Good(Resolved(h, p, outcome)) /\ Writes(h, Resolved(h, p, outcome))
         /\ Settled(Resolved(h, p, outcome), p)
<1>1. h.promise[p].state # Null /\ h.promise[p].state \in {"local", "task", Null}
  BY HeapFields DEF Good, Writers, WriterHolds, Open
<1>2. h.promise[p].state = "task" => h.promise[p].task # Null
  BY DEF Good, Tasks
<1> QED BY <1>1, <1>2, ResolvedHereKeeps, ResolvedThereKeeps

\* A continuation leaves the queue, and its result is read.
StartedIn(h, k) == [h EXCEPT !.queue = Tail(@), !.cont[k].stage = "done", !.cont[k].state = "invalid",
                             !.read[h.cont[k].channel] = h.cont[k].state]

LEMMA StartedKeeps ==
  ASSUME NEW h, Good(h), NEW c \in Cont, h.queue # <<>>, Head(h.queue) = c
  PROVE  /\ Good(StartedIn(h, c)) /\ h.cont[c].stage = "scheduled" /\ Reads(h, StartedIn(h, c))
         /\ Open(StartedIn(h, c), c) /\ StartedIn(h, c).cont[c].stage = "done"
<1> DEFINE g == StartedIn(h, c)
           n == h.cont[c].channel
<1>0. h \in Heap /\ Blank(h) /\ Links(h) /\ Tasks(h) /\ Queued(h)
        /\ Conts(h) /\ Numbers(h) /\ Writers(h) /\ Readers(h)
  BY DEF Good
<1>1. /\ h.queue \in Seq(Cont) /\ Once(h.queue, Cont, Self)
      /\ Items(h.queue) = {k \in Cont : h.cont[k].stage = "scheduled"}
  BY <1>0, HeapParts DEF Queued
<1>2. /\ Tail(h.queue) \in Seq(Cont) /\ Once(Tail(h.queue), Cont, Self)
      /\ Items(h.queue) = {c} \cup Items(Tail(h.queue)) /\ c \notin Items(Tail(h.queue))
  <2>1. /\ Tail(h.queue) \in Seq(Cont) /\ Once(Tail(h.queue), Cont, Self)
        /\ c \in Cont => Self[c] \notin Keys(Tail(h.queue), Cont, Self)
    BY <1>1, OnceTail
  <2>2. /\ Items(h.queue) = {c} \cup Items(Tail(h.queue))
        /\ Ordered(h.queue, {}) => Ordered(Tail(h.queue), {}) /\ Apart({c}, Items(Tail(h.queue)), {})
    BY <1>1, OrderedTail
  <2>3. Keys(Tail(h.queue), Cont, Self) = {Self[x] : x \in Items(Tail(h.queue)) \cap Cont}
    BY KeysOfItems
  <2> QED BY <2>1, <2>2, <2>3 DEF Self
<1>3. h.cont[c].stage = "scheduled" /\ Waits(h, c)
  BY <1>1, <1>2 DEF Waits
<1>4. /\ n \in Channel /\ n # 0 /\ h.got[n] /\ h.cont[c].state \in Outcome
      /\ h.cont[c] \in ContRecord
  BY <1>0, <1>3, HeapFields, HeapParts DEF Numbers, Conts
<1>5. /\ g.cont = [h.cont EXCEPT ![c] = [h.cont[c] EXCEPT !.stage = "done", !.state = "invalid"]]
      /\ g.read = [h.read EXCEPT ![n] = h.cont[c].state] /\ g.queue = Tail(h.queue)
      /\ g.promise = h.promise /\ g.future = h.future /\ g.got = h.got /\ g.made = h.made
      /\ g.written = h.written
      /\ g = [h EXCEPT !.queue = g.queue, !.cont = g.cont, !.read = g.read]
  <2> DEFINE a == [h.cont[c] EXCEPT !.stage = "done"]
             b == [h.cont[c] EXCEPT !.stage = "done", !.state = "invalid"]
  <2>1. h.cont \in [Cont -> ContRecord]
    BY <1>0, HeapParts
  <2>2. [a EXCEPT !.state = "invalid"] = b
    OBVIOUS
  <2>3. /\ g.cont = [[h.cont EXCEPT ![c] = a] EXCEPT ![c] = [[h.cont EXCEPT ![c] = a][c] EXCEPT !.state = "invalid"]]
        /\ g.read = [h.read EXCEPT ![n] = h.cont[c].state] /\ g.queue = Tail(h.queue)
        /\ g.promise = h.promise /\ g.future = h.future /\ g.got = h.got /\ g.made = h.made
        /\ g.written = h.written
        /\ g = [h EXCEPT !.queue = g.queue, !.cont = g.cont, !.read = g.read]
    <3> HIDE DEF n
    <3> QED BY <1>0 DEF StartedIn, Heap, n
  <2> HIDE DEF a, b
  <2>4. g.cont = [h.cont EXCEPT ![c] = b]
    <3>1. [h.cont EXCEPT ![c] = a][c] = a
      BY <2>1
    <3>2. g.cont = [[h.cont EXCEPT ![c] = a] EXCEPT ![c] = b]
      BY <2>2, <2>3, <3>1
    <3> QED BY <2>1, <3>2
  <2> QED BY <2>3, <2>4 DEF b
<1> HIDE DEF g
<1>6. /\ g.cont[c].stage = "done" /\ g.cont[c].state = "invalid" /\ g.cont[c] \in ContRecord
      /\ \A k \in Cont : k # c => g.cont[k] = h.cont[k]
  <2>1. /\ g.cont[c] = [h.cont[c] EXCEPT !.stage = "done", !.state = "invalid"]
        /\ \A k \in Cont : k # c => g.cont[k] = h.cont[k]
    BY <1>0, <1>5, HeapParts
  <2> HIDE DEF n
  <2> QED BY <1>4, <2>1 DEF ContRecord, State
<1> HIDE DEF n
<1>7. g \in Heap
  <2>1. g.cont \in [Cont -> ContRecord] /\ g.read \in [Channel -> Result]
    BY <1>0, <1>4, <1>5, <1>6, HeapParts DEF Outcome, Result
  <2> QED BY <1>0, <1>2, <1>5, <2>1 DEF Heap
<1>8. \A m \in Channel : m # n => g.read[m] = h.read[m]
  BY <1>0, <1>4, <1>5, HeapParts
<1>9. /\ \A k \in Cont : Waits(g, k) <=> Waits(h, k) /\ k # c
      /\ \A k \in Cont : Waits(g, k) => h.cont[k].channel # n
      /\ \A f \in Future : h.future[f].channel # n
  <2>1. \A k \in Cont : Waits(g, k) <=> Waits(h, k) /\ k # c
    BY <1>6 DEF Waits
  <2> QED BY <1>0, <1>3, <2>1 DEF Readers, OneReader, n
<1>10. Blank(g)
  <2>1. \A k \in Cont : g.cont[k].stage = "none" => k # c
    BY <1>6
  <2> QED BY <1>0, <1>5, <1>6, <2>1 DEF Blank
<1>11. Links(g)
  BY <1>0, <1>5 DEF Links
<1>12. Tasks(g)
  <2>1. \A p \in Writer : h.promise[p].task # c /\ h.promise[p].task \in Cont \cup {Null}
    BY <1>0, <1>3, HeapFields, FuturesAssumption DEF Tasks
  <2>2. \A k \in Cont : g.cont[k].stage = "attached" => h.cont[k].stage = "attached"
    BY <1>6
  <2>3. \A p \in Writer : h.promise[p].task # Null => g.cont[h.promise[p].task] = h.cont[h.promise[p].task]
    BY <1>6, <2>1
  <2>4. g.promise = h.promise /\ g.written = h.written
    BY <1>5
  <2> QED BY <1>0, <2>2, <2>3, <2>4, TasksStay
<1>13. Queued(g)
  <2>1. {k \in Cont : g.cont[k].stage = "scheduled"} = Items(Tail(h.queue))
    BY <1>1, <1>2, <1>6
  <2> QED BY <1>2, <1>5, <2>1 DEF Queued
<1>14. Conts(g)
  BY <1>0, <1>5, <1>6, <1>9 DEF Conts
<1>15. Numbers(g)
  <2>1. \A f \in Future : h.future[f].channel # 0 => h.future[f].channel \in Channel
    BY <1>0, HeapFields
  <2>2. \A k \in Cont : h.cont[k].channel # 0 => h.cont[k].channel \in Channel
    BY <1>0, HeapFields
  <2>3. \A k \in Cont : Waits(g, k) => Waits(h, k) /\ g.cont[k] = h.cont[k]
    BY <1>6, <1>9
  <2>4. \A m \in Channel : ~g.got[m] => g.read[m] = "none"
    BY <1>0, <1>4, <1>5, <1>8 DEF Numbers
  <2>5. \A e \in Future : g.future[e].channel # 0 =>
          g.got[g.future[e].channel] /\ g.read[g.future[e].channel] = "none"
    BY <1>0, <1>5, <1>8, <1>9, <2>1 DEF Numbers
  <2>6. \A k \in Cont : Waits(g, k) =>
          g.cont[k].channel # 0 /\ g.got[g.cont[k].channel] /\ g.read[g.cont[k].channel] = "none"
    BY <1>0, <1>5, <1>8, <1>9, <2>2, <2>3 DEF Numbers
  <2>7. \A p \in Writer : h.promise[p].channel <= h.made
    BY <1>0 DEF Numbers
  <2>8. g.made = h.made /\ g.got = h.got /\ g.written = h.written /\ g.promise = h.promise
    BY <1>5
  <2> QED BY <1>0, <2>4, <2>5, <2>6, <2>7, <2>8, NumbersStay
<1>16. Writers(g)
  <2>1. OneWriter(g)
    BY <1>0, <1>5 DEF Writers, OneWriter
  <2>2. \A p \in Writer : WriterHolds(g, p)
    <3>1. \A p \in Writer : WriterHolds(h, p)
      BY <1>0 DEF Writers
    <3>2. g.promise = h.promise /\ g.written = h.written /\ g.got = h.got
      BY <1>5
    <3> QED BY <3>1, <3>2, HolderStays
  <2> QED BY <2>1, <2>2 DEF Writers
<1>17. Readers(g)
  <2>1. \A k \in Cont : Waits(g, k) => Waits(h, k) /\ g.cont[k] = h.cont[k]
    BY <1>6, <1>9
  <2>2. OneReader(g)
    BY <1>0, <1>5, <2>1 DEF Readers, OneReader
  <2>3. \A f \in Future : ReaderReaches(g, f)
    <3>1. \A f \in Future : ReaderReaches(h, f)
      BY <1>0 DEF Readers
    <3>2. g.future = h.future /\ g.promise = h.promise /\ g.written = h.written
      BY <1>5
    <3> QED BY <3>1, <3>2 DEF ReaderReaches
  <2>4. Taken(g)
    <3>1. \A k \in Cont : g.cont[k].stage = "scheduled" => k # c
      BY <1>6
    <3> QED BY <1>0, <1>5, <1>6, <3>1 DEF Readers, Taken
  <2> QED BY <2>2, <2>3, <2>4 DEF Readers
<1>18. Open(g, c)
  BY <1>0, <1>3, <1>5, <1>9 DEF Conts, Open
<1>19. Reads(h, g)
  <2>1. ReadsOne(h, g, n)
    <3>1. h.cont[c].state = h.written[n] /\ h.read[n] = "none"
      BY <1>0, <1>3 DEF Conts, Numbers, n
    <3>2. g.read[n] = h.cont[c].state
      BY <1>0, <1>4, <1>5, HeapParts
    <3> QED BY <1>4, <3>1, <3>2 DEF ReadsOne, Outcome
  <2>2. \A k \in Cont : Waits(h, k) =>
          \/ Waits(g, k) /\ g.cont[k].channel = h.cont[k].channel
          \/ ReadsOne(h, g, h.cont[k].channel)
    BY <1>6, <1>9, <2>1 DEF n
  <2> QED BY <1>5, <1>8, <2>1, <2>2 DEF Reads
<1> QED BY <1>3, <1>6, <1>7, <1>10, <1>11, <1>12, <1>13, <1>14, <1>15, <1>16, <1>17, <1>18, <1>19
        DEF Good, g

LEMMA SettledFacts ==
  ASSUME NEW h, Good(h), NEW p \in Writer, Settled(h, p)
  PROVE  /\ h.promise[p].task = Null
         /\ h.promise[p].future # Null =>
              /\ h.promise[p].state = "local" /\ StateAt(h, p) = h.promise[p].local
              /\ h.promise[p].local # "future"
<1>1. h \in Heap /\ Links(h) /\ Tasks(h) /\ Conts(h)
  BY DEF Good
<1>2. h.promise[p].task = Null
  <2> SUFFICES ASSUME h.promise[p].task # Null PROVE FALSE
    OBVIOUS
  <2>1. /\ h.promise[p].state = "task" /\ h.promise[p].task \in Cont
        /\ h.cont[h.promise[p].task].stage = "attached"
    BY <1>1, HeapFields DEF Tasks
  <2>2. StateAt(h, p) = "future"
    BY <1>1, <2>1 DEF StateAt, Conts
  <2> QED BY <2>2 DEF Settled
<1>3. h.promise[p].future # Null => h.promise[p].state = "local"
  BY <1>1 DEF Links
<1> QED BY <1>2, <1>3 DEF StateAt, Settled

LEMMA AbandonedKeeps ==
  ASSUME NEW h, Good(h), NEW p \in Writer, Settled(h, p)
  PROVE  /\ Good(Abandoned(h, p)) /\ Abandoned(h, p).promise[p] = NoPromise
         /\ \A q \in Writer : q # p => Abandoned(h, p).promise[q] = h.promise[q]
         /\ Abandoned(h, p).cont = h.cont /\ Abandoned(h, p).written = h.written
         /\ Abandoned(h, p).read = h.read
<1> DEFINE g == Abandoned(h, p)
           f == h.promise[p].future
<1>0. h \in Heap /\ Blank(h) /\ Links(h) /\ Tasks(h) /\ Queued(h)
        /\ Conts(h) /\ Numbers(h) /\ Writers(h) /\ Readers(h)
  BY DEF Good
<1>1. /\ f \in Future \cup {Null} /\ h.promise[p].task = Null
      /\ f # Null => h.promise[p].local # "future" /\ StateAt(h, p) = h.promise[p].local
      /\ h.promise[p].local \in State /\ p # Null
  BY <1>0, SettledFacts, HeapFields, FuturesAssumption DEF Writer
<1>2. /\ g.promise = [h.promise EXCEPT ![p] = NoPromise]
      /\ g.future = IF f = Null THEN h.future
                    ELSE [h.future EXCEPT ![f] = [h.future[f] EXCEPT !.local = h.promise[p].local,
                                                                     !.promise = Null]]
      /\ g.cont = h.cont /\ g.queue = h.queue /\ g.made = h.made /\ g.got = h.got
      /\ g.written = h.written /\ g.read = h.read
      /\ g = [h EXCEPT !.promise = g.promise, !.future = g.future]
  <2> DEFINE freed == [h EXCEPT !.promise[p] = NoPromise]
  <2>1. CASE f = Null
    <3>1. g = freed
      BY <2>1 DEF Abandoned
    <3> QED BY <1>0, <2>1, <3>1 DEF Heap
  <2>2. CASE f # Null
    <3> DEFINE s == h.promise[p].local
    <3>1. g = [freed EXCEPT !.future[f].local = s, !.future[f].promise = Null]
      BY <1>1, <2>2 DEF Abandoned
    <3>2. h.future[f] \in FutureRecord /\ h.future \in [Future -> FutureRecord]
      BY <1>0, <1>1, <2>2, HeapParts
    <3> DEFINE b == [h.future[f] EXCEPT !.local = s, !.promise = Null]
    <3>3. /\ freed.promise = [h.promise EXCEPT ![p] = NoPromise] /\ freed.future = h.future
          /\ freed.cont = h.cont /\ freed.queue = h.queue /\ freed.made = h.made /\ freed.got = h.got
          /\ freed.written = h.written /\ freed.read = h.read
          /\ freed = [h EXCEPT !.promise = freed.promise] /\ freed \in Heap
      <4>1. NoPromise \in PromiseRecord
        BY FuturesAssumption DEF NoPromise, PromiseRecord, State
      <4>2. [h.promise EXCEPT ![p] = NoPromise] \in [Writer -> PromiseRecord]
        BY <1>0, <4>1, HeapParts
      <4> QED BY <1>0, <4>2 DEF Heap
    <3> DEFINE mid == [freed EXCEPT !.future[f].local = s]
    <3>4. g = [mid EXCEPT !.future[f].promise = Null]
      BY <3>1
    <3> HIDE DEF freed, f, s, g
    <3>5. /\ mid.future = [h.future EXCEPT ![f] = [h.future[f] EXCEPT !.local = s]]
          /\ mid.promise = freed.promise /\ mid.cont = h.cont /\ mid.queue = h.queue /\ mid.made = h.made
          /\ mid.got = h.got /\ mid.written = h.written /\ mid.read = h.read
          /\ mid = [h EXCEPT !.promise = mid.promise, !.future = mid.future]
      BY <1>0, <3>3 DEF Heap
    <3> HIDE DEF mid
    <3>6. /\ g.promise = freed.promise /\ g.cont = h.cont /\ g.queue = h.queue /\ g.made = h.made
          /\ g.got = h.got /\ g.written = h.written /\ g.read = h.read
          /\ g = [h EXCEPT !.promise = g.promise, !.future = g.future]
      BY <1>0, <3>4, <3>5 DEF Heap
    <3>7. g.future = [h.future EXCEPT ![f] = b]
      <4> DEFINE a == [h.future[f] EXCEPT !.local = s]
      <4>1. g.future = [mid.future EXCEPT ![f] = [mid.future[f] EXCEPT !.promise = Null]]
        BY <1>0, <3>4, <3>5 DEF Heap
      <4>2. mid.future[f] = a
        BY <1>1, <2>2, <3>2, <3>5
      <4>3. [mid.future[f] EXCEPT !.promise = Null] = b
        BY <1>1, <2>2, <3>2, <4>2 DEF FutureRecord
      <4> HIDE DEF a, b
      <4> QED BY <3>2, <3>5, <4>1, <4>3 DEF a
    <3> QED BY <2>2, <3>3, <3>6, <3>7 DEF s
  <2> QED BY <2>1, <2>2
<1> HIDE DEF g, f
<1>3. /\ g.promise[p] = NoPromise /\ \A q \in Writer : q # p => g.promise[q] = h.promise[q]
      /\ NoPromise \in PromiseRecord
      /\ NoPromise.future = Null /\ NoPromise.task = Null /\ NoPromise.channel = 0
      /\ NoPromise.state = Null /\ NoPromise.local = "invalid" /\ ~NoPromise.alive
  <2>1. /\ NoPromise \in PromiseRecord
        /\ NoPromise.future = Null /\ NoPromise.task = Null /\ NoPromise.channel = 0
        /\ NoPromise.state = Null /\ NoPromise.local = "invalid" /\ ~NoPromise.alive
    BY FuturesAssumption DEF NoPromise, PromiseRecord, State
  <2> QED BY <1>0, <1>2, <2>1, HeapParts
<1>4. ASSUME NEW e \in Future
      PROVE  /\ g.future[e] \in FutureRecord
             /\ h.future[e].promise # p => g.future[e] = h.future[e]
             /\ h.future[e].promise = p =>
                  /\ g.future[e].promise = Null /\ g.future[e].local = h.promise[p].local
                  /\ g.future[e].channel = h.future[e].channel /\ g.future[e].alive = h.future[e].alive
                  /\ h.promise[p].local # "future"
  <2>1. h.future[e].promise = p <=> e = f
    BY <1>0, <1>1, FuturesAssumption DEF Links, f
  <2>2. h.future[e] \in FutureRecord /\ h.future \in [Future -> FutureRecord]
    BY <1>0, HeapParts
  <2>3. CASE e = f
    <3>1. g.future[e] = [h.future[e] EXCEPT !.local = h.promise[p].local, !.promise = Null]
      BY <1>2, <2>2, <2>3, FuturesAssumption
    <3> QED BY <1>1, <2>1, <2>2, <2>3, <3>1, FuturesAssumption DEF FutureRecord
  <2>4. CASE e # f
    BY <1>1, <1>2, <2>1, <2>2, <2>4
  <2> QED BY <2>3, <2>4
<1>5. g \in Heap
  <2>1. /\ g.promise \in [Writer -> PromiseRecord] /\ g.future \in [Future -> FutureRecord]
    <3>1. g.promise \in [Writer -> PromiseRecord]
      BY <1>0, <1>2, <1>3, HeapParts
    <3>2. DOMAIN g.future = Future /\ g.future = [e \in Future |-> g.future[e]]
      BY <1>0, <1>2, HeapParts
    <3> QED BY <1>4, <3>1, <3>2
  <2> QED BY <1>0, <1>2, <2>1 DEF Heap
<1>6. /\ \A e \in Future : g.future[e].channel = h.future[e].channel /\ g.future[e].alive = h.future[e].alive
      /\ \A k \in Cont : Waits(g, k) <=> Waits(h, k)
  BY <1>2, <1>4 DEF Waits
<1>7. Blank(g)
  <2>1. \A e \in Future : ~g.future[e].alive => h.future[e].promise # p
    BY <1>0, <1>1, <1>6 DEF Links
  <2> QED BY <1>0, <1>2, <1>3, <1>4, <1>6, <2>1 DEF Blank, Writer
<1>8. Links(g)
  <2>1. \A q \in Writer, e \in Future : g.promise[q].future = e <=> g.future[e].promise = q
    BY <1>0, <1>1, <1>3, <1>4, FuturesAssumption DEF Links, Writer
  <2>2. \A e \in Future : g.future[e].promise # Null => g.future[e] = h.future[e]
    BY <1>4
  <2>3. \A q \in Writer : g.promise[q].future # Null =>
       g.promise[q].state = "local" /\ g.promise[q].channel # 0
    BY <1>0, <1>3 DEF Links
  <2> QED BY <1>0, <2>1, <2>2, <2>3 DEF Links
<1>9. Tasks(g)
  <2>1. \A q \in Writer : g.promise[q].task # Null => q # p /\ g.promise[q] = h.promise[q]
    BY <1>3
  <2>2. \A q \in Writer : g.promise[q].state = "task" <=> g.promise[q].task # Null
    BY <1>0, <1>3, FuturesAssumption DEF Tasks
  <2>3. \A k \in Cont : h.cont[k].stage = "attached" => \E q \in Writer : g.promise[q].task = k
    <3> SUFFICES ASSUME NEW k \in Cont, h.cont[k].stage = "attached" PROVE \E q \in Writer : g.promise[q].task = k
      OBVIOUS
    <3>1. PICK q \in Writer : h.promise[q].task = k
      BY <1>0 DEF Tasks
    <3>2. q # p
      BY <1>1, <3>1, FuturesAssumption
    <3> QED BY <1>3, <3>1, <3>2
  <2>4. \A q \in Writer : g.promise[q].task # Null =>
          LET k == g.promise[q].task
          IN  /\ h.cont[k].stage = "attached" /\ h.cont[k].channel = g.promise[q].channel
              /\ g.promise[q].channel # 0 /\ g.promise[q].local = "future"
              /\ h.written[g.promise[q].channel] = "none"
    BY <1>0, <2>1 DEF Tasks
  <2>5. \A q, r \in Writer : g.promise[q].task # Null /\ g.promise[q].task = g.promise[r].task => q = r
    BY <1>0, <2>1 DEF Tasks
  <2>6. g.cont = h.cont /\ g.written = h.written
    BY <1>2
  <2> QED BY <2>2, <2>3, <2>4, <2>5, <2>6 DEF Tasks
<1>10. Queued(g)
  BY <1>0, <1>2 DEF Queued
<1>11. Conts(g)
  <2>1. \A k \in Cont : Waits(h, k) => k # p
    BY DEF Settled
  <2> QED BY <1>0, <1>2, <1>3, <1>6, <2>1 DEF Conts, Writer
<1>12. Numbers(g)
  <2>1. 0 <= h.made
    BY <1>0, HeapFields
  <2>2. \A q \in Writer : g.promise[q].channel <= g.made
    BY <1>0, <1>2, <1>3, <2>1 DEF Numbers
  <2>3. \A e \in Future : g.future[e].channel = h.future[e].channel
    BY <1>6
  <2>4. \A e \in Future : g.future[e].channel # 0 =>
          g.got[g.future[e].channel] /\ g.read[g.future[e].channel] = "none"
    BY <1>0, <1>2, <2>3 DEF Numbers
  <2>5. \A k \in Cont : Waits(g, k) =>
          g.cont[k].channel # 0 /\ g.got[g.cont[k].channel] /\ g.read[g.cont[k].channel] = "none"
    BY <1>0, <1>2, <1>6 DEF Numbers
  <2>6. g.made = h.made /\ g.got = h.got /\ g.written = h.written /\ g.read = h.read
    BY <1>2
  <2>7. \A n \in Channel : ~h.got[n] => h.read[n] = "none"
    BY <1>0 DEF Numbers
  <2> QED BY <1>0, <2>2, <2>4, <2>5, <2>6, <2>7, NumbersStay
<1>13. Writers(g)
  <2>1. OneWriter(g)
    BY <1>0, <1>3 DEF Writers, OneWriter
  <2>2. WriterHolds(g, p)
    BY <1>3 DEF WriterHolds, Available
  <2>3. \A q \in Writer : q # p => WriterHolds(g, q)
    <3>1. \A q \in Writer : WriterHolds(h, q)
      BY <1>0 DEF Writers
    <3>2. g.got = h.got /\ g.written = h.written
      BY <1>2
    <3> QED BY <1>3, <3>1, <3>2, HolderStays
  <2> QED BY <2>1, <2>2, <2>3 DEF Writers
<1>14. Readers(g)
  <2>1. OneReader(g)
    BY <1>0, <1>2, <1>6 DEF Readers, OneReader
  <2>2. ASSUME NEW e \in Future, h.future[e].channel # 0 PROVE ReaderReaches(g, e)
    <3> DEFINE n == h.future[e].channel
    <3>1. ReaderReaches(h, e) /\ h.future[e].promise \in Writer \cup {Null} /\ n \in Channel
      BY <1>0, <2>2, HeapFields DEF Readers
    <3>2. CASE h.future[e].promise = p
      <4>1. h.promise[p].channel = n /\ (h.written[n] # "none" => h.promise[p].local = h.written[n])
        BY <1>1, <2>2, <3>1, <3>2 DEF ReaderReaches
      <4>2. h.written[n] # "none" /\ h.written[n] \in Outcome
        <5>1. h.written[n] # "none"
          BY <1>0, <1>4, <2>2, <3>2, <4>1 DEF Writers, WriterHolds
        <5>2. h.written[n] \in Result
          BY <1>0, <3>1, HeapParts
        <5> QED BY <5>1, <5>2 DEF Result, Outcome
      <4>3. \A q \in Writer : q # p => h.promise[q].channel # n
        BY <1>0, <2>2, <4>1 DEF Writers, OneWriter
      <4>4. \A q \in Writer : g.promise[q].channel # n
        BY <1>3, <2>2, <4>3
      <4>5. /\ g.future[e].channel = n /\ g.future[e].promise = Null
            /\ g.future[e].local = h.promise[p].local
        BY <1>1, <1>4, <1>6, <3>2
      <4>6. g.written = h.written /\ h.promise[p].local = h.written[n]
        BY <1>2, <4>1, <4>2
      <4> HIDE DEF n
      <4> QED BY <4>2, <4>4, <4>5, <4>6 DEF ReaderReaches
    <3>3. CASE h.future[e].promise = Null
      <4>1. \A q \in Writer : h.promise[q].channel # n
        BY <2>2, <3>1, <3>3 DEF ReaderReaches
      <4>2. \A q \in Writer : g.promise[q].channel # n
        BY <1>3, <2>2, <4>1
      <4> QED BY <1>1, <1>2, <1>4, <2>2, <3>1, <3>3, <4>2 DEF ReaderReaches
    <3>4. CASE h.future[e].promise # p /\ h.future[e].promise # Null
      <4>1. g.future[e] = h.future[e]
        BY <1>4, <3>4
      <4>2. g.promise[h.future[e].promise] = h.promise[h.future[e].promise]
        BY <1>3, <3>1, <3>4
      <4> QED BY <1>2, <3>1, <3>4, <4>1, <4>2, ReachStays
    <3> QED BY <3>2, <3>3, <3>4
  <2>3. \A e \in Future : h.future[e].channel = 0 => ReaderReaches(g, e)
    BY <1>6 DEF ReaderReaches
  <2>4. Taken(g)
    BY <1>0, <1>2, <1>3 DEF Readers, Taken, Available
  <2> QED BY <2>1, <2>2, <2>3, <2>4 DEF Readers
<1> QED BY <1>2, <1>3, <1>5, <1>7, <1>8, <1>9, <1>10, <1>11, <1>12, <1>13, <1>14 DEF Good, g

\* A promise, and where it is moved to: a place that has no future and no task.
Movable(h, p, q) ==
  /\ p # q /\ h.promise[p].channel # 0
  /\ h.promise[q].future = Null /\ h.promise[q].task = Null
  /\ p \in Cont => ~Waits(h, p)
  /\ q \in Cont => h.cont[q].stage # "none" /\ (Waits(h, q) => h.written[h.promise[p].channel] = "none")

LEMMA MovedKeeps ==
  ASSUME NEW h, Good(h), NEW p \in Writer, NEW q \in Writer, Movable(h, p, q)
  PROVE  /\ Good(Moved(h, p, q))
         /\ Moved(h, p, q).promise[p].future = Null /\ Moved(h, p, q).promise[p].task = Null
         /\ Moved(h, p, q).cont = h.cont /\ Moved(h, p, q).written = h.written
         /\ Moved(h, p, q).read = h.read /\ Moved(h, p, q).queue = h.queue
         /\ \A e \in Future : Moved(h, p, q).future[e].channel = h.future[e].channel
                                /\ Moved(h, p, q).future[e].alive = h.future[e].alive
<1> DEFINE g == Moved(h, p, q)
           old == h.promise[p]
           f == old.future
           n == old.channel
<1>0. h \in Heap /\ Blank(h) /\ Links(h) /\ Tasks(h) /\ Queued(h)
        /\ Conts(h) /\ Numbers(h) /\ Writers(h) /\ Readers(h)
  BY DEF Good
<1>1. /\ f \in Future \cup {Null} /\ n \in Channel /\ n # 0 /\ p # q /\ p # Null /\ q # Null
      /\ h.promise[q].future = Null /\ h.promise[q].task = Null
      /\ old \in PromiseRecord /\ old.alive
  <2>1. old.alive
    BY <1>0 DEF Movable, Blank, NoPromise
  <2> QED BY <1>0, <2>1, HeapFields, HeapParts, FuturesAssumption DEF Movable, Writer
<1>2. /\ g.promise = [[h.promise EXCEPT ![q] = MovedTo(old)] EXCEPT ![p] = MovedFrom(old)]
      /\ g.future = IF f = Null THEN h.future
                    ELSE [h.future EXCEPT ![f] = [h.future[f] EXCEPT !.promise = q]]
      /\ g.cont = h.cont /\ g.queue = h.queue /\ g.made = h.made /\ g.got = h.got
      /\ g.written = h.written /\ g.read = h.read
      /\ g = [h EXCEPT !.promise = g.promise, !.future = g.future]
  <2> DEFINE moved == NotMigrated(h, p, q)
             a == MovedTo(old)
             b == MovedFrom(old)
  <2>1. moved = [h EXCEPT !.promise[q] = a, !.promise[p] = b]
    BY DEF NotMigrated
  <2>2. CASE f = Null
    <3>1. g = moved
      BY <2>2 DEF Moved
    <3> HIDE DEF moved, a, b, f
    <3> QED BY <1>0, <2>1, <2>2, <3>1 DEF Heap, a, b
  <2>3. CASE f # Null
    <3>1. g = [moved EXCEPT !.future[f].promise = q]
      BY <2>3 DEF Moved
    <3> HIDE DEF moved, a, b, f
    <3> QED BY <1>0, <2>1, <2>3, <3>1 DEF Heap, a, b
  <2> QED BY <2>2, <2>3
<1> HIDE DEF g
<1>3. /\ g.promise[q] = MovedTo(old) /\ g.promise[p] = MovedFrom(old)
      /\ \A r \in Writer : r # p /\ r # q => g.promise[r] = h.promise[r]
      /\ DOMAIN g.promise = Writer
  BY <1>0, <1>1, <1>2, HeapParts
<1>4. /\ MovedTo(old) \in PromiseRecord /\ MovedFrom(old) \in PromiseRecord
      /\ g.promise[q].alive /\ g.promise[q].future = f /\ g.promise[q].state = old.state
      /\ g.promise[q].task = old.task /\ g.promise[q].channel = n
      /\ g.promise[q].local = IF old.state = "local" THEN old.local ELSE "future"
      /\ g.promise[p].alive /\ g.promise[p].future = Null /\ g.promise[p].state = Null
      /\ g.promise[p].task = Null /\ g.promise[p].channel = 0
      /\ g.promise[p].local = IF old.state = "local" THEN "invalid" ELSE old.local
  <2> HIDE DEF old
  <2>1. MovedTo(old) = [old EXCEPT !.local = IF old.state = "local" THEN old.local ELSE "future"]
    BY DEF MovedTo
  <2>2. MovedFrom(old) =
          [old EXCEPT !.future = Null, !.state = Null, !.task = Null, !.channel = 0,
                      !.local = IF old.state = "local" THEN "invalid" ELSE old.local]
    BY DEF MovedFrom
  <2>3. 0 \in 0 .. Channels /\ {"invalid", "future"} \subseteq State
    BY FuturesAssumption DEF State
  <2>4. /\ MovedTo(old) \in PromiseRecord
        /\ g.promise[q].alive /\ g.promise[q].future = f /\ g.promise[q].state = old.state
        /\ g.promise[q].task = old.task /\ g.promise[q].channel = n
        /\ g.promise[q].local = IF old.state = "local" THEN old.local ELSE "future"
    BY <1>1, <1>3, <2>1, <2>3 DEF PromiseRecord
  <2>5. g.promise[p] =
          [old EXCEPT !.future = Null, !.state = Null, !.task = Null, !.channel = 0,
                      !.local = IF old.state = "local" THEN "invalid" ELSE old.local]
    BY <1>3, <2>2
  <2>6. /\ g.promise[p].alive = old.alive /\ g.promise[p].future = Null
        /\ g.promise[p].state = Null /\ g.promise[p].task = Null /\ g.promise[p].channel = 0
        /\ g.promise[p].local = IF old.state = "local" THEN "invalid" ELSE old.local
    BY <1>1, <2>5 DEF PromiseRecord
  <2>7. old.local \in State
    BY <1>1 DEF PromiseRecord
  <2>8. (IF old.state = "local" THEN "invalid" ELSE old.local) \in State
    BY <2>3, <2>7
  <2>9. MovedFrom(old) \in PromiseRecord
    BY <1>1, <2>2, <2>3, <2>8 DEF PromiseRecord
  <2>10. /\ MovedFrom(old) \in PromiseRecord
        /\ g.promise[p].alive /\ g.promise[p].future = Null /\ g.promise[p].state = Null
        /\ g.promise[p].task = Null /\ g.promise[p].channel = 0
        /\ g.promise[p].local = IF old.state = "local" THEN "invalid" ELSE old.local
    BY <1>1, <2>6, <2>9
  <2> QED BY <2>4, <2>10
<1>5. ASSUME NEW e \in Future
      PROVE  /\ g.future[e] \in FutureRecord
             /\ h.future[e].promise # q
             /\ h.future[e].promise # p => g.future[e] = h.future[e]
             /\ h.future[e].promise = p => g.future[e].promise = q
             /\ g.future[e].local = h.future[e].local
             /\ g.future[e].channel = h.future[e].channel /\ g.future[e].alive = h.future[e].alive
  <2>1. (h.future[e].promise = p <=> e = f) /\ h.future[e].promise # q
    BY <1>0, <1>1, FuturesAssumption DEF Links
  <2>2. h.future[e] \in FutureRecord /\ h.future \in [Future -> FutureRecord]
    BY <1>0, HeapParts
  <2> HIDE DEF f, n, old
  <2>3. CASE e = f
    <3>1. g.future[e] = [h.future[e] EXCEPT !.promise = q]
      BY <1>2, <2>2, <2>3, FuturesAssumption
    <3> QED BY <2>1, <2>2, <2>3, <3>1 DEF FutureRecord
  <2>4. CASE e # f
    BY <1>1, <1>2, <2>1, <2>2, <2>4
  <2> QED BY <2>3, <2>4
<1>6. g \in Heap
  <2>1. g.promise \in [Writer -> PromiseRecord]
    <3>1. h.promise \in [Writer -> PromiseRecord]
      BY <1>0, HeapParts
    <3>2. g.promise = [r \in Writer |-> g.promise[r]]
      BY <1>2, <3>1
    <3>3. \A r \in Writer : g.promise[r] \in PromiseRecord
      BY <1>3, <1>4, <3>1
    <3> HIDE DEF g
    <3> QED BY <3>2, <3>3
  <2>2. g.future \in [Future -> FutureRecord]
    <3>1. g.future = [e \in Future |-> g.future[e]]
      BY <1>0, <1>2, HeapParts
    <3> QED BY <1>5, <3>1
  <2> QED BY <1>0, <1>2, <2>1, <2>2 DEF Heap
<1>7. /\ h.promise[p].channel = n /\ h.promise[p].state = old.state /\ h.promise[p].local = old.local
      /\ h.promise[p].task = old.task /\ h.promise[p].future = f /\ h.promise[p].alive
      /\ old.state \in {"local", "task", Null}
  BY <1>0, <1>1, HeapFields
<1> HIDE DEF old, f, n
<1>8. \A k \in Cont : Waits(g, k) <=> Waits(h, k)
  BY <1>2 DEF Waits
<1>9. Blank(g)
  <2>1. \A k \in Cont : h.cont[k].stage = "none" => k # p /\ k # q /\ k \in Writer
    BY <1>0, <1>7 DEF Blank, NoPromise, Movable, Writer
  <2>2. \A r \in Writer : ~g.promise[r].alive => r # p /\ r # q
    BY <1>4
  <2>3. \A e \in Future : ~g.future[e].alive => g.future[e] = h.future[e]
    BY <1>0, <1>1, <1>5 DEF Links
  <2> QED BY <1>0, <1>2, <1>3, <1>5, <2>1, <2>2, <2>3 DEF Blank
<1>10. Links(g)
  <2>1. \A r \in Writer, e \in Future : g.promise[r].future = e <=> g.future[e].promise = r
    <3> SUFFICES ASSUME NEW r \in Writer, NEW e \in Future
                 PROVE  g.promise[r].future = e <=> g.future[e].promise = r
      OBVIOUS
    <3>1. h.promise[r].future = e <=> h.future[e].promise = r
      BY <1>0 DEF Links
    <3>2. h.promise[p].future = e <=> h.future[e].promise = p
      BY <1>0 DEF Links
    <3> QED BY <1>1, <1>3, <1>4, <1>5, <1>7, <3>1, <3>2, FuturesAssumption
  <2>2. ASSUME NEW e \in Future, g.future[e].promise # Null PROVE h.future[e].promise # Null
    <3>1. CASE h.future[e].promise = p
      BY <1>1, <3>1
    <3>2. CASE h.future[e].promise # p
      BY <1>5, <2>2, <3>2
    <3> QED BY <3>1, <3>2
  <2>3. \A r \in Writer : g.promise[r].future # Null =>
       g.promise[r].state = "local" /\ g.promise[r].channel # 0
    BY <1>0, <1>1, <1>3, <1>4, <1>7 DEF Links
  <2> QED BY <1>0, <1>5, <2>1, <2>2, <2>3 DEF Links
<1>11. Tasks(g)
  <2>1. \A r \in Writer : g.promise[r].state = "task" <=> g.promise[r].task # Null
    BY <1>0, <1>3, <1>4, <1>7, FuturesAssumption DEF Tasks
  <2>2. ASSUME NEW r \in Writer, g.promise[r].task # Null
        PROVE  LET k == g.promise[r].task
               IN  /\ h.cont[k].stage = "attached" /\ h.cont[k].channel = g.promise[r].channel
                   /\ g.promise[r].channel # 0 /\ g.promise[r].local = "future"
                   /\ h.written[g.promise[r].channel] = "none"
    <3>1. CASE r = q
      <4>1. old.task # Null /\ h.promise[p].state = "task"
        BY <1>0, <1>4, <1>7, <2>2, <3>1 DEF Tasks
      <4>2. /\ h.cont[old.task].stage = "attached" /\ h.cont[old.task].channel = n
            /\ n # 0 /\ h.promise[p].local = "future" /\ h.written[n] = "none"
        BY <1>0, <1>7, <4>1 DEF Tasks
      <4> QED BY <1>4, <1>7, <3>1, <4>1, <4>2
    <3>2. CASE r # q
      <4>1. r # p /\ g.promise[r] = h.promise[r]
        BY <1>3, <1>4, <2>2, <3>2
      <4> QED BY <1>0, <2>2, <4>1 DEF Tasks
    <3> QED BY <3>1, <3>2
  <2>3. ASSUME NEW r \in Writer, NEW s \in Writer, g.promise[r].task # Null,
               g.promise[r].task = g.promise[s].task
        PROVE  r = s
    <3> DEFINE From(w) == IF w = q THEN p ELSE w
    <3>1. r # p /\ s # p
      BY <1>4, <2>3
    <3>2. /\ From(r) \in Writer /\ h.promise[From(r)].task = g.promise[r].task
          /\ From(s) \in Writer /\ h.promise[From(s)].task = g.promise[s].task
      BY <1>3, <1>4, <1>7, <3>1
    <3>3. From(r) = From(s)
      BY <1>0, <2>3, <3>2 DEF Tasks
    <3> QED BY <3>1, <3>3
  <2>4. ASSUME NEW k \in Cont, h.cont[k].stage = "attached"
        PROVE  \E r \in Writer : g.promise[r].task = k
    <3>1. PICK r \in Writer : h.promise[r].task = k
      BY <1>0, <2>4 DEF Tasks
    <3>2. r # q
      BY <1>1, <3>1, FuturesAssumption
    <3> QED BY <1>3, <1>4, <1>7, <3>1, <3>2
  <2>5. g.cont = h.cont /\ g.written = h.written
    BY <1>2
  <2> QED BY <2>1, <2>2, <2>3, <2>4, <2>5 DEF Tasks
<1>12. Queued(g)
  BY <1>0, <1>2 DEF Queued
<1>13. Conts(g)
  <2>1. \A k \in Cont : Waits(h, k) => k # p /\ k \in Writer /\ (k = q => h.written[n] = "none")
    BY <1>7 DEF Movable, Writer
  <2> QED BY <1>0, <1>1, <1>2, <1>3, <1>4, <1>8, <2>1 DEF Conts
<1>14. Numbers(g)
  <2>1. \A r \in Writer : g.promise[r].channel <= h.made
    <3>1. 0 <= h.made /\ n <= h.made
      BY <1>0, <1>7, HeapFields DEF Numbers
    <3> QED BY <1>0, <1>3, <1>4, <3>1 DEF Numbers
  <2>2. \A e \in Future : g.future[e].channel # 0 =>
          g.got[g.future[e].channel] /\ g.read[g.future[e].channel] = "none"
    BY <1>0, <1>2, <1>5 DEF Numbers
  <2>3. \A k \in Cont : Waits(g, k) =>
          g.cont[k].channel # 0 /\ g.got[g.cont[k].channel] /\ g.read[g.cont[k].channel] = "none"
    BY <1>0, <1>2, <1>8 DEF Numbers
  <2>4. g.made = h.made /\ g.got = h.got /\ g.written = h.written /\ g.read = h.read
    BY <1>2
  <2>5. \A m \in Channel : ~h.got[m] => h.read[m] = "none"
    BY <1>0 DEF Numbers
  <2> QED BY <1>0, <2>1, <2>2, <2>3, <2>4, <2>5, NumbersStay
<1>15. Writers(g)
  <2>1. OneWriter(g)
    BY <1>0, <1>3, <1>4, <1>7 DEF Writers, OneWriter
  <2>2. WriterHolds(h, p) /\ (old.task # Null => old.local = "future")
    BY <1>0, <1>7 DEF Writers, Tasks
  <2>3. h.promise[p].state = "task" => h.promise[p].local = "future"
    BY <1>0 DEF Tasks
  <2>4. WriterHolds(g, q)
    BY <1>2, <1>4, <1>7, <2>2, <2>3, FuturesAssumption DEF WriterHolds, Available
  <2>5. WriterHolds(g, p)
    BY <1>2, <1>4, <1>7, <2>2, <2>3 DEF WriterHolds, Available
  <2>6. \A r \in Writer : r # p /\ r # q => WriterHolds(g, r)
    BY <1>0, <1>2, <1>3 DEF Writers, WriterHolds
  <2> QED BY <2>1, <2>4, <2>5, <2>6 DEF Writers
<1>16. Readers(g)
  <2>1. OneReader(g)
    BY <1>0, <1>2, <1>5, <1>8 DEF Readers, OneReader
  <2>2. ASSUME NEW e \in Future, h.future[e].channel # 0 PROVE ReaderReaches(g, e)
    <3> DEFINE m == h.future[e].channel
    <3>1. ReaderReaches(h, e) /\ h.future[e].promise \in Writer \cup {Null}
      BY <1>0, HeapFields DEF Readers
    <3>2. CASE h.future[e].promise = p
      <4>1. h.promise[p].channel = m /\ (h.written[m] # "none" => h.promise[p].local = h.written[m])
        BY <1>1, <2>2, <3>1, <3>2 DEF ReaderReaches
      <4>2. h.promise[p].state = "local"
        BY <1>0, <3>2, FuturesAssumption DEF Links
      <4>3. g.future[e].promise = q /\ g.future[e].channel = m /\ q # Null
        BY <1>1, <1>5, <3>2
      <4>4. /\ g.written = h.written /\ g.promise[q].channel = m
            /\ h.written[m] # "none" => g.promise[q].local = h.written[m]
        BY <1>2, <1>4, <1>7, <4>1, <4>2
      <4> HIDE DEF m
      <4> QED BY <4>3, <4>4 DEF ReaderReaches
    <3>3. CASE h.future[e].promise = Null
      <4>1. \A r \in Writer : h.promise[r].channel # m
        BY <2>2, <3>1, <3>3 DEF ReaderReaches
      <4>2. \A r \in Writer : g.promise[r].channel # m
        BY <1>3, <1>4, <1>7, <2>2, <4>1
      <4>3. g.future[e] = h.future[e] /\ g.written = h.written
        BY <1>1, <1>2, <1>5, <3>3
      <4>4. h.future[e].local \in Outcome /\ h.future[e].local = h.written[m]
        BY <2>2, <3>1, <3>3 DEF ReaderReaches
      <4> QED BY <3>3, <4>2, <4>3, <4>4 DEF ReaderReaches
    <3>4. CASE h.future[e].promise # p /\ h.future[e].promise # Null
      <4>1. h.future[e].promise # q
        BY <1>0, <1>1, FuturesAssumption DEF Links
      <4>2. /\ g.promise[h.future[e].promise] = h.promise[h.future[e].promise]
            /\ g.written = h.written /\ g.future[e] = h.future[e]
        BY <1>2, <1>3, <1>5, <3>1, <3>4, <4>1
      <4> QED BY <3>1, <3>4, <4>2, ReachStays
    <3> QED BY <3>2, <3>3, <3>4
  <2>3. \A e \in Future : h.future[e].channel = 0 => ReaderReaches(g, e)
    BY <1>5 DEF ReaderReaches
  <2>4. Taken(g)
    <3> SUFFICES ASSUME NEW k \in Cont, NEW r \in Writer, g.cont[k].stage = "scheduled",
                        g.promise[r].channel = g.cont[k].channel
                 PROVE  ~Available(g.promise[r].local)
      BY DEF Taken
    <3>1. g.cont[k].channel # 0
      BY <1>0, <1>2 DEF Numbers, Waits
    <3>2. CASE r = q
      <4>1. ~Available(h.promise[p].local)
        BY <1>0, <1>2, <1>4, <1>7, <3>2 DEF Readers, Taken
      <4> QED BY <1>4, <1>7, <3>2, <4>1 DEF Available
    <3>3. CASE r # q
      BY <1>0, <1>2, <1>3, <1>4, <3>1, <3>3 DEF Readers, Taken
    <3> QED BY <3>2, <3>3
  <2> QED BY <2>1, <2>2, <2>3, <2>4 DEF Readers
<1> QED BY <1>2, <1>4, <1>5, <1>6, <1>9, <1>10, <1>11, <1>12, <1>13, <1>14, <1>15, <1>16 DEF Good, g

\* A future is done with: its result was taken or dropped, or its promise is
\* somebody else's now; it may stay linked.
LetGo(h, g, f) ==
  LET p == h.future[f].promise
  IN  /\ g.cont = h.cont /\ g.queue = h.queue /\ g.made = h.made
      /\ g.got = h.got /\ g.written = h.written
      /\ \A n \in Channel : n # h.future[f].channel => g.read[n] = h.read[n]
      /\ \A e \in Future : e # f => g.future[e] = h.future[e]
      /\ g.future[f].channel = 0
      /\ ~g.future[f].alive => g.future[f] = NoFuture
      /\ g.future[f].promise # Null =>
           g.future[f].alive /\ g.future[f].local = "future" /\ g.future[f].promise = p
      /\ \A q \in Writer : q # p => g.promise[q] = h.promise[q]
      /\ p # Null =>
           /\ g.promise[p].alive = h.promise[p].alive /\ g.promise[p].state = h.promise[p].state
           /\ g.promise[p].task = h.promise[p].task /\ g.promise[p].channel = h.promise[p].channel
           /\ g.promise[p].future = IF g.future[f].promise = p THEN f ELSE Null
           /\ \/ g.promise[p].local = h.promise[p].local
              \/ g.promise[p].local = "invalid" /\ Available(h.promise[p].local)

LEMMA LetGoKeeps ==
  ASSUME NEW h, Good(h), NEW g \in Heap, NEW f \in Future, LetGo(h, g, f)
  PROVE  Good(g)
<1> DEFINE p == h.future[f].promise
           n == h.future[f].channel
<1>0. h \in Heap /\ Blank(h) /\ Links(h) /\ Tasks(h) /\ Queued(h)
        /\ Conts(h) /\ Numbers(h) /\ Writers(h) /\ Readers(h)
  BY DEF Good
<1>1. /\ p \in Writer \cup {Null} /\ f # Null /\ (p # Null => h.promise[p].future = f)
      /\ \A q \in Writer : q # Null /\ (q # p => h.promise[q].future # f)
  BY <1>0, HeapFields, FuturesAssumption DEF Links, Writer
<1>2. /\ g.cont = h.cont /\ g.queue = h.queue /\ g.made = h.made
      /\ g.got = h.got /\ g.written = h.written
      /\ \A m \in Channel : m # n => g.read[m] = h.read[m]
      /\ \A e \in Future : e # f => g.future[e] = h.future[e]
      /\ g.future[f].channel = 0
      /\ ~g.future[f].alive => g.future[f] = NoFuture
      /\ g.future[f].promise # Null =>
           g.future[f].alive /\ g.future[f].local = "future" /\ g.future[f].promise = p
      /\ \A q \in Writer : q # p => g.promise[q] = h.promise[q]
  BY DEF LetGo
<1>3. ASSUME p # Null
      PROVE  /\ p \in Writer
             /\ g.promise[p].alive = h.promise[p].alive /\ g.promise[p].state = h.promise[p].state
             /\ g.promise[p].task = h.promise[p].task /\ g.promise[p].channel = h.promise[p].channel
             /\ g.promise[p].future = IF g.future[f].promise = p THEN f ELSE Null
             /\ \/ g.promise[p].local = h.promise[p].local
                \/ g.promise[p].local = "invalid" /\ Available(h.promise[p].local)
             /\ h.promise[p].alive /\ h.promise[p] # NoPromise
  <2>1. h.promise[p].alive /\ h.promise[p] # NoPromise
    BY <1>0, <1>1, <1>3 DEF Blank, NoPromise
  <2> QED BY <1>1, <1>3, <2>1 DEF LetGo
<1> HIDE DEF n, p
<1>4. /\ \A q \in Writer : g.promise[q].alive = h.promise[q].alive /\ g.promise[q].state = h.promise[q].state
           /\ g.promise[q].task = h.promise[q].task /\ g.promise[q].channel = h.promise[q].channel
      /\ \A k \in Cont : Waits(g, k) <=> Waits(h, k)
  BY <1>1, <1>2, <1>3 DEF Waits
<1>5. \A q \in Writer : \/ g.promise[q].local = h.promise[q].local
                        \/ g.promise[q].local = "invalid" /\ Available(h.promise[q].local)
  BY <1>1, <1>2, <1>3
<1>6. Blank(g)
  <2>1. \A q \in Writer : h.promise[q] = NoPromise => g.promise[q] = h.promise[q]
    BY <1>1, <1>2, <1>3
  <2> QED BY <1>0, <1>2, <1>4, <2>1 DEF Blank, Writer
<1>7. Links(g)
  <2>1. ASSUME NEW q \in Writer, NEW e \in Future
        PROVE  g.promise[q].future = e <=> g.future[e].promise = q
    <3>1. (h.promise[q].future = e <=> h.future[e].promise = q) /\ e # Null /\ q # Null
      BY <1>0, FuturesAssumption DEF Links, Writer
    <3>2. CASE e = f /\ q = p
      BY <1>2, <1>3, <3>1, <3>2
    <3>3. CASE e = f /\ q # p
      BY <1>1, <1>2, <3>1, <3>3
    <3>4. CASE e # f /\ q = p
      BY <1>1, <1>2, <1>3, <3>1, <3>4
    <3>5. CASE e # f /\ q # p
      BY <1>2, <3>1, <3>5
    <3> QED BY <3>2, <3>3, <3>4, <3>5
  <2>2. \A q \in Writer : g.promise[q].future # Null => h.promise[q].future # Null
    BY <1>1, <1>2, <1>3
  <2>3. \A q \in Writer : g.promise[q].future # Null =>
          g.promise[q].state = "local" /\ g.promise[q].channel # 0
    BY <1>0, <1>4, <2>2 DEF Links
  <2>4. \A e \in Future : g.future[e].promise # Null => g.future[e].alive /\ g.future[e].local = "future"
    BY <1>0, <1>2 DEF Links
  <2> QED BY <2>1, <2>3, <2>4 DEF Links
<1>8. Tasks(g)
  <2>1. \A q \in Writer : h.promise[q].task # Null => g.promise[q].local = "future"
    BY <1>0, <1>5 DEF Tasks, Available
  <2> QED BY <1>0, <1>2, <1>4, <2>1 DEF Tasks
<1>9. Queued(g)
  BY <1>0, <1>2 DEF Queued
<1>10. Conts(g)
  BY <1>0, <1>2, <1>4 DEF Conts, Writer
<1>11. Numbers(g)
  <2>1. \A e \in Future : e # f /\ h.future[e].channel # 0 => h.future[e].channel # n
    BY <1>0 DEF Readers, OneReader, n
  <2>2. \A k \in Cont : Waits(h, k) => h.cont[k].channel # n
    BY <1>0 DEF Readers, OneReader, n
  <2>3. n # 0 => h.got[n]
    BY <1>0 DEF Numbers, n
  <2>4. /\ \A e \in Future : h.future[e].channel # 0 => h.future[e].channel \in Channel
        /\ \A k \in Cont : h.cont[k].channel # 0 => h.cont[k].channel \in Channel
        /\ \A m \in Channel : m # 0
    BY <1>0, HeapFields DEF Channel
  <2>5. \A m \in Channel : ~h.got[m] => g.read[m] = "none"
    BY <1>0, <1>2, <2>3, <2>4 DEF Numbers
  <2>6. \A e \in Future : g.future[e].channel # 0 =>
          h.got[g.future[e].channel] /\ g.read[g.future[e].channel] = "none"
    BY <1>0, <1>2, <2>1, <2>4 DEF Numbers
  <2>7. \A k \in Cont : Waits(h, k) =>
          h.cont[k].channel # 0 /\ h.got[h.cont[k].channel] /\ g.read[h.cont[k].channel] = "none"
    BY <1>0, <1>2, <2>2, <2>4 DEF Numbers
  <2> QED BY <1>0, <1>2, <1>4, <2>5, <2>6, <2>7 DEF Numbers
<1>12. Writers(g)
  <2>1. OneWriter(g)
    BY <1>0, <1>4 DEF Writers, OneWriter
  <2>2. ASSUME NEW q \in Writer, q # p PROVE WriterHolds(g, q)
    BY <1>0, <1>2, <2>2 DEF Writers, WriterHolds
  <2>3. ASSUME p # Null PROVE WriterHolds(g, p)
    <3>1. WriterHolds(h, p) /\ h.promise[p].future # Null
      BY <1>0, <1>1, <1>3, <2>3 DEF Writers
    <3> QED BY <1>2, <1>3, <2>3, <3>1 DEF WriterHolds, Available
  <2>4. \A q \in Writer : q # Null
    BY FuturesAssumption DEF Writer
  <2> QED BY <2>1, <2>2, <2>3, <2>4 DEF Writers
<1>13. Readers(g)
  <2>1. OneReader(g)
    <3>1. \A e, d \in Future : g.future[e].channel # 0 /\ g.future[e].channel = g.future[d].channel => e = d
      BY <1>0, <1>2 DEF Readers, OneReader
    <3>2. \A e \in Future, k \in Cont : Waits(h, k) => h.cont[k].channel # g.future[e].channel
      BY <1>0, <1>2 DEF Readers, OneReader, Numbers
    <3> QED BY <1>0, <1>2, <1>4, <3>1, <3>2 DEF Readers, OneReader
  <2>2. ASSUME NEW e \in Future, e # f PROVE ReaderReaches(g, e)
    <3>1. ReaderReaches(h, e) /\ h.future[e].promise \in Writer \cup {Null} /\ g.future[e] = h.future[e]
      BY <1>0, <1>2, <2>2, HeapFields DEF Readers
    <3>2. h.future[e].promise # Null => h.future[e].promise # p
      BY <1>0, <1>1, <2>2, <3>1 DEF Links
    <3>3. \A q \in Writer : q # p => g.promise[q] = h.promise[q]
      BY <1>2
    <3>4. CASE h.future[e].promise = Null
      BY <1>2, <1>4, <3>1, <3>4 DEF ReaderReaches
    <3>5. CASE h.future[e].promise # Null
      BY <1>2, <3>1, <3>2, <3>3, <3>5 DEF ReaderReaches
    <3> QED BY <3>4, <3>5
  <2>3. ReaderReaches(g, f)
    BY <1>2 DEF ReaderReaches
  <2>4. Taken(g)
    BY <1>0, <1>2, <1>4, <1>5 DEF Readers, Taken, Available
  <2> QED BY <2>1, <2>2, <2>3, <2>4 DEF Readers
<1> QED BY <1>6, <1>7, <1>8, <1>9, <1>10, <1>11, <1>12, <1>13 DEF Good

\* What the result of a future is, for who uses it.
LEMMA FutureStateFacts ==
  ASSUME NEW h, Good(h), NEW f \in Future
  PROVE  /\ h.future[f].promise # Null =>
              /\ h.future[f].promise \in Writer /\ h.promise[h.future[f].promise].future = f
              /\ h.promise[h.future[f].promise].state = "local" /\ h.future[f].alive
              /\ h.future[f].local = "future"
              /\ FutureState(h, f) = h.promise[h.future[f].promise].local
         /\ h.future[f].promise = Null => FutureState(h, f) = h.future[f].local
         /\ FutureState(h, f) \in State
<1>1. h \in Heap /\ Links(h)
  BY DEF Good
<1>2. CASE h.future[f].promise = Null
  BY <1>1, <1>2, HeapFields DEF FutureState
<1>3. CASE h.future[f].promise # Null
  <2>1. /\ h.future[f].promise \in Writer /\ h.promise[h.future[f].promise].future = f
        /\ h.future[f].alive /\ h.future[f].local = "future"
    BY <1>1, <1>3, HeapFields DEF Links
  <2>2. h.promise[h.future[f].promise].state = "local"
    BY <1>1, <2>1, FuturesAssumption DEF Links
  <2> QED BY <1>1, <1>3, <2>1, <2>2, HeapFields DEF FutureState, StateAt
<1> QED BY <1>2, <1>3

\* What an update leaves alone of a heap.
SameRest(h, g) ==
  /\ g.cont = h.cont /\ g.queue = h.queue /\ g.made = h.made
  /\ g.got = h.got /\ g.written = h.written /\ g.read = h.read

\* The state of a future is put in its promise, or in the future.
LEMMA PutEffects ==
  ASSUME NEW h \in Heap, NEW f \in Future, NEW s \in State, NEW p, p = h.future[f].promise,
         p # Null => h.promise[p].state = "local"
  PROVE  /\ PutFutureState(h, f, s) \in Heap /\ SameRest(h, PutFutureState(h, f, s))
         /\ p # Null =>
              /\ PutFutureState(h, f, s).promise = [h.promise EXCEPT ![p] = [h.promise[p] EXCEPT !.local = s]]
              /\ PutFutureState(h, f, s).future = h.future
         /\ p = Null =>
              /\ PutFutureState(h, f, s).promise = h.promise
              /\ PutFutureState(h, f, s).future = [h.future EXCEPT ![f] = [h.future[f] EXCEPT !.local = s]]
<1> DEFINE g == PutFutureState(h, f, s)
<1>1. p \in Writer \cup {Null}
  BY HeapFields
<1>2. CASE p = Null
  <2>1. g = [h EXCEPT !.future[f].local = s]
    BY <1>2 DEF PutFutureState
  <2>2. [h.future[f] EXCEPT !.local = s] \in FutureRecord
    BY HeapParts DEF FutureRecord
  <2>3. /\ g.promise = h.promise /\ g.future = [h.future EXCEPT ![f] = [h.future[f] EXCEPT !.local = s]]
        /\ SameRest(h, g) /\ g = [h EXCEPT !.future = g.future]
    BY <2>1 DEF SameRest, Heap
  <2> HIDE DEF g
  <2>4. g.future \in [Future -> FutureRecord]
    BY <2>2, <2>3, HeapParts
  <2>5. g \in Heap
    BY <2>3, <2>4 DEF Heap
  <2> QED BY <1>2, <2>3, <2>5 DEF g
<1>3. CASE p # Null
  <2>1. g = [h EXCEPT !.promise[p].local = s]
    BY <1>3 DEF PutFutureState, PutState
  <2>2. p \in Writer /\ [h.promise[p] EXCEPT !.local = s] \in PromiseRecord
    <3>1. p \in Writer /\ h.promise[p] \in PromiseRecord
      BY <1>1, <1>3, HeapParts
    <3> QED BY <3>1 DEF PromiseRecord
  <2>3. /\ g.future = h.future /\ g.promise = [h.promise EXCEPT ![p] = [h.promise[p] EXCEPT !.local = s]]
        /\ SameRest(h, g) /\ g = [h EXCEPT !.promise = g.promise]
    BY <2>1 DEF SameRest, Heap
  <2> HIDE DEF g
  <2>4. g.promise \in [Writer -> PromiseRecord]
    BY <2>2, <2>3, HeapParts
  <2>5. g \in Heap
    BY <2>3, <2>4 DEF Heap
  <2> QED BY <1>3, <2>3, <2>5 DEF g
<1> QED BY <1>2, <1>3

\* A promise and its future point to each other no more.
LEMMA UnlinkedEffects ==
  ASSUME NEW h \in Heap, NEW f \in Future, NEW p, p = h.future[f].promise
  PROVE  /\ Unlinked(h, f) \in Heap /\ SameRest(h, Unlinked(h, f))
         /\ p # Null =>
              /\ Unlinked(h, f).promise = [h.promise EXCEPT ![p] = [h.promise[p] EXCEPT !.future = Null]]
              /\ Unlinked(h, f).future = [h.future EXCEPT ![f] = [h.future[f] EXCEPT !.promise = Null]]
         /\ p = Null => Unlinked(h, f) = h
<1> DEFINE g == Unlinked(h, f)
<1>1. p \in Writer \cup {Null}
  BY HeapFields
<1>2. CASE p = Null
  BY <1>2 DEF Unlinked, SameRest
<1>3. CASE p # Null
  <2>1. g = [h EXCEPT !.promise[p].future = Null, !.future[f].promise = Null]
    BY <1>3 DEF Unlinked
  <2>2. /\ [h.promise[p] EXCEPT !.future = Null] \in PromiseRecord
        /\ [h.future[f] EXCEPT !.promise = Null] \in FutureRecord
    <3>1. h.promise[p] \in PromiseRecord /\ h.future[f] \in FutureRecord
      BY <1>1, <1>3, HeapParts
    <3> QED BY <3>1 DEF PromiseRecord, FutureRecord
  <2>3. /\ g.promise = [h.promise EXCEPT ![p] = [h.promise[p] EXCEPT !.future = Null]]
        /\ g.future = [h.future EXCEPT ![f] = [h.future[f] EXCEPT !.promise = Null]]
        /\ SameRest(h, g) /\ g = [h EXCEPT !.promise = g.promise, !.future = g.future]
    BY <2>1 DEF SameRest, Heap
  <2> HIDE DEF g
  <2>4. g.promise \in [Writer -> PromiseRecord] /\ g.future \in [Future -> FutureRecord]
    BY <1>1, <1>3, <2>2, <2>3, HeapParts
  <2>5. g \in Heap
    BY <2>3, <2>4 DEF Heap
  <2> QED BY <1>3, <2>3, <2>5 DEF g
<1> QED BY <1>2, <1>3

\* A future that cannot be used any more.
Used(h, f) == [h EXCEPT !.future[f].channel = 0]

LEMMA UsedEffects ==
  ASSUME NEW h \in Heap, NEW f \in Future
  PROVE  /\ Used(h, f) \in Heap /\ SameRest(h, Used(h, f)) /\ Used(h, f).promise = h.promise
         /\ Used(h, f).future = [h.future EXCEPT ![f] = [h.future[f] EXCEPT !.channel = 0]]
<1> DEFINE g == Used(h, f)
<1>1. [h.future[f] EXCEPT !.channel = 0] \in FutureRecord
  <2>1. 0 \in 0 .. Channels /\ h.future[f] \in FutureRecord
    BY FuturesAssumption, HeapParts
  <2> QED BY <2>1 DEF FutureRecord
<1>2. /\ g.promise = h.promise /\ g.future = [h.future EXCEPT ![f] = [h.future[f] EXCEPT !.channel = 0]]
      /\ SameRest(h, g) /\ g = [h EXCEPT !.future = g.future]
  BY DEF Used, SameRest, Heap
<1> HIDE DEF g
<1>3. g.future \in [Future -> FutureRecord]
  BY <1>1, <1>2, HeapParts
<1>4. g \in Heap
  BY <1>2, <1>3 DEF Heap
<1> QED BY <1>2, <1>4 DEF g

\* The result of a future is read.
LEMMA ConsumedEffects ==
  ASSUME NEW h \in Heap, NEW f \in Future, h.future[f].channel # 0, FutureState(h, f) \in Outcome
  PROVE  /\ Consumed(h, f) \in Heap /\ Consumed(h, f).promise = h.promise
         /\ Consumed(h, f).future = [h.future EXCEPT ![f] = [h.future[f] EXCEPT !.channel = 0]]
         /\ Consumed(h, f).read = [h.read EXCEPT ![h.future[f].channel] = FutureState(h, f)]
         /\ Consumed(h, f).cont = h.cont /\ Consumed(h, f).queue = h.queue
         /\ Consumed(h, f).made = h.made /\ Consumed(h, f).got = h.got
         /\ Consumed(h, f).written = h.written
<1> DEFINE g == Consumed(h, f)
           n == h.future[f].channel
           s == FutureState(h, f)
<1>1. n \in Channel /\ [h.future[f] EXCEPT !.channel = 0] \in FutureRecord
  <2>1. 0 \in 0 .. Channels
    BY FuturesAssumption
  <2>2. n \in Channel
    BY HeapFields
  <2>3. h.future[f] \in FutureRecord
    BY HeapParts
  <2> HIDE DEF n
  <2> QED BY <2>1, <2>2, <2>3 DEF FutureRecord
<1>2. /\ g.promise = h.promise /\ g.future = [h.future EXCEPT ![f] = [h.future[f] EXCEPT !.channel = 0]]
      /\ g.read = [h.read EXCEPT ![n] = s]
      /\ g.cont = h.cont /\ g.queue = h.queue /\ g.made = h.made /\ g.got = h.got
      /\ g.written = h.written /\ g = [h EXCEPT !.future = g.future, !.read = g.read]
  <2> HIDE DEF s
  <2> QED BY DEF Consumed, Heap, s
<1> HIDE DEF g, n, s
<1>3. g.future \in [Future -> FutureRecord] /\ g.read \in [Channel -> Result]
  <2>1. s \in Result
    BY DEF Outcome, Result, s
  <2> QED BY <1>1, <1>2, <2>1, HeapParts
<1>4. g \in Heap
  BY <1>2, <1>3 DEF Heap
<1> QED BY <1>2, <1>4 DEF g, n, s

\* A future that is not used any more, and may have been read just now.
Spent(h, m, f) ==
  /\ m \in Heap /\ m.promise = h.promise
  /\ m.future = [h.future EXCEPT ![f] = [h.future[f] EXCEPT !.channel = 0]]
  /\ m.cont = h.cont /\ m.queue = h.queue /\ m.made = h.made
  /\ m.got = h.got /\ m.written = h.written
  /\ \A n \in Channel : n # h.future[f].channel => m.read[n] = h.read[n]

LEMMA SpentFacts ==
  ASSUME NEW h, Good(h), NEW f \in Future, NEW m, Spent(h, m, f)
  PROVE  /\ m.future[f].alive = h.future[f].alive /\ m.future[f].promise = h.future[f].promise
         /\ m.future[f].local = h.future[f].local /\ m.future[f].channel = 0
         /\ \A e \in Future : e # f => m.future[e] = h.future[e]
         /\ m.future[f] \in FutureRecord /\ DOMAIN m.future = Future
         /\ DOMAIN m.promise = Writer
<1>1. h \in Heap /\ m \in Heap
  BY DEF Good, Spent
<1>2. h.future[f] \in FutureRecord /\ m.future[f] \in FutureRecord
  BY <1>1, HeapParts
<1>3. m.future[f] = [h.future[f] EXCEPT !.channel = 0]
  BY <1>1, HeapParts DEF Spent
<1>4. \A e \in Future : e # f => m.future[e] = h.future[e]
  BY <1>1, HeapParts DEF Spent
<1>5. DOMAIN m.future = Future /\ DOMAIN m.promise = Writer
  BY <1>1, HeapParts
<1> QED BY <1>2, <1>3, <1>4, <1>5 DEF FutureRecord

\* The result of a future is taken out of where it is.
LEMMA EmptiedLetsGo ==
  ASSUME NEW h, Good(h), NEW f \in Future, h.future[f].alive, Available(FutureState(h, f)),
         NEW m, Spent(h, m, f), NEW g, g = PutFutureState(m, f, "invalid")
  PROVE  /\ g \in Heap /\ LetGo(h, g, f) /\ g.future[f].promise = h.future[f].promise
         /\ g.read = m.read /\ g.future[f].alive
         /\ h.future[f].promise # Null => g.promise[h.future[f].promise].local = "invalid"
<1> DEFINE p == h.future[f].promise
<1>1. h \in Heap /\ m \in Heap /\ "invalid" \in State
  BY DEF Good, Spent, State
<1>2. /\ m.future[f].alive /\ m.future[f].promise = p
      /\ m.future[f].local = h.future[f].local /\ m.future[f].channel = 0
      /\ \A e \in Future : e # f => m.future[e] = h.future[e]
      /\ m.future[f] \in FutureRecord /\ DOMAIN m.future = Future /\ DOMAIN m.promise = Writer
  BY SpentFacts
<1>3. /\ m.promise = h.promise /\ m.cont = h.cont /\ m.queue = h.queue /\ m.made = h.made
      /\ m.got = h.got /\ m.written = h.written
      /\ \A n \in Channel : n # h.future[f].channel => m.read[n] = h.read[n]
  BY DEF Spent
<1>4. /\ p # Null =>
              /\ p \in Writer /\ h.promise[p].future = f /\ h.promise[p].state = "local"
              /\ h.future[f].local = "future" /\ FutureState(h, f) = h.promise[p].local
  BY FutureStateFacts
<1>5. /\ g \in Heap /\ SameRest(m, g)
      /\ p # Null => /\ g.promise = [h.promise EXCEPT ![p] = [h.promise[p] EXCEPT !.local = "invalid"]]
                     /\ g.future = m.future
      /\ p = Null => /\ g.promise = h.promise
                     /\ g.future = [m.future EXCEPT ![f] = [m.future[f] EXCEPT !.local = "invalid"]]
  BY <1>1, <1>2, <1>3, <1>4, PutEffects
<1> HIDE DEF p
<1>6. CASE p = Null
  <2>1. /\ g.future[f] = [m.future[f] EXCEPT !.local = "invalid"]
        /\ \A e \in Future : e # f => g.future[e] = m.future[e]
    BY <1>2, <1>5, <1>6
  <2>2. g.future[f].alive /\ g.future[f].promise = p /\ g.future[f].channel = 0
    BY <1>2, <2>1 DEF FutureRecord
  <2>3. LetGo(h, g, f)
    BY <1>2, <1>3, <1>5, <1>6, <2>1, <2>2 DEF LetGo, SameRest, p
  <2> QED BY <1>5, <1>6, <2>2, <2>3 DEF SameRest, p
<1>7. CASE p # Null
  <2>1. /\ g.promise[p] = [h.promise[p] EXCEPT !.local = "invalid"]
        /\ \A q \in Writer : q # p => g.promise[q] = h.promise[q]
    BY <1>1, <1>4, <1>5, <1>7, HeapParts
  <2>2. h.promise[p] \in PromiseRecord
    BY <1>1, <1>4, <1>7, HeapParts
  <2>3. /\ g.promise[p].alive = h.promise[p].alive /\ g.promise[p].state = h.promise[p].state
        /\ g.promise[p].task = h.promise[p].task /\ g.promise[p].channel = h.promise[p].channel
        /\ g.promise[p].future = f /\ g.promise[p].local = "invalid" /\ Available(h.promise[p].local)
    BY <1>4, <1>7, <2>1, <2>2 DEF PromiseRecord
  <2>4. /\ g.cont = h.cont /\ g.queue = h.queue /\ g.made = h.made
        /\ g.got = h.got /\ g.written = h.written /\ g.read = m.read
        /\ \A n \in Channel : n # h.future[f].channel => g.read[n] = h.read[n]
        /\ \A e \in Future : e # f => g.future[e] = h.future[e]
        /\ g.future[f].channel = 0 /\ g.future[f].alive
        /\ g.future[f].local = "future" /\ g.future[f].promise = p
    BY <1>2, <1>3, <1>4, <1>5, <1>7 DEF SameRest
  <2>5. g.promise[p].future = IF g.future[f].promise = p THEN f ELSE Null
    BY <2>3, <2>4
  <2>6. LetGo(h, g, f)
    BY <2>1, <2>3, <2>4, <2>5 DEF LetGo, p
  <2> QED BY <1>5, <2>3, <2>4, <2>6 DEF p
<1> QED BY <1>6, <1>7 DEF p

\* A future that is let go of may be unlinked too.
LEMMA UnlinkedLetsGo ==
  ASSUME NEW h, Good(h), NEW f \in Future, h.future[f].alive,
         NEW m \in Heap, LetGo(h, m, f), m.future[f].promise = h.future[f].promise,
         m.future[f].alive,
         NEW g, g = Unlinked(m, f)
  PROVE  /\ g \in Heap /\ LetGo(h, g, f) /\ g.read = m.read /\ g.future[f].promise = Null
         /\ g.future[f].alive /\ g.future[f].channel = 0
         /\ \A q \in Writer : g.promise[q].local = m.promise[q].local
<1> DEFINE p == h.future[f].promise
<1>1. h \in Heap
  BY DEF Good
<1>2. /\ g \in Heap /\ SameRest(m, g)
      /\ p # Null =>
           /\ g.promise = [m.promise EXCEPT ![p] = [m.promise[p] EXCEPT !.future = Null]]
           /\ g.future = [m.future EXCEPT ![f] = [m.future[f] EXCEPT !.promise = Null]]
      /\ p = Null => g = m
  BY UnlinkedEffects
<1>3. m.future[f].channel = 0 /\ p \in Writer \cup {Null}
  BY <1>1, HeapFields DEF LetGo
<1>4. CASE p = Null
  BY <1>2, <1>3, <1>4
<1>5. CASE p # Null
  <2> HIDE DEF p
  <2>1. m.promise[p] \in PromiseRecord /\ m.future[f] \in FutureRecord /\ p \in Writer
    BY <1>3, <1>5, HeapParts
  <2>2. /\ g.promise[p] = [m.promise[p] EXCEPT !.future = Null]
        /\ \A q \in Writer : q # p => g.promise[q] = m.promise[q]
        /\ g.future[f] = [m.future[f] EXCEPT !.promise = Null]
        /\ \A e \in Future : e # f => g.future[e] = m.future[e]
    BY <1>2, <1>5, <2>1, HeapParts
  <2>3. /\ g.promise[p].alive = m.promise[p].alive /\ g.promise[p].state = m.promise[p].state
        /\ g.promise[p].task = m.promise[p].task /\ g.promise[p].channel = m.promise[p].channel
        /\ g.promise[p].future = Null /\ g.promise[p].local = m.promise[p].local
    BY <2>1, <2>2 DEF PromiseRecord
  <2>4. g.future[f].alive /\ g.future[f].promise = Null /\ g.future[f].channel = 0
    BY <1>3, <2>1, <2>2 DEF FutureRecord
  <2>5. /\ m.promise[p].alive = h.promise[p].alive /\ m.promise[p].state = h.promise[p].state
        /\ m.promise[p].task = h.promise[p].task /\ m.promise[p].channel = h.promise[p].channel
        /\ \/ m.promise[p].local = h.promise[p].local
           \/ m.promise[p].local = "invalid" /\ Available(h.promise[p].local)
    BY <1>5 DEF LetGo, p
  <2>6. LetGo(h, g, f)
    <3>1. /\ g.cont = h.cont /\ g.queue = h.queue /\ g.made = h.made
          /\ g.got = h.got /\ g.written = h.written /\ g.read = m.read
          /\ \A n \in Channel : n # h.future[f].channel => m.read[n] = h.read[n]
          /\ \A e \in Future : e # f => g.future[e] = h.future[e]
          /\ \A q \in Writer : q # p => g.promise[q] = h.promise[q]
      <4>1. /\ m.cont = h.cont /\ m.queue = h.queue /\ m.made = h.made
            /\ m.got = h.got /\ m.written = h.written
            /\ \A n \in Channel : n # h.future[f].channel => m.read[n] = h.read[n]
            /\ \A e \in Future : e # f => m.future[e] = h.future[e]
            /\ \A q \in Writer : q # p => m.promise[q] = h.promise[q]
        BY DEF LetGo, p
      <4>2. /\ g.cont = m.cont /\ g.queue = m.queue /\ g.made = m.made
            /\ g.got = m.got /\ g.written = m.written /\ g.read = m.read
        BY <1>2 DEF SameRest
      <4> QED BY <2>2, <4>1, <4>2
    <3>2. g.promise[p].future = IF g.future[f].promise = p THEN f ELSE Null
      BY <1>5, <2>3, <2>4
    <3>3. /\ g.promise[p].alive = h.promise[p].alive /\ g.promise[p].state = h.promise[p].state
          /\ g.promise[p].task = h.promise[p].task /\ g.promise[p].channel = h.promise[p].channel
          /\ \/ g.promise[p].local = h.promise[p].local
             \/ g.promise[p].local = "invalid" /\ Available(h.promise[p].local)
      BY <2>3, <2>5
    <3>4. h.future[f].promise = p
      BY DEF p
    <3>5. \A n \in Channel : n # h.future[f].channel => g.read[n] = h.read[n]
      BY <3>1
    <3> HIDE DEF p
    <3> QED BY <2>4, <3>1, <3>2, <3>3, <3>4, <3>5 DEF LetGo
  <2> QED BY <1>2, <2>2, <2>3, <2>4, <2>6 DEF SameRest
<1> QED BY <1>4, <1>5

LEMMA UsableFacts ==
  ASSUME NEW h, Good(h), NEW f \in Future, h.future[f].channel # 0
  PROVE  /\ h.future[f].alive /\ h.future[f].channel \in Channel
         /\ h.got[h.future[f].channel] /\ h.read[h.future[f].channel] = "none"
         /\ Available(FutureState(h, f)) =>
              /\ FutureState(h, f) \in Outcome /\ FutureState(h, f) = h.written[h.future[f].channel]
         /\ ~Available(FutureState(h, f)) =>
              /\ h.future[f].promise # Null /\ h.future[f].promise \in Writer
              /\ h.written[h.future[f].channel] = "none" /\ FutureState(h, f) = "future"
         /\ h.future[f].promise # Null =>
              h.promise[h.future[f].promise].channel = h.future[f].channel
<1>0. h \in Heap /\ Blank(h) /\ Numbers(h) /\ Writers(h) /\ Readers(h)
  BY DEF Good
<1> DEFINE n == h.future[f].channel
           p == h.future[f].promise
           s == FutureState(h, f)
<1>1. n \in Channel /\ n # 0 /\ h.future[f].alive /\ h.got[n] /\ h.read[n] = "none" /\ h.written[n] \in Result
  BY <1>0, HeapFields, HeapParts DEF Blank, NoFuture, Numbers
<1>2. /\ ReaderReaches(h, f)
      /\ p # Null => p \in Writer /\ s = h.promise[p].local /\ h.promise[p].state = "local"
      /\ p = Null => s = h.future[f].local
  BY <1>0, FutureStateFacts DEF Readers
<1>3. CASE p = Null
  BY <1>1, <1>2, <1>3 DEF ReaderReaches, Outcome, Available
<1>4. CASE p # Null
  <2>1. /\ h.promise[p].channel = n
        /\ h.written[n] # "none" => s = h.written[n]
    BY <1>1, <1>2, <1>4 DEF ReaderReaches
  <2>2. h.written[n] = "none" => s = "future"
    BY <1>0, <1>1, <1>2, <1>4, <2>1 DEF Writers, WriterHolds
  <2> HIDE DEF n, p, s
  <2> QED BY <1>1, <1>2, <1>4, <2>1, <2>2 DEF Outcome, Result, Available, n, p, s
<1> QED BY <1>3, <1>4

\* The part of get, and of forward_to, that takes the result.
LEMMA TakenKeeps ==
  ASSUME NEW h, Good(h), NEW f \in Future, h.future[f].channel # 0, Available(FutureState(h, f)),
         NEW g, g = PutFutureState(Consumed(h, f), f, "invalid")
  PROVE  /\ Good(g) /\ LetGo(h, g, f) /\ g \in Heap /\ g.future[f].promise = h.future[f].promise
         /\ g.future[f].alive /\ g.read = [h.read EXCEPT ![h.future[f].channel] = FutureState(h, f)]
<1> DEFINE m == Consumed(h, f)
<1>1. h.future[f].alive /\ h.future[f].channel \in Channel /\ FutureState(h, f) \in Outcome /\ h \in Heap
  BY UsableFacts DEF Good
<1>2. /\ m.read = [h.read EXCEPT ![h.future[f].channel] = FutureState(h, f)] /\ m \in Heap
      /\ m.promise = h.promise
      /\ m.future = [h.future EXCEPT ![f] = [h.future[f] EXCEPT !.channel = 0]]
      /\ m.cont = h.cont /\ m.queue = h.queue
      /\ m.made = h.made /\ m.got = h.got
      /\ m.written = h.written
  BY <1>1, ConsumedEffects
<1> HIDE DEF m
<1>3. Spent(h, m, f)
  BY <1>1, <1>2, HeapParts DEF Spent
<1>4. g \in Heap /\ LetGo(h, g, f) /\ g.future[f].promise = h.future[f].promise /\ g.read = m.read
      /\ g.future[f].alive
  BY <1>1, <1>3, EmptiedLetsGo DEF m
<1> QED BY <1>2, <1>4, LetGoKeeps

\* get and get0.
LEMMA GotKeeps ==
  ASSUME NEW h, Good(h), NEW f \in Future, h.future[f].channel # 0, Available(FutureState(h, f)),
         NEW g, g = Unlinked(PutFutureState(Consumed(h, f), f, "invalid"), f)
  PROVE  /\ Good(g) /\ LetGo(h, g, f)
         /\ g.read = [h.read EXCEPT ![h.future[f].channel] = FutureState(h, f)]
<1> DEFINE m == PutFutureState(Consumed(h, f), f, "invalid")
<1>1. /\ LetGo(h, m, f) /\ m \in Heap /\ m.future[f].promise = h.future[f].promise
      /\ m.future[f].alive /\ m.read = [h.read EXCEPT ![h.future[f].channel] = FutureState(h, f)]
  BY TakenKeeps
<1>2. h.future[f].alive
  BY UsableFacts
<1> HIDE DEF m
<1>3. g = Unlinked(m, f)
  BY DEF m
<1>4. g \in Heap /\ LetGo(h, g, f) /\ g.read = m.read
  BY <1>1, <1>2, <1>3, UnlinkedLetsGo
<1> QED BY <1>1, <1>4, LetGoKeeps

\* ignore_ready_future.
LEMMA IgnoredKeeps ==
  ASSUME NEW h, Good(h), NEW f \in Future, h.future[f].channel # 0, Available(FutureState(h, f)),
         NEW g, g = Used(PutFutureState(h, f, "invalid"), f)
  PROVE  Good(g) /\ LetGo(h, g, f) /\ g.read = h.read
<1> DEFINE m == PutFutureState(h, f, "invalid")
           p == h.future[f].promise
<1>1. h \in Heap /\ h.future[f].alive /\ "invalid" \in State
  BY UsableFacts DEF Good, State
<1>2. /\ p # Null =>
              /\ p \in Writer /\ h.promise[p].future = f /\ h.promise[p].state = "local"
              /\ h.future[f].local = "future" /\ FutureState(h, f) = h.promise[p].local
  BY FutureStateFacts
<1>3. /\ m \in Heap /\ SameRest(h, m)
      /\ p # Null =>
           /\ m.promise = [h.promise EXCEPT ![p] = [h.promise[p] EXCEPT !.local = "invalid"]]
           /\ m.future = h.future
      /\ p = Null =>
           /\ m.promise = h.promise
           /\ m.future = [h.future EXCEPT ![f] = [h.future[f] EXCEPT !.local = "invalid"]]
  BY <1>1, <1>2, PutEffects
<1> HIDE DEF m
<1>4. /\ g \in Heap /\ SameRest(m, g) /\ g.promise = m.promise
      /\ g.future = [m.future EXCEPT ![f] = [m.future[f] EXCEPT !.channel = 0]]
  BY <1>3, UsedEffects DEF m
<1> HIDE DEF p
<1>5. /\ m.future[f].alive /\ m.future[f].promise = p
      /\ p # Null => m.future[f].local = "future"
      /\ \A e \in Future : e # f => m.future[e] = h.future[e]
  <2>1. h.future[f] \in FutureRecord /\ h.future[f].promise = p
    BY <1>1, HeapParts DEF p
  <2>2. CASE p = Null
    <3>1. /\ m.future[f] = [h.future[f] EXCEPT !.local = "invalid"]
          /\ \A e \in Future : e # f => m.future[e] = h.future[e]
      BY <1>1, <1>3, <2>2, HeapParts
    <3> QED BY <1>1, <2>1, <2>2, <3>1 DEF FutureRecord
  <2>3. CASE p # Null
    BY <1>1, <1>2, <1>3, <2>1, <2>3
  <2> QED BY <2>2, <2>3
<1>6. /\ g.future[f].alive /\ g.future[f].promise = p /\ g.future[f].channel = 0
      /\ p # Null => g.future[f].local = "future"
      /\ \A e \in Future : e # f => g.future[e] = h.future[e]
  <2>1. m.future[f] \in FutureRecord
    BY <1>3, HeapParts
  <2>2. /\ g.future[f] = [m.future[f] EXCEPT !.channel = 0]
        /\ \A e \in Future : e # f => g.future[e] = m.future[e]
    BY <1>3, <1>4, HeapParts
  <2> QED BY <1>5, <2>1, <2>2 DEF FutureRecord
<1>7. /\ g.cont = h.cont /\ g.queue = h.queue /\ g.made = h.made
      /\ g.got = h.got /\ g.written = h.written /\ g.read = h.read
  BY <1>3, <1>4 DEF SameRest
<1>8. CASE p = Null
  <2>1. g \in Heap /\ g.promise = h.promise /\ h.future[f].promise = p
    BY <1>3, <1>4, <1>8 DEF p
  <2>2. LetGo(h, g, f)
    BY <1>6, <1>7, <1>8, <2>1 DEF LetGo
  <2> QED BY <1>7, <2>1, <2>2, LetGoKeeps
<1>9. CASE p # Null
  <2>1. h.promise[p] \in PromiseRecord
    BY <1>1, <1>2, <1>9, HeapParts
  <2>2. /\ g.promise[p] = [h.promise[p] EXCEPT !.local = "invalid"]
        /\ \A q \in Writer : q # p => g.promise[q] = h.promise[q]
    BY <1>1, <1>2, <1>3, <1>4, <1>9, HeapParts
  <2>3. /\ g.promise[p].alive = h.promise[p].alive /\ g.promise[p].state = h.promise[p].state
        /\ g.promise[p].task = h.promise[p].task /\ g.promise[p].channel = h.promise[p].channel
        /\ g.promise[p].future = f /\ g.promise[p].local = "invalid" /\ Available(h.promise[p].local)
    BY <1>2, <1>9, <2>1, <2>2 DEF PromiseRecord
  <2>4. g.promise[p].future = IF g.future[f].promise = p THEN f ELSE Null
    BY <1>6, <2>3
  <2>5. LetGo(h, g, f)
    BY <1>6, <1>7, <1>9, <2>2, <2>3, <2>4 DEF LetGo, p
  <2> QED BY <1>4, <1>7, <2>5, LetGoKeeps
<1> QED BY <1>8, <1>9

\* The future of a promise that is to become another one's.
LEMMA FreedKeeps ==
  ASSUME NEW h, Good(h), NEW f \in Future, h.future[f].channel # 0, h.future[f].promise # Null,
         NEW g, g = Used(Unlinked(h, f), f)
  PROVE  /\ Good(g) /\ LetGo(h, g, f) /\ g.read = h.read
         /\ g.promise[h.future[f].promise].future = Null /\ g.promise[h.future[f].promise].task = Null
         /\ g.promise[h.future[f].promise].state = "local"
         /\ g.promise[h.future[f].promise].local = h.promise[h.future[f].promise].local
         /\ g.future[f].promise = Null /\ g.future[f].alive
<1> DEFINE m == Unlinked(h, f)
           p == h.future[f].promise
<1>1. h \in Heap /\ h.future[f].alive
  BY UsableFacts DEF Good
<1>2. p \in Writer /\ h.promise[p].future = f /\ h.promise[p].state = "local" /\ h.promise[p].task = Null
  BY FutureStateFacts, FuturesAssumption DEF Good, Tasks
<1>3. /\ m \in Heap /\ SameRest(h, m)
      /\ m.promise = [h.promise EXCEPT ![p] = [h.promise[p] EXCEPT !.future = Null]]
      /\ m.future = [h.future EXCEPT ![f] = [h.future[f] EXCEPT !.promise = Null]]
  BY <1>1, UnlinkedEffects
<1> HIDE DEF m
<1>4. /\ g \in Heap /\ SameRest(m, g) /\ g.promise = m.promise
      /\ g.future = [m.future EXCEPT ![f] = [m.future[f] EXCEPT !.channel = 0]]
  BY <1>3, UsedEffects DEF m
<1>5. /\ h.future[f] \in FutureRecord /\ m.future[f] \in FutureRecord /\ h.promise[p] \in PromiseRecord
  <2>1. h.future \in [Future -> FutureRecord] /\ h.promise \in [Writer -> PromiseRecord]
    BY <1>1, HeapParts
  <2>2. m.future \in [Future -> FutureRecord]
    BY <1>3, HeapParts
  <2> QED BY <1>2, <2>1, <2>2
<1>6. /\ m.future[f] = [h.future[f] EXCEPT !.promise = Null]
      /\ g.future[f] = [m.future[f] EXCEPT !.channel = 0]
      /\ \A e \in Future : e # f => g.future[e] = h.future[e]
      /\ g.promise[p] = [h.promise[p] EXCEPT !.future = Null]
      /\ \A q \in Writer : q # p => g.promise[q] = h.promise[q]
  <2>1. /\ h.future \in [Future -> FutureRecord] /\ h.promise \in [Writer -> PromiseRecord]
    BY <1>1, HeapParts
  <2>2. m.future \in [Future -> FutureRecord]
    BY <1>3, HeapParts
  <2>3. /\ m.future[f] = [h.future[f] EXCEPT !.promise = Null]
        /\ \A e \in Future : e # f => m.future[e] = h.future[e]
    BY <1>3, <2>1
  <2>4. /\ g.future[f] = [m.future[f] EXCEPT !.channel = 0]
        /\ \A e \in Future : e # f => g.future[e] = m.future[e]
    BY <1>4, <2>2
  <2> HIDE DEF p
  <2>5. /\ g.promise[p] = [h.promise[p] EXCEPT !.future = Null]
        /\ \A q \in Writer : q # p => g.promise[q] = h.promise[q]
    BY <1>2, <1>3, <1>4, <2>1
  <2> QED BY <2>3, <2>4, <2>5
<1>7. g.future[f].alive /\ g.future[f].promise = Null /\ g.future[f].channel = 0
  BY <1>1, <1>5, <1>6 DEF FutureRecord
<1> HIDE DEF p
<1>8. /\ g.promise[p].alive = h.promise[p].alive /\ g.promise[p].state = h.promise[p].state
      /\ g.promise[p].task = h.promise[p].task /\ g.promise[p].channel = h.promise[p].channel
      /\ g.promise[p].future = Null /\ g.promise[p].local = h.promise[p].local
  BY <1>5, <1>6 DEF PromiseRecord
<1>9. /\ g.cont = h.cont /\ g.queue = h.queue /\ g.made = h.made
      /\ g.got = h.got /\ g.written = h.written /\ g.read = h.read
  BY <1>3, <1>4 DEF SameRest
<1>10. p # Null
  BY DEF p
<1>11. g.promise[p].future = IF g.future[f].promise = p THEN f ELSE Null
  BY <1>7, <1>8, <1>10
<1>12. LetGo(h, g, f)
  BY <1>6, <1>7, <1>8, <1>9, <1>11 DEF LetGo, p
<1>13. Good(g)
  BY <1>4, <1>12, LetGoKeeps
<1> QED BY <1>2, <1>7, <1>8, <1>9, <1>12, <1>13 DEF p

\* The end of a future.
LEMMA DestroyedKeeps ==
  ASSUME NEW h, Good(h), NEW f \in Future, NEW g, g = Destroyed(h, f)
  PROVE  /\ Good(g) /\ LetGo(h, g, f) /\ g.read = h.read /\ g.future[f] = NoFuture
<1> DEFINE u == Unlinked(h, f)
           p == h.future[f].promise
<1>1. h \in Heap /\ p \in Writer \cup {Null}
  BY HeapFields DEF Good
<1>2. /\ u \in Heap /\ SameRest(h, u)
      /\ p # Null =>
           /\ u.promise = [h.promise EXCEPT ![p] = [h.promise[p] EXCEPT !.future = Null]]
           /\ u.future = [h.future EXCEPT ![f] = [h.future[f] EXCEPT !.promise = Null]]
      /\ p = Null => u = h
  BY <1>1, UnlinkedEffects
<1>3. g = [u EXCEPT !.future[f] = NoFuture]
  BY DEF Destroyed
<1> HIDE DEF u
<1>4. NoFuture \in FutureRecord /\ NoFuture.promise = Null /\ NoFuture.channel = 0 /\ ~NoFuture.alive
  BY FuturesAssumption DEF NoFuture, FutureRecord, State
<1>5. /\ g.future = [u.future EXCEPT ![f] = NoFuture] /\ g.promise = u.promise
      /\ SameRest(u, g) /\ g = [u EXCEPT !.future = g.future]
  BY <1>2, <1>3 DEF Heap, SameRest
<1>6. g \in Heap
  <2>1. g.future \in [Future -> FutureRecord]
    BY <1>2, <1>4, <1>5, HeapParts
  <2> QED BY <1>2, <1>5, <2>1 DEF Heap
<1>7. /\ g.future[f] = NoFuture
      /\ \A e \in Future : e # f => g.future[e] = h.future[e]
  <2>1. \A e \in Future : e # f => u.future[e] = h.future[e]
    BY <1>1, <1>2, HeapParts
  <2>2. u.future \in [Future -> FutureRecord]
    BY <1>2, HeapParts
  <2>3. g.future[f] = NoFuture /\ \A e \in Future : e # f => g.future[e] = u.future[e]
    BY <1>5, <2>2
  <2> QED BY <2>1, <2>3
<1> HIDE DEF p
<1>8. /\ g.cont = h.cont /\ g.queue = h.queue /\ g.made = h.made
       /\ g.got = h.got /\ g.written = h.written /\ g.read = h.read
  BY <1>2, <1>5 DEF SameRest
<1>9. \A q \in Writer : q # p => g.promise[q] = h.promise[q]
  <2>1. \A q \in Writer : q # p => u.promise[q] = h.promise[q]
    BY <1>1, <1>2, HeapParts
  <2> QED BY <1>5, <2>1
<1>10. ASSUME p # Null
       PROVE  /\ g.promise[p].alive = h.promise[p].alive /\ g.promise[p].state = h.promise[p].state
              /\ g.promise[p].task = h.promise[p].task /\ g.promise[p].channel = h.promise[p].channel
              /\ g.promise[p].future = Null /\ g.promise[p].local = h.promise[p].local
  <2>1. p \in Writer /\ h.promise[p] \in PromiseRecord
    BY <1>1, <1>10, HeapParts
  <2>2. g.promise[p] = [h.promise[p] EXCEPT !.future = Null]
    BY <1>1, <1>2, <1>5, <1>10, <2>1, HeapParts
  <2> HIDE DEF p
  <2> QED BY <2>1, <2>2 DEF PromiseRecord
<1>11. LetGo(h, g, f)
  BY <1>4, <1>7, <1>8, <1>9, <1>10 DEF LetGo, p
<1> QED BY <1>6, <1>7, <1>8, <1>11, LetGoKeeps

\* A continuation is built where there was none.
Room == [stage |-> "done", state |-> "invalid", wrapped |-> FALSE, channel |-> 0]
WithRoom(h, c) == [h EXCEPT !.cont[c] = Room]

LEMMA RoomKeeps ==
  ASSUME NEW h, Good(h), NEW c \in Cont, h.cont[c].stage = "none",
         NEW g, g = WithRoom(h, c)
  PROVE  /\ Good(g) /\ g.promise = h.promise /\ g.future = h.future /\ g.queue = h.queue
         /\ g.made = h.made /\ g.got = h.got /\ g.written = h.written /\ g.read = h.read
         /\ g.cont = [h.cont EXCEPT ![c] = Room] /\ g.cont[c].stage = "done"
<1>0. h \in Heap /\ Blank(h) /\ Links(h) /\ Tasks(h) /\ Queued(h)
        /\ Conts(h) /\ Numbers(h) /\ Writers(h) /\ Readers(h)
  BY DEF Good
<1>1. /\ g.cont = [h.cont EXCEPT ![c] = Room]
      /\ g.promise = h.promise /\ g.future = h.future /\ g.queue = h.queue
      /\ g.made = h.made /\ g.got = h.got /\ g.written = h.written /\ g.read = h.read
      /\ g = [h EXCEPT !.cont = g.cont]
  BY <1>0 DEF Heap, WithRoom
<1>2. Room \in ContRecord /\ Room.stage = "done" /\ Room.state = "invalid"
  BY FuturesAssumption DEF Room, ContRecord, State
<1>3. /\ g.cont[c] = Room /\ g.cont \in [Cont -> ContRecord]
      /\ \A k \in Cont : k # c => g.cont[k] = h.cont[k]
  BY <1>0, <1>1, <1>2, HeapParts
<1>4. g \in Heap
  BY <1>0, <1>1, <1>3 DEF Heap
<1>5. \A k \in Cont : (Waits(g, k) <=> Waits(h, k)) /\ (Waits(h, k) => k # c)
  BY <1>2, <1>3 DEF Waits
<1>6. Blank(g)
  BY <1>0, <1>1, <1>2, <1>3 DEF Blank
<1>7. Links(g)
  BY <1>0, <1>1 DEF Links
<1>8. Tasks(g)
  <2>1. \A p \in Writer : h.promise[p].task # Null =>
          h.promise[p].task # c /\ h.promise[p].task \in Cont
    BY <1>0, HeapFields DEF Tasks
  <2>2. \A p \in Writer : h.promise[p].task # Null =>
          LET k == h.promise[p].task
          IN  /\ g.cont[k].stage = "attached" /\ g.cont[k].channel = h.promise[p].channel
              /\ h.promise[p].channel # 0 /\ h.promise[p].local = "future"
              /\ h.written[h.promise[p].channel] = "none"
    BY <1>0, <1>3, <2>1 DEF Tasks
  <2>3. \A k \in Cont : g.cont[k].stage = "attached" => h.cont[k].stage = "attached"
    BY <1>2, <1>3
  <2> QED BY <1>0, <1>1, <2>2, <2>3 DEF Tasks
<1>9. Queued(g)
  <2>1. \A k \in Cont : g.cont[k].stage = "scheduled" <=> h.cont[k].stage = "scheduled"
    BY <1>2, <1>3
  <2> QED BY <1>0, <1>1, <2>1 DEF Queued
<1>10. Conts(g)
  BY <1>0, <1>1, <1>2, <1>3, <1>5 DEF Conts
<1>11. Numbers(g)
  BY <1>0, <1>1, <1>3, <1>5 DEF Numbers
<1>12. Writers(g)
  BY <1>0, <1>1 DEF Writers, OneWriter, WriterHolds
<1>13. Readers(g)
  <2>1. OneReader(g)
    BY <1>0, <1>1, <1>3, <1>5 DEF Readers, OneReader
  <2>2. \A f \in Future : ReaderReaches(g, f)
    BY <1>0, <1>1 DEF Readers, ReaderReaches
  <2>3. Taken(g)
    BY <1>0, <1>1, <1>2, <1>3 DEF Readers, Taken
  <2> QED BY <2>1, <2>2, <2>3 DEF Readers
<1> QED BY <1>1, <1>2, <1>3, <1>4, <1>6, <1>7, <1>8, <1>9, <1>10, <1>11, <1>12, <1>13 DEF Good

\* A pair that was made, whose result nobody reads yet.
Unread(h, n) ==
  /\ n \in Channel /\ n # 0 /\ h.got[n] /\ h.read[n] = "none"
  /\ \A f \in Future : h.future[f].channel # n
  /\ \A k \in Cont : Waits(h, k) => h.cont[k].channel # n

\* A continuation is given a result that is there, and scheduled.
LEMMA ScheduledKeeps ==
  ASSUME NEW h, Good(h), NEW c \in Cont, h.cont[c].stage = "done", Open(h, c),
         NEW n, Unread(h, n), NEW s \in Outcome, h.written[n] = s,
         \A p \in Writer : h.promise[p].channel = n => ~Available(h.promise[p].local),
         NEW g \in Heap,
         g.cont[c].stage = "scheduled", g.cont[c].state = s, g.cont[c].channel = n,
         \A k \in Cont : k # c => g.cont[k] = h.cont[k],
         g.queue = Append(h.queue, c), g.promise = h.promise, g.future = h.future,
         g.made = h.made, g.got = h.got, g.written = h.written, g.read = h.read
  PROVE  Good(g)
<1>0. h \in Heap /\ Blank(h) /\ Links(h) /\ Tasks(h) /\ Queued(h)
        /\ Conts(h) /\ Numbers(h) /\ Writers(h) /\ Readers(h)
  BY DEF Good
<1>1. /\ g.cont[c].stage = "scheduled" /\ g.cont[c].state = s /\ g.cont[c].channel = n
      /\ \A k \in Cont : k # c => g.cont[k] = h.cont[k]
  OBVIOUS
<1>2. /\ n # 0 /\ h.got[n] /\ h.read[n] = "none"
      /\ \A f \in Future : h.future[f].channel # n
      /\ \A k \in Cont : Waits(h, k) => h.cont[k].channel # n
  BY DEF Unread
<1>3. \A k \in Cont : Waits(g, k) <=> Waits(h, k) \/ k = c
  BY <1>1 DEF Waits
<1>4. Blank(g)
  BY <1>0, <1>1 DEF Blank
<1>5. Links(g)
  BY <1>0 DEF Links
<1>6. Tasks(g)
  <2>1. \A p \in Writer : h.promise[p].task # Null =>
          h.promise[p].task # c /\ h.promise[p].task \in Cont
    BY <1>0, HeapFields DEF Tasks
  <2>2. \A p \in Writer : h.promise[p].task # Null =>
          LET k == h.promise[p].task
          IN  /\ g.cont[k].stage = "attached" /\ g.cont[k].channel = h.promise[p].channel
              /\ h.promise[p].channel # 0 /\ h.promise[p].local = "future"
              /\ h.written[h.promise[p].channel] = "none"
    BY <1>0, <1>1, <2>1 DEF Tasks
  <2>3. \A k \in Cont : g.cont[k].stage = "attached" => h.cont[k].stage = "attached"
    BY <1>1
  <2> QED BY <1>0, <2>2, <2>3 DEF Tasks
<1>7. Queued(g)
  <2>1. Once(h.queue, Cont, Self) /\ h.queue \in Seq(Cont)
          /\ Items(h.queue) = {k \in Cont : h.cont[k].stage = "scheduled"}
    BY <1>0, HeapParts DEF Queued
  <2>2. c \notin Items(h.queue)
    BY <2>1
  <2>3. Keys(h.queue, Cont, Self) = {Self[x] : x \in Items(h.queue) \cap Cont}
    BY KeysOfItems
  <2>4. Self[c] \notin Keys(h.queue, Cont, Self)
    BY <2>2, <2>3 DEF Self
  <2>5. Once(Append(h.queue, c), Cont, Self)
    BY <2>1, <2>4, OnceAppend
  <2>6. /\ Items(Append(h.queue, c)) = Items(h.queue) \cup {c}
        /\ Ordered(h.queue, {}) /\ Apart(Items(h.queue), {c}, {}) => Ordered(Append(h.queue, c), {})
    BY <2>1, OrderedAppend
  <2>7. {k \in Cont : g.cont[k].stage = "scheduled"} = Items(h.queue) \cup {c}
    BY <1>1, <2>1
  <2> QED BY <2>5, <2>6, <2>7 DEF Queued
<1>8. Conts(g)
  BY <1>0, <1>1, <1>3 DEF Conts, Open
<1>9. Numbers(g)
  BY <1>0, <1>1, <1>2, <1>3 DEF Numbers
<1>10. Writers(g)
  BY <1>0 DEF Writers, OneWriter, WriterHolds
<1>11. Readers(g)
  <2>1. OneReader(g)
    BY <1>0, <1>1, <1>2, <1>3 DEF Readers, OneReader
  <2>2. \A f \in Future : ReaderReaches(g, f)
    BY <1>0 DEF Readers, ReaderReaches
  <2>3. Taken(g)
    BY <1>0, <1>1 DEF Readers, Taken
  <2> QED BY <2>1, <2>2, <2>3 DEF Readers
<1> QED BY <1>4, <1>5, <1>6, <1>7, <1>8, <1>9, <1>10, <1>11 DEF Good

\* A continuation waits for a result, and the promise that will bring it points to it.
Pointing(h, p, c) == [h.promise EXCEPT ![p] = [h.promise[p] EXCEPT !.state = "task", !.task = c]]

LEMMA AttachedKeeps ==
  ASSUME NEW h, Good(h), NEW c \in Cont, h.cont[c].stage = "done", Open(h, c),
         NEW n, Unread(h, n), h.written[n] = "none",
         NEW p \in Writer, h.promise[p].channel = n, h.promise[p].state = "local",
         h.promise[p].future = Null,
         NEW g \in Heap,
         g.cont[c].stage = "attached", g.cont[c].state = "future", g.cont[c].channel = n,
         \A k \in Cont : k # c => g.cont[k] = h.cont[k],
         g.promise = Pointing(h, p, c),
         g.queue = h.queue, g.future = h.future,
         g.made = h.made, g.got = h.got, g.written = h.written, g.read = h.read
  PROVE  Good(g)
<1>0. h \in Heap /\ Blank(h) /\ Links(h) /\ Tasks(h) /\ Queued(h)
        /\ Conts(h) /\ Numbers(h) /\ Writers(h) /\ Readers(h)
  BY DEF Good
<1>1. /\ g.cont[c].stage = "attached" /\ g.cont[c].state = "future" /\ g.cont[c].channel = n
      /\ \A k \in Cont : k # c => g.cont[k] = h.cont[k]
  OBVIOUS
<1>2. /\ n # 0 /\ h.got[n] /\ h.read[n] = "none"
      /\ \A f \in Future : h.future[f].channel # n
      /\ \A k \in Cont : Waits(h, k) => h.cont[k].channel # n
  BY DEF Unread
<1>3. \A k \in Cont : Waits(g, k) <=> Waits(h, k) \/ k = c
  BY <1>1 DEF Waits
<1>4. /\ h.promise[p] \in PromiseRecord /\ h.promise[p].alive /\ h.promise[p].local = "future"
      /\ h.promise[p] # NoPromise /\ h.promise[p].task = Null /\ c # Null
  <2>1. h.promise[p].alive /\ h.promise[p] # NoPromise
    BY <1>0, <1>2 DEF Blank, NoPromise
  <2>2. h.promise[p].local = "future"
    BY <1>0, <1>2 DEF Writers, WriterHolds
  <2>3. h.promise[p].task = Null
    BY <1>0, FuturesAssumption DEF Tasks
  <2> QED BY <1>0, <2>1, <2>2, <2>3, HeapParts, FuturesAssumption
<1>5. /\ g.promise[p].alive /\ g.promise[p].alive = h.promise[p].alive
      /\ g.promise[p].future = Null /\ g.promise[p].state = "task"
      /\ g.promise[p].local = "future" /\ g.promise[p].task = c /\ g.promise[p].channel = n
      /\ \A q \in Writer : q # p => g.promise[q] = h.promise[q]
  <2>1. /\ g.promise[p] = [h.promise[p] EXCEPT !.state = "task", !.task = c]
        /\ \A q \in Writer : q # p => g.promise[q] = h.promise[q]
    BY <1>0, HeapParts DEF Pointing
  <2> QED BY <1>4, <2>1 DEF PromiseRecord
<1>6. \A q \in Writer :
        /\ g.promise[q].channel = h.promise[q].channel
        /\ g.promise[q].future = h.promise[q].future /\ g.promise[q].local = h.promise[q].local
        /\ g.promise[q].alive = h.promise[q].alive
  <2>1. h.promise[p].channel = n /\ h.promise[p].future = Null
    OBVIOUS
  <2>2. /\ g.promise[p].channel = h.promise[p].channel
        /\ g.promise[p].future = h.promise[p].future /\ g.promise[p].local = h.promise[p].local
        /\ g.promise[p].alive = h.promise[p].alive
    BY <1>4, <1>5, <2>1
  <2>3. \A q \in Writer : q # p => g.promise[q] = h.promise[q]
    BY <1>5
  <2> QED BY <2>2, <2>3
<1>7. Blank(g)
  <2>1. \A k \in Cont : g.cont[k].stage = "none" => k # c /\ k \in Writer
    BY <1>1 DEF Writer
  <2>2. \A q \in Writer : h.promise[q] = NoPromise => g.promise[q] = h.promise[q]
    BY <1>4, <1>5
  <2> QED BY <1>0, <1>1, <1>6, <2>1, <2>2 DEF Blank
<1>8. Links(g)
  BY <1>0, <1>5, <1>6 DEF Links
<1>9. Tasks(g)
  <2>1. \A q \in Writer : h.promise[q].task # Null =>
          h.promise[q].task # c /\ h.promise[q].task \in Cont /\ q # p
    BY <1>0, <1>4, HeapFields DEF Tasks
  <2>2. \A q \in Writer : g.promise[q].state = "task" <=> g.promise[q].task # Null
    BY <1>0, <1>4, <1>5 DEF Tasks
  <2>3. ASSUME NEW q \in Writer, g.promise[q].task # Null
        PROVE  LET k == g.promise[q].task
               IN  /\ g.cont[k].stage = "attached" /\ g.cont[k].channel = g.promise[q].channel
                   /\ g.promise[q].channel # 0 /\ g.promise[q].local = "future"
                   /\ g.written[g.promise[q].channel] = "none"
    <3>1. CASE q = p
      BY <1>1, <1>2, <1>5, <3>1
    <3>2. CASE q # p
      BY <1>0, <1>1, <1>5, <2>1, <2>3, <3>2 DEF Tasks
    <3> QED BY <3>1, <3>2
  <2>4. ASSUME NEW q \in Writer, NEW r \in Writer, g.promise[q].task # Null,
               g.promise[q].task = g.promise[r].task
        PROVE  q = r
    <3>1. CASE q = p \/ r = p
      BY <1>4, <1>5, <2>1, <2>4, <3>1
    <3>2. CASE q # p /\ r # p
      BY <1>0, <1>5, <2>4, <3>2 DEF Tasks
    <3> QED BY <3>1, <3>2
  <2>5. ASSUME NEW k \in Cont, g.cont[k].stage = "attached"
        PROVE  \E q \in Writer : g.promise[q].task = k
    <3>1. CASE k = c
      BY <1>5, <3>1
    <3>2. CASE k # c
      <4>1. PICK q \in Writer : h.promise[q].task = k
        BY <1>0, <1>1, <2>5, <3>2 DEF Tasks
      <4>2. q # p
        BY <1>4, <4>1, FuturesAssumption
      <4> QED BY <1>5, <4>1, <4>2
    <3> QED BY <3>1, <3>2
  <2> QED BY <2>2, <2>3, <2>4, <2>5 DEF Tasks
<1>10. Queued(g)
  <2>1. \A k \in Cont : g.cont[k].stage = "scheduled" <=> h.cont[k].stage = "scheduled"
    BY <1>1
  <2> QED BY <1>0, <2>1 DEF Queued
<1>11. Conts(g)
  <2>1. \A k \in Cont : k \in Writer
    BY DEF Writer
  <2> QED BY <1>0, <1>1, <1>3, <1>6, <2>1 DEF Conts, Open
<1>12. Numbers(g)
  BY <1>0, <1>1, <1>2, <1>3, <1>6 DEF Numbers
<1>13. Writers(g)
  <2>1. OneWriter(g)
    BY <1>0, <1>6 DEF Writers, OneWriter
  <2>2. WriterHolds(g, p)
    BY <1>2, <1>5, FuturesAssumption DEF WriterHolds, Available
  <2>3. \A q \in Writer : q # p => WriterHolds(g, q)
    BY <1>0, <1>5 DEF Writers, WriterHolds
  <2> QED BY <2>1, <2>2, <2>3 DEF Writers
<1>14. Readers(g)
  <2>1. OneReader(g)
    BY <1>0, <1>1, <1>2, <1>3 DEF Readers, OneReader
  <2>2. \A f \in Future : ReaderReaches(g, f)
    <3>1. \A f \in Future : h.future[f].promise \in Writer \cup {Null}
      BY <1>0, HeapFields
    <3> QED BY <1>0, <1>6, <3>1 DEF Readers, ReaderReaches
  <2>3. Taken(g)
    BY <1>0, <1>1, <1>6 DEF Readers, Taken
  <2> QED BY <2>1, <2>2, <2>3 DEF Readers
<1> QED BY <1>7, <1>8, <1>9, <1>10, <1>11, <1>12, <1>13, <1>14 DEF Good

\* A future is moved into a place that has been cleared.
LEMMA PlacedKeeps ==
  ASSUME NEW h, Good(h), NEW f \in Future, NEW e \in Future, e # f, h.future[e] = NoFuture,
         h.future[f].channel # 0,
         NEW old, old = h.future[f], NEW p, p = old.promise, NEW g \in Heap,
         g.future[e].alive, g.future[e].promise = p, g.future[e].channel = old.channel,
         p = Null => g.future[e].local = old.local, p # Null => g.future[e].local = "future",
         g.future[f].alive, g.future[f].promise = Null, g.future[f].channel = 0,
         \A d \in Future : d # e /\ d # f => g.future[d] = h.future[d],
         \A q \in Writer : q # p => g.promise[q] = h.promise[q],
         p # Null => g.promise[p] = [h.promise[p] EXCEPT !.future = e],
         SameRest(h, g)
  PROVE  Good(g)
<1>0. h \in Heap /\ Blank(h) /\ Links(h) /\ Tasks(h) /\ Queued(h)
        /\ Conts(h) /\ Numbers(h) /\ Writers(h) /\ Readers(h)
  BY DEF Good
<1> DEFINE n == old.channel
<1>1. /\ g.cont = h.cont /\ g.queue = h.queue /\ g.made = h.made
      /\ g.got = h.got /\ g.written = h.written /\ g.read = h.read
  BY DEF SameRest
<1>2. /\ p \in Writer \cup {Null} /\ n # 0 /\ e # Null /\ f # Null
      /\ h.future[e].promise = Null /\ h.future[e].channel = 0
      /\ \A q \in Writer : q # Null /\ h.promise[q].future # e /\ (h.promise[q].future = f <=> q = p)
  BY <1>0, HeapFields, FuturesAssumption DEF Links, NoFuture, Writer
<1>3. ASSUME p # Null
      PROVE  /\ p \in Writer
             /\ g.promise[p].alive = h.promise[p].alive /\ g.promise[p].state = h.promise[p].state
             /\ g.promise[p].task = h.promise[p].task /\ g.promise[p].channel = h.promise[p].channel
             /\ g.promise[p].future = e /\ g.promise[p].local = h.promise[p].local
             /\ h.promise[p].alive /\ h.promise[p] # NoPromise /\ h.promise[p].future = f
  <2>1. p \in Writer /\ h.promise[p] \in PromiseRecord /\ h.promise[p].future = f
    BY <1>0, <1>2, <1>3, HeapParts
  <2>2. h.promise[p].alive /\ h.promise[p] # NoPromise
    BY <1>0, <1>2, <2>1 DEF Blank, NoPromise
  <2>3. g.promise[p] = [h.promise[p] EXCEPT !.future = e]
    BY <1>3
  <2>4. /\ g.promise[p].alive = h.promise[p].alive /\ g.promise[p].state = h.promise[p].state
        /\ g.promise[p].task = h.promise[p].task /\ g.promise[p].channel = h.promise[p].channel
        /\ g.promise[p].future = e /\ g.promise[p].local = h.promise[p].local
    BY <2>1, <2>3 DEF PromiseRecord
  <2> QED BY <2>1, <2>2, <2>4
<1> HIDE DEF n
<1>4. /\ \A q \in Writer : g.promise[q].alive = h.promise[q].alive /\ g.promise[q].state = h.promise[q].state
           /\ g.promise[q].task = h.promise[q].task /\ g.promise[q].channel = h.promise[q].channel
           /\ g.promise[q].local = h.promise[q].local
      /\ \A k \in Cont : Waits(g, k) <=> Waits(h, k)
  BY <1>1, <1>2, <1>3 DEF Waits
<1>5. h.future[f].channel = n /\ h.future[f].promise = p /\ g.future[e].channel = n
  BY DEF n
<1>6. Blank(g)
  <2>1. \A q \in Writer : h.promise[q] = NoPromise => g.promise[q] = h.promise[q]
    BY <1>2, <1>3
  <2>2. \A d \in Future : ~g.future[d].alive => g.future[d] = h.future[d]
    OBVIOUS
  <2> QED BY <1>0, <1>1, <1>4, <2>1, <2>2 DEF Blank, Writer
<1>7. Links(g)
  <2>1. ASSUME NEW q \in Writer, NEW d \in Future
        PROVE  g.promise[q].future = d <=> g.future[d].promise = q
    <3>1. h.promise[q].future = d <=> h.future[d].promise = q
      BY <1>0 DEF Links
    <3>2. CASE q = p
      <4>1. p # Null /\ g.promise[p].future = e /\ h.promise[p].future = f /\ g.future[e].promise = p
        BY <1>2, <1>3, <1>5, <3>2, FuturesAssumption DEF Writer
      <4>2. CASE d = e
        BY <3>2, <4>1, <4>2
      <4>3. CASE d = f
        BY <3>2, <4>1, <4>3, FuturesAssumption DEF Writer
      <4>4. CASE d # e /\ d # f
        BY <3>1, <3>2, <4>1, <4>4
      <4> QED BY <4>2, <4>3, <4>4
    <3>3. CASE q # p
      BY <1>2, <3>1, <3>3
    <3> QED BY <3>2, <3>3
  <2>2. \A q \in Writer : g.promise[q].future # Null => h.promise[q].future # Null
    BY <1>2, <1>3
  <2>3. \A q \in Writer : g.promise[q].future # Null =>
          g.promise[q].state = "local" /\ g.promise[q].channel # 0
    BY <1>0, <1>4, <2>2 DEF Links
  <2>4. \A d \in Future : g.future[d].promise # Null => g.future[d].alive /\ g.future[d].local = "future"
    BY <1>0 DEF Links
  <2> QED BY <2>1, <2>3, <2>4 DEF Links
<1>8. Tasks(g)
  <2>1. g.cont = h.cont /\ g.written = h.written
    BY <1>1
  <2> QED BY <1>0, <1>4, <2>1, TasksStay
<1>9. Queued(g)
  BY <1>0, <1>1 DEF Queued
<1>10. Conts(g)
  BY <1>0, <1>1, <1>4 DEF Conts, Writer
<1>11. Numbers(g)
  <2>1. \A d \in Future : g.future[d].channel # 0 =>
          \E c \in Future : h.future[c].channel = g.future[d].channel
    BY <1>5
  <2>2. \A d \in Future : g.future[d].channel # 0 =>
          h.got[g.future[d].channel] /\ h.read[g.future[d].channel] = "none"
    BY <1>0, <2>1 DEF Numbers
  <2>3. g.made = h.made /\ g.got = h.got /\ g.written = h.written /\ g.read = h.read /\ g.cont = h.cont
    BY <1>1
  <2>4. /\ \A m \in Channel : ~h.got[m] => h.read[m] = "none"
        /\ \A q \in Writer : h.promise[q].channel <= h.made
        /\ \A k \in Cont : Waits(h, k) =>
             h.cont[k].channel # 0 /\ h.got[h.cont[k].channel] /\ h.read[h.cont[k].channel] = "none"
    BY <1>0 DEF Numbers
  <2>5. /\ \A m \in Channel : ~h.got[m] => g.read[m] = "none"
        /\ \A q \in Writer : g.promise[q].channel <= h.made
        /\ \A d \in Future : g.future[d].channel # 0 =>
             h.got[g.future[d].channel] /\ g.read[g.future[d].channel] = "none"
        /\ \A k \in Cont : Waits(g, k) =>
             g.cont[k].channel # 0 /\ h.got[g.cont[k].channel] /\ g.read[g.cont[k].channel] = "none"
    <3>1. \A k \in Cont : Waits(g, k) <=> Waits(h, k)
      BY <2>3 DEF Waits
    <3>2. \A q \in Writer : g.promise[q].channel <= h.made
      BY <1>4, <2>4
    <3> QED BY <2>2, <2>3, <2>4, <3>1, <3>2
  <2> QED BY <1>0, <2>3, <2>5, NumbersStay
<1>12. Writers(g)
  <2>1. OneWriter(g)
    BY <1>0, <1>4 DEF Writers, OneWriter
  <2>2. ASSUME NEW q \in Writer, q # p PROVE WriterHolds(g, q)
    <3>1. WriterHolds(h, q) /\ g.promise[q] = h.promise[q] /\ g.written = h.written /\ g.got = h.got
      BY <1>0, <1>1, <2>2 DEF Writers
    <3> QED BY <3>1, HolderStays
  <2>3. ASSUME p # Null PROVE WriterHolds(g, p)
    <3>1. WriterHolds(h, p) /\ h.promise[p].future # Null
      BY <1>0, <1>2, <1>3, <2>3 DEF Writers
    <3> QED BY <1>1, <1>3, <2>3, <3>1 DEF WriterHolds
  <2> QED BY <1>2, <2>1, <2>2, <2>3 DEF Writers
<1>13. Readers(g)
  <2>1. OneReader(g)
    <3> DEFINE From(d) == IF d = e THEN f ELSE d
    <3>1. \A d \in Future : g.future[d].channel # 0 =>
            d # f /\ From(d) \in Future /\ h.future[From(d)].channel = g.future[d].channel
      BY <1>5
    <3>2. \A d, c \in Future : d # f /\ c # f /\ From(d) = From(c) => d = c
      OBVIOUS
    <3> HIDE DEF From
    <3>3. \A d, c \in Future : g.future[d].channel # 0 /\ g.future[d].channel = g.future[c].channel => d = c
      BY <1>0, <3>1, <3>2 DEF Readers, OneReader
    <3>4. \A k \in Cont : Waits(h, k) => h.cont[k].channel # 0
      BY <1>0 DEF Numbers
    <3>5. \A d \in Future, k \in Cont : Waits(h, k) => h.cont[k].channel # g.future[d].channel
      BY <1>0, <3>1, <3>4 DEF Readers, OneReader
    <3> QED BY <1>0, <1>1, <1>4, <3>3, <3>5 DEF Readers, OneReader
  <2>2. ASSUME NEW d \in Future, d # e, d # f PROVE ReaderReaches(g, d)
    <3>1. ReaderReaches(h, d) /\ h.future[d].promise \in Writer \cup {Null} /\ g.future[d] = h.future[d]
      BY <1>0, <2>2, HeapFields DEF Readers
    <3> QED BY <1>1, <1>4, <3>1 DEF ReaderReaches
  <2>3. ReaderReaches(g, e)
    <3>1. ReaderReaches(h, f)
      BY <1>0 DEF Readers
    <3>2. CASE p = Null
      BY <1>1, <1>2, <1>4, <1>5, <3>1, <3>2 DEF ReaderReaches
    <3>3. CASE p # Null
      <4>1. /\ g.promise[p].channel = h.promise[p].channel /\ g.promise[p].local = h.promise[p].local
            /\ g.written = h.written
        BY <1>1, <1>3, <3>3
      <4>2. h.promise[p].channel = n /\ (h.written[n] # "none" => h.promise[p].local = h.written[n])
        BY <1>5, <3>1, <3>3 DEF ReaderReaches, n
      <4> QED BY <1>5, <3>3, <4>1, <4>2 DEF ReaderReaches
    <3> QED BY <3>2, <3>3
  <2>4. ReaderReaches(g, f)
    BY DEF ReaderReaches
  <2>5. Taken(g)
    BY <1>0, <1>1, <1>4 DEF Readers, Taken
  <2> QED BY <2>1, <2>2, <2>3, <2>4, <2>5 DEF Readers
<1> QED BY <1>6, <1>7, <1>8, <1>9, <1>10, <1>11, <1>12, <1>13 DEF Good

\* Move construction and move assignment of a future.
LEMMA FutureMovedKeeps ==
  ASSUME NEW h, Good(h), NEW f \in Future, NEW e \in Future, e # f, h.future[f].channel # 0,
         NEW g, g = FutureMoved(h, f, e)
  PROVE  Good(g) /\ g.cont = h.cont /\ g.written = h.written /\ g.read = h.read
<1> DEFINE d == Destroyed(h, e)
           old == h.future[f]
           p == old.promise
           a == [old EXCEPT !.local = IF p = Null THEN @ ELSE "future"]
           b == [old EXCEPT !.promise = Null, !.channel = 0,
                            !.local = IF p = Null THEN "invalid" ELSE @]
<1>1. h \in Heap /\ old.alive /\ old \in FutureRecord /\ p \in Writer \cup {Null}
  BY UsableFacts, HeapParts, HeapFields DEF Good
<1>2. Good(d) /\ LetGo(h, d, e) /\ d.read = h.read /\ d.future[e] = NoFuture /\ d \in Heap
  BY DestroyedKeeps DEF Good
<1>3. /\ d.cont = h.cont /\ d.written = h.written /\ d.future[f] = old
  BY <1>2 DEF LetGo
<1> HIDE DEF d, p, old
<1>4. /\ a.alive /\ a.promise = p /\ a.channel = old.channel /\ a \in FutureRecord
      /\ a.local = IF p = Null THEN old.local ELSE "future"
  BY <1>1 DEF FutureRecord, State, p
<1>5. b.alive /\ b.promise = Null /\ b.channel = 0 /\ b \in FutureRecord
  <2>1. 0 \in 0 .. Channels
    BY FuturesAssumption
  <2>2. b = [old EXCEPT !.promise = Null, !.channel = 0,
                        !.local = IF p = Null THEN "invalid" ELSE old.local]
    OBVIOUS
  <2>3. (IF p = Null THEN "invalid" ELSE old.local) \in State
    BY <1>1 DEF FutureRecord, State
  <2> QED BY <1>1, <2>1, <2>2, <2>3 DEF FutureRecord
<1> HIDE DEF a, b
<1> DEFINE m == [d EXCEPT !.future[e] = a, !.future[f] = b]
<1>6. /\ g = IF p = Null THEN m ELSE [m EXCEPT !.promise[p].future = e]
  BY DEF FutureMoved, a, b, d, p, old
<1>7. /\ m.future = [[d.future EXCEPT ![e] = a] EXCEPT ![f] = b] /\ m.promise = d.promise
      /\ SameRest(d, m) /\ m = [d EXCEPT !.future = m.future]
  BY <1>2 DEF Heap, SameRest
<1> HIDE DEF m
<1>8. /\ m.future \in [Future -> FutureRecord] /\ m.future[e] = a /\ m.future[f] = b
      /\ \A c \in Future : c # e /\ c # f => m.future[c] = d.future[c]
  BY <1>2, <1>4, <1>5, <1>7, HeapParts
<1>9. m \in Heap
  BY <1>2, <1>7, <1>8 DEF Heap
<1>10. CASE p = Null
  <2>1. g = m
    BY <1>6, <1>10
  <2>2. Good(m)
    <3>1. /\ m.future[e].alive /\ m.future[e].promise = p /\ m.future[e].channel = old.channel
          /\ p = Null => m.future[e].local = old.local
          /\ p # Null => m.future[e].local = "future"
          /\ m.future[f].alive /\ m.future[f].promise = Null /\ m.future[f].channel = 0
      BY <1>4, <1>5, <1>8
    <3>2. /\ \A q \in Writer : q # p => m.promise[q] = d.promise[q]
          /\ p # Null => m.promise[p] = [d.promise[p] EXCEPT !.future = e]
      BY <1>7, <1>10
    <3>3. Good(d) /\ d.future[e] = NoFuture /\ d.future[f] = old /\ old.channel # 0 /\ p = old.promise
      BY <1>2, <1>3 DEF p, old
    <3>4. /\ \A c \in Future : c # e /\ c # f => m.future[c] = d.future[c]
          /\ SameRest(d, m) /\ m \in Heap
      BY <1>7, <1>8, <1>9
    <3> QED BY <3>1, <3>2, <3>3, <3>4, PlacedKeeps
  <2> QED BY <1>3, <1>2, <1>7, <2>1, <2>2 DEF SameRest
<1>11. CASE p # Null
  <2>1. p \in Writer /\ m.promise[p] \in PromiseRecord
    BY <1>1, <1>9, <1>11, HeapParts
  <2>2. [m.promise[p] EXCEPT !.future = e] \in PromiseRecord
    BY <2>1 DEF PromiseRecord
  <2>3. /\ g.promise = [m.promise EXCEPT ![p] = [m.promise[p] EXCEPT !.future = e]]
        /\ g.future = m.future /\ SameRest(m, g) /\ g = [m EXCEPT !.promise = g.promise]
    BY <1>6, <1>9, <1>11 DEF Heap, SameRest
  <2>4. /\ g.promise \in [Writer -> PromiseRecord]
        /\ g.promise[p] = [d.promise[p] EXCEPT !.future = e]
        /\ \A q \in Writer : q # p => g.promise[q] = d.promise[q]
    BY <1>7, <1>9, <2>1, <2>2, <2>3, HeapParts
  <2>5. g \in Heap
    BY <1>9, <2>3, <2>4 DEF Heap
  <2>6. SameRest(d, g)
    BY <1>7, <2>3 DEF SameRest
  <2>7. Good(g)
    <3>1. d.future[f].channel # 0 /\ old = d.future[f] /\ p = old.promise
      BY <1>3 DEF p, old
    <3>2. /\ g.future[e].alive /\ g.future[e].promise = p /\ g.future[e].channel = old.channel
          /\ p = Null => g.future[e].local = old.local
          /\ p # Null => g.future[e].local = "future"
          /\ g.future[f].alive /\ g.future[f].promise = Null /\ g.future[f].channel = 0
          /\ \A c \in Future : c # e /\ c # f => g.future[c] = d.future[c]
      BY <1>4, <1>5, <1>8, <2>3
    <3>3. /\ \A q \in Writer : q # p => g.promise[q] = d.promise[q]
          /\ p # Null => g.promise[p] = [d.promise[p] EXCEPT !.future = e]
      BY <2>4
    <3> QED BY <1>2, <2>5, <2>6, <3>1, <3>2, <3>3, PlacedKeeps
  <2> QED BY <1>2, <1>3, <2>6, <2>7 DEF SameRest
<1> QED BY <1>10, <1>11

\* make_ready_future and make_exception_future.
ReadyMade(h, f, outcome, n) ==
  [h EXCEPT !.future[f] = [alive |-> TRUE, promise |-> Null, local |-> outcome, channel |-> n],
            !.made = @ + 1, !.got[n] = TRUE, !.written[n] = outcome]

LEMMA ReadyMadeKeeps ==
  ASSUME NEW h, Good(h), NEW f \in Future, ~h.future[f].alive, h.made < Channels,
         NEW outcome \in Outcome, NEW n, n = h.made + 1,
         NEW g, g = ReadyMade(h, f, outcome, n)
  PROVE  /\ Good(g) /\ g.cont = h.cont /\ g.read = h.read
         /\ g.written = [h.written EXCEPT ![n] = outcome] /\ n \in Channel
<1>0. h \in Heap /\ Blank(h) /\ Links(h) /\ Tasks(h) /\ Queued(h)
        /\ Conts(h) /\ Numbers(h) /\ Writers(h) /\ Readers(h)
  BY DEF Good
<1> DEFINE r == [alive |-> TRUE, promise |-> Null, local |-> outcome, channel |-> n]
<1>1. /\ n \in Channel /\ n # 0 /\ n \in 0 .. Channels
      /\ ~h.got[n] /\ h.written[n] = "none" /\ h.read[n] = "none"
      /\ \A p \in Writer : h.promise[p].channel # n
      /\ \A e \in Future : h.future[e].channel # n
      /\ \A k \in Cont : Waits(h, k) => h.cont[k].channel # n
      /\ \A m \in Channel : m > n => ~h.got[m] /\ h.written[m] = "none" /\ h.read[m] = "none"
      /\ \A p \in Writer : h.promise[p].channel <= n
  BY FreshNumber
<1>2. /\ g.future = [h.future EXCEPT ![f] = r] /\ g.made = n
      /\ g.got = [h.got EXCEPT ![n] = TRUE] /\ g.written = [h.written EXCEPT ![n] = outcome]
      /\ g.promise = h.promise /\ g.cont = h.cont /\ g.queue = h.queue /\ g.read = h.read
      /\ g = [h EXCEPT !.future = g.future, !.made = g.made, !.got = g.got, !.written = g.written]
  BY <1>0 DEF Heap, ReadyMade
<1>3. r \in FutureRecord /\ outcome \in State /\ outcome \in Result
  BY <1>1 DEF FutureRecord, Outcome, State, Result
<1>4. /\ g.future \in [Future -> FutureRecord] /\ g.got \in [Channel -> BOOLEAN]
      /\ g.written \in [Channel -> Result] /\ g.made \in 0 .. Channels
  <2>1. /\ h.future \in [Future -> FutureRecord] /\ h.got \in [Channel -> BOOLEAN]
        /\ h.written \in [Channel -> Result]
    BY <1>0, HeapParts
  <2> HIDE DEF r
  <2>2. g.future \in [Future -> FutureRecord]
    BY <1>2, <1>3, <2>1
  <2>3. g.written \in [Channel -> Result]
    BY <1>2, <1>3, <2>1
  <2>4. g.got \in [Channel -> BOOLEAN]
    <3>1. g.got = [h.got EXCEPT ![n] = TRUE] /\ TRUE \in BOOLEAN
      BY <1>2
    <3> QED BY <2>1, <3>1
  <2> QED BY <1>1, <1>2, <2>2, <2>3, <2>4
<1>5. g \in Heap
  BY <1>0, <1>2, <1>4 DEF Heap
<1>6. /\ g.future[f].alive /\ g.future[f].promise = Null /\ g.future[f].local = outcome
      /\ g.future[f].channel = n
      /\ \A e \in Future : e # f => g.future[e] = h.future[e]
      /\ g.got[n] /\ g.written[n] = outcome
      /\ \A m \in Channel : m # n => g.got[m] = h.got[m] /\ g.written[m] = h.written[m]
  BY <1>0, <1>1, <1>2, HeapParts
<1>7. /\ \A k \in Cont : Waits(g, k) <=> Waits(h, k)
      /\ \A p \in Writer : h.promise[p].future # f /\ p # Null
      /\ h.future[f].promise = Null
  BY <1>0, <1>2, FuturesAssumption DEF Waits, Blank, NoFuture, Links, Writer
<1>8. /\ \A p \in Writer : h.promise[p].channel # 0 =>
           h.promise[p].channel \in Channel /\ h.promise[p].channel # n
      /\ \A e \in Future : h.future[e].channel # 0 => h.future[e].channel \in Channel
      /\ \A k \in Cont : h.cont[k].channel # 0 => h.cont[k].channel \in Channel
  BY <1>0, <1>1, HeapFields
<1>9. Blank(g)
  BY <1>0, <1>2, <1>6 DEF Blank
<1>10. Links(g)
  BY <1>0, <1>2, <1>6, <1>7 DEF Links
<1>11. Tasks(g)
  <2>1. \A p \in Writer : h.promise[p].channel # 0 => g.written[h.promise[p].channel] = h.written[h.promise[p].channel]
    BY <1>6, <1>8
  <2>2. g.promise = h.promise /\ g.cont = h.cont
    BY <1>2
  <2>3. \A p \in Writer : h.promise[p].task # Null => h.promise[p].channel # 0
    BY <1>0 DEF Tasks
  <2> QED BY <1>0, <2>1, <2>2, <2>3, TasksStay
<1>12. Queued(g)
  BY <1>0, <1>2 DEF Queued
<1>13. Conts(g)
  <2>1. \A k \in Cont : Waits(h, k) =>
          /\ h.promise[k].channel # 0 /\ g.written[h.promise[k].channel] = h.written[h.promise[k].channel]
          /\ g.written[h.cont[k].channel] = h.written[h.cont[k].channel]
    <3>1. ASSUME NEW k \in Cont, Waits(h, k)
          PROVE  /\ h.promise[k].channel # 0 /\ h.promise[k].channel \in Channel
                 /\ h.promise[k].channel # n
                 /\ h.cont[k].channel \in Channel /\ h.cont[k].channel # n
      <4>1. k \in Writer
        BY DEF Writer
      <4>2. h.promise[k].channel # 0
        BY <1>0, <3>1 DEF Conts
      <4>3. h.cont[k].channel # 0
        BY <1>0, <3>1 DEF Numbers
      <4> QED BY <1>1, <1>8, <3>1, <4>1, <4>2, <4>3
    <3> QED BY <1>6, <3>1
  <2>2. g.cont = h.cont /\ g.promise = h.promise
    BY <1>2
  <2> QED BY <1>0, <1>7, <2>1, <2>2 DEF Conts, Waits
<1>14. Numbers(g)
  <2>1. /\ \A m \in Channel : m > n => m # n
        /\ \A m \in Channel : m > n => ~g.got[m] /\ g.written[m] = "none"
    BY <1>1, <1>6, HeapFields DEF Channel
  <2>2. \A m \in Channel : ~g.got[m] => g.read[m] = "none"
    BY <1>0, <1>2, <1>6 DEF Numbers
  <2>3. \A e \in Future : g.future[e].channel # 0 =>
          g.got[g.future[e].channel] /\ g.read[g.future[e].channel] = "none"
    BY <1>0, <1>1, <1>2, <1>6, <1>8 DEF Numbers
  <2>4. \A k \in Cont : Waits(g, k) =>
          g.cont[k].channel # 0 /\ g.got[g.cont[k].channel] /\ g.read[g.cont[k].channel] = "none"
    <3> SUFFICES ASSUME NEW k \in Cont, Waits(g, k)
                 PROVE  g.cont[k].channel # 0 /\ g.got[g.cont[k].channel] /\ g.read[g.cont[k].channel] = "none"
      OBVIOUS
    <3>1. Waits(h, k) /\ g.cont[k] = h.cont[k]
      BY <1>2 DEF Waits
    <3>2. /\ h.cont[k].channel # 0 /\ h.got[h.cont[k].channel]
          /\ h.read[h.cont[k].channel] = "none" /\ h.cont[k].channel \in Channel
      BY <1>0, <1>1, <1>8, <3>1 DEF Numbers
    <3> QED BY <1>1, <1>2, <1>6, <3>1, <3>2
  <2>5. g.made = n /\ g.promise = h.promise
    BY <1>2
  <2>6. \A p \in Writer : h.promise[p].channel <= n
    BY <1>1
  <2> QED BY <2>1, <2>2, <2>3, <2>4, <2>5, <2>6 DEF Numbers
<1>15. Writers(g)
  <2>1. \A p \in Writer : h.promise[p].channel # 0 =>
          /\ g.written[h.promise[p].channel] = h.written[h.promise[p].channel]
          /\ g.got[h.promise[p].channel] = h.got[h.promise[p].channel]
    BY <1>6, <1>8
  <2>2. \A p \in Writer : WriterHolds(g, p)
    <3>1. \A p \in Writer : WriterHolds(h, p)
      BY <1>0 DEF Writers
    <3>2. g.promise = h.promise
      BY <1>2
    <3> QED BY <2>1, <3>1, <3>2, HolderStays
  <2>3. OneWriter(g)
    BY <1>0, <1>2 DEF Writers, OneWriter
  <2> QED BY <2>2, <2>3 DEF Writers
<1>16. Readers(g)
  <2>1. OneReader(g)
    BY <1>0, <1>1, <1>2, <1>6, <1>7 DEF Readers, OneReader
  <2>2. ReaderReaches(g, f)
    <3>1. /\ g.future[f].channel = n /\ g.future[f].promise = Null
          /\ g.future[f].local \in Outcome /\ g.future[f].local = g.written[n]
      BY <1>6
    <3>2. \A p \in Writer : g.promise[p].channel # n
      BY <1>1, <1>2
    <3> QED BY <3>1, <3>2 DEF ReaderReaches
  <2>3. ASSUME NEW e \in Future, e # f PROVE ReaderReaches(g, e)
    <3>1. ReaderReaches(h, e) /\ g.future[e] = h.future[e]
      BY <1>0, <1>6, <2>3 DEF Readers
    <3>2. h.future[e].channel # 0 => g.written[h.future[e].channel] = h.written[h.future[e].channel]
      BY <1>1, <1>6, <1>8
    <3>3. g.promise = h.promise /\ \A q \in Writer : g.promise[q].channel \in {0, h.promise[q].channel}
      BY <1>2
    <3> QED BY <3>1, <3>2, <3>3, ReachStays
  <2>4. Taken(g)
    BY <1>0, <1>2 DEF Readers, Taken
  <2> QED BY <2>1, <2>2, <2>3, <2>4 DEF Readers
<1> QED BY <1>1, <1>2, <1>5, <1>9, <1>10, <1>11, <1>12, <1>13, <1>14, <1>15, <1>16 DEF Good

LEMMA UnreadAfter ==
  ASSUME NEW h, Good(h), NEW f \in Future, h.future[f].channel # 0,
         NEW g, LetGo(h, g, f), g.read = h.read
  PROVE  Unread(g, h.future[f].channel)
<1> DEFINE n == h.future[f].channel
<1>1. n \in Channel /\ n # 0 /\ h.got[n] /\ h.read[n] = "none"
  BY UsableFacts
<1>2. /\ g.cont = h.cont /\ g.got = h.got /\ g.future[f].channel = 0
      /\ \A e \in Future : e # f => g.future[e] = h.future[e]
  BY DEF LetGo
<1>3. /\ \A e \in Future : e # f => h.future[e].channel # n
      /\ \A k \in Cont : Waits(h, k) => h.cont[k].channel # n
  BY DEF Good, Readers, OneReader
<1> QED BY <1>1, <1>2, <1>3 DEF Unread, Waits

\* A future that cannot be used any more is let go of, though it stays linked.
LEMMA UsedLetsGo ==
  ASSUME NEW h, Good(h), NEW f \in Future, h.future[f].alive, NEW m, Spent(h, m, f)
  PROVE  /\ LetGo(h, m, f) /\ m.future[f].promise = h.future[f].promise /\ m.future[f].alive
         /\ m \in Heap
<1> DEFINE p == h.future[f].promise
<1>1. /\ m \in Heap /\ m.promise = h.promise
      /\ m.cont = h.cont /\ m.queue = h.queue /\ m.made = h.made
      /\ m.got = h.got /\ m.written = h.written
      /\ \A n \in Channel : n # h.future[f].channel => m.read[n] = h.read[n]
  BY DEF Spent
<1>2. /\ m.future[f].alive /\ m.future[f].promise = p
      /\ m.future[f].local = h.future[f].local /\ m.future[f].channel = 0
      /\ \A e \in Future : e # f => m.future[e] = h.future[e]
  BY SpentFacts
<1>3. p # Null => h.promise[p].future = f /\ h.future[f].local = "future"
  BY FutureStateFacts
<1>4. p # Null => m.promise[p].future = IF m.future[f].promise = p THEN f ELSE Null
  BY <1>1, <1>2, <1>3
<1>5. m.future[f].promise # Null =>
        m.future[f].alive /\ m.future[f].local = "future" /\ m.future[f].promise = p
  BY <1>2, <1>3
<1> HIDE DEF p
<1>6. LetGo(h, m, f)
  BY <1>1, <1>2, <1>4, <1>5 DEF LetGo, p
<1> QED BY <1>1, <1>2, <1>6 DEF p

\* A heap that is changed twice, and two heaps that differ in their continuations.
LEMMA ChangedTwice ==
  ASSUME NEW h \in Heap, NEW a, NEW m, NEW p, NEW f, NEW t
  PROVE  [[h EXCEPT !.promise = a, !.made = m] EXCEPT !.promise = p, !.future = f, !.got = t]
           = [h EXCEPT !.promise = p, !.future = f, !.made = m, !.got = t]
BY DEF Heap

LEMMA OtherConts ==
  ASSUME NEW h \in Heap, NEW y \in Heap, y.queue = h.queue, y.written = h.written, y.read = h.read
  PROVE  [h EXCEPT !.promise = y.promise, !.future = y.future, !.made = y.made, !.got = y.got]
           = [y EXCEPT !.cont = h.cont]
BY DEF Heap

\* The continuation of then() is built, and its promise and the future that is returned.
LEMMA ChainMade ==
  ASSUME NEW h, Good(h), NEW k \in Cont, h.cont[k].stage = "none", h.made < Channels,
         NEW g \in Future, ~h.future[g].alive,
         NEW r, r = WithRoom(h, k),
         NEW y, y = GotFuture(Made(r, k), k, g),
         NEW b, b = GotFuture(Made(h, k), k, g)
  PROVE  /\ Good(y) /\ y.cont = [h.cont EXCEPT ![k] = Room] /\ y.queue = h.queue
         /\ y.written = h.written /\ y.read = h.read /\ Open(y, k) /\ y.cont[k].stage = "done"
         /\ \A e \in Future : e # g => y.future[e] = h.future[e]
         /\ h.promise[k] = NoPromise
         /\ \A p \in Writer : p # k => y.promise[p] = h.promise[p]
         /\ b = [y EXCEPT !.cont = h.cont]
<1> DEFINE m == Made(r, k)
           n == h.made + 1
           new == NewPromise(n)
           next == [new EXCEPT !.future = g]
           got == [alive |-> TRUE, promise |-> k, local |-> "future", channel |-> n]
<1>1. /\ Good(r) /\ r.promise = h.promise /\ r.future = h.future /\ r.queue = h.queue
      /\ r.made = h.made /\ r.got = h.got /\ r.written = h.written /\ r.read = h.read
      /\ r.cont = [h.cont EXCEPT ![k] = Room] /\ r.cont[k].stage = "done"
  BY RoomKeeps
<1>2. h.promise[k] = NoPromise /\ k \in Writer /\ ~h.promise[k].alive /\ h \in Heap /\ r \in Heap
  <2>1. h.promise[k] = NoPromise
    BY DEF Good, Blank
  <2> QED BY <1>1, <2>1 DEF Good, Writer, NoPromise
<1>3. Good(m)
  BY <1>1, <1>2, MadeKeeps
<1>4. /\ m.promise = [h.promise EXCEPT ![k] = new] /\ m.made = n /\ m.future = h.future
      /\ m.cont = r.cont /\ m.queue = h.queue /\ m.got = h.got /\ m.written = h.written
      /\ m.read = h.read /\ m = [r EXCEPT !.promise = m.promise, !.made = n]
  <2> HIDE DEF new
  <2> QED BY <1>1, <1>2 DEF Heap, Made, new
<1> HIDE DEF m
<1>5. n \in Channel /\ n # 0 /\ ~h.got[n] /\ h.written[n] = "none"
  BY FreshNumber
<1>6. m \in Heap /\ m.promise[k] = new /\ new.channel = n
  BY <1>2, <1>3, <1>4, HeapParts DEF Good, NewPromise
<1>7. Good(y)
  <2>1. m.promise[k].channel = n /\ n # 0 /\ ~m.got[n] /\ ~m.future[g].alive
    BY <1>4, <1>5, <1>6
  <2>2. y = GotFuture(m, k, g)
    BY DEF m
  <2> HIDE DEF n, new, next, got
  <2> QED BY <1>2, <1>3, <2>1, <2>2, GotFutureKeeps
<1>8. /\ y.promise = [h.promise EXCEPT ![k] = next] /\ y.future = [h.future EXCEPT ![g] = got]
      /\ y.cont = r.cont /\ y.queue = h.queue /\ y.made = n
      /\ y.got = [h.got EXCEPT ![n] = TRUE] /\ y.written = h.written /\ y.read = h.read
      /\ y \in Heap
  <2>1. y = [m EXCEPT !.got[n] = TRUE, !.promise[k].future = g, !.future[g] = got]
    <3> DEFINE t == [m EXCEPT !.got[n] = TRUE]
    <3>1. t.promise[k].channel = n
      BY <1>6 DEF Heap
    <3>2. y = Linked(t, k, g)
      BY <1>6 DEF GotFuture, m
    <3> HIDE DEF n, got
    <3> QED BY <3>1, <3>2 DEF Linked, got
  <2> HIDE DEF got, new, next
  <2>2. /\ y.promise = [m.promise EXCEPT ![k] = [m.promise[k] EXCEPT !.future = g]]
        /\ y.future = [m.future EXCEPT ![g] = got] /\ y.got = [m.got EXCEPT ![n] = TRUE]
        /\ y.cont = m.cont /\ y.queue = m.queue /\ y.made = m.made /\ y.written = m.written
        /\ y.read = m.read
    BY <1>6, <2>1 DEF Heap
  <2>3. y.promise = [h.promise EXCEPT ![k] = next]
    <3>1. y.promise = [[h.promise EXCEPT ![k] = new] EXCEPT ![k] = next]
      BY <1>4, <1>6, <2>2 DEF next
    <3> QED BY <1>2, <3>1, HeapParts
  <2> QED BY <1>4, <1>7, <2>2, <2>3 DEF Good
<1>9. /\ b.promise = y.promise /\ b.future = y.future /\ b.cont = h.cont /\ b.queue = y.queue
      /\ b.made = y.made /\ b.got = y.got /\ b.written = y.written /\ b.read = y.read
      /\ b = [h EXCEPT !.promise = b.promise, !.future = b.future, !.made = b.made, !.got = b.got]
  <2> DEFINE c == Made(h, k)
  <2>1. /\ c.promise = [h.promise EXCEPT ![k] = new] /\ c.made = n /\ c.future = h.future
        /\ c.cont = h.cont /\ c.queue = h.queue /\ c.got = h.got /\ c.written = h.written
        /\ c.read = h.read /\ c = [h EXCEPT !.promise = c.promise, !.made = c.made]
    <3> HIDE DEF new
    <3> QED BY <1>2 DEF Heap, Made, new
  <2> HIDE DEF c
  <2>2. c.promise[k] = new
    BY <1>2, <2>1, HeapParts
  <2> DEFINE t == [c EXCEPT !.got[n] = TRUE]
  <2>3. t.promise[k].channel = n
    BY <1>2, <1>6, <2>1, <2>2 DEF Heap
  <2>4. b = Linked(t, k, g)
    BY <1>6, <2>2 DEF GotFuture, c
  <2>5. b = [c EXCEPT !.got[n] = TRUE, !.promise[k].future = g, !.future[g] = got]
    <3> HIDE DEF n, got
    <3> QED BY <2>3, <2>4 DEF Linked, got
  <2> HIDE DEF got, new, next, t
  <2>6. /\ b.promise = [c.promise EXCEPT ![k] = [c.promise[k] EXCEPT !.future = g]]
        /\ b.future = [c.future EXCEPT ![g] = got] /\ b.got = [c.got EXCEPT ![n] = TRUE]
        /\ b.cont = c.cont /\ b.queue = c.queue /\ b.made = c.made /\ b.written = c.written
        /\ b.read = c.read
        /\ b = [c EXCEPT !.promise = b.promise, !.future = b.future, !.got = b.got]
    BY <1>2, <2>1, <2>5 DEF Heap
  <2>8. b = [h EXCEPT !.promise = b.promise, !.future = b.future, !.made = b.made, !.got = b.got]
    <3>1. c = [h EXCEPT !.promise = c.promise, !.made = c.made]
      BY <2>1
    <3>2. b = [c EXCEPT !.promise = b.promise, !.future = b.future, !.got = b.got]
      BY <2>6
    <3>3. b = [[h EXCEPT !.promise = c.promise, !.made = c.made]
                 EXCEPT !.promise = b.promise, !.future = b.future, !.got = b.got]
      BY <3>1, <3>2
    <3>4. b = [h EXCEPT !.promise = b.promise, !.future = b.future, !.made = c.made, !.got = b.got]
      BY <1>2, <3>3, ChangedTwice
    <3> QED BY <2>6, <3>4
  <2>7. b.promise = [h.promise EXCEPT ![k] = next]
    <3>1. b.promise = [[h.promise EXCEPT ![k] = new] EXCEPT ![k] = next]
      BY <2>1, <2>2, <2>6 DEF next
    <3> QED BY <1>2, <3>1, HeapParts
  <2> QED BY <1>8, <2>1, <2>6, <2>7, <2>8
<1> HIDE DEF got, new, next
<1>10. b = [y EXCEPT !.cont = h.cont]
  <2>1. b = [h EXCEPT !.promise = y.promise, !.future = y.future, !.made = y.made, !.got = y.got]
    BY <1>9
  <2>2. h \in Heap /\ y \in Heap /\ y.queue = h.queue /\ y.written = h.written /\ y.read = h.read
    BY <1>2, <1>8
  <2>3. [h EXCEPT !.promise = y.promise, !.future = y.future, !.made = y.made, !.got = y.got]
          = [y EXCEPT !.cont = h.cont]
    BY <2>2, OtherConts
  <2> QED BY <2>1, <2>3
<1>11. y.promise[k] = next /\ next.channel = n
  BY <1>2, <1>8, HeapParts DEF next, new, NewPromise
<1>12. Open(y, k)
  BY <1>1, <1>5, <1>8, <1>11 DEF Open, Waits
<1>13. /\ \A e \in Future : e # g => y.future[e] = h.future[e]
       /\ \A p \in Writer : p # k => y.promise[p] = h.promise[p]
  BY <1>2, <1>8, HeapParts
<1> QED BY <1>1, <1>2, <1>7, <1>8, <1>10, <1>12, <1>13

\* What then() has made when it looks at the future f, but for the continuation;
\* the continuation; and both.
ChainAhead(h, g, k) == GotFuture(Made(WithRoom(h, k), k), k, g)

ChainCont(h, f, w) ==
  [stage |-> "attached", state |-> "future", wrapped |-> w, channel |-> h.future[f].channel]

ChainBase(h, f, g, k, w) ==
  [GotFuture(Made(h, k), k, g) EXCEPT !.future[f].channel = 0, !.cont[k] = ChainCont(h, f, w)]

LEMMA ChainSpent ==
  ASSUME NEW h, Good(h), NEW k \in Cont, h.cont[k].stage = "none", h.made < Channels,
         NEW f \in Future, h.future[f].channel # 0, NEW g \in Future, ~h.future[g].alive,
         NEW w \in BOOLEAN, NEW y, y = ChainAhead(h, g, k), NEW m, m = Used(y, f),
         NEW chained, chained = ChainBase(h, f, g, k, w)
  PROVE  /\ Good(y) /\ Spent(y, m, f) /\ y.future[f] = h.future[f] /\ FutureState(y, f) = FutureState(h, f)
         /\ y.cont = [h.cont EXCEPT ![k] = Room] /\ y.queue = h.queue
         /\ y.written = h.written /\ y.read = h.read /\ Open(y, k) /\ y.cont[k].stage = "done"
         /\ m.read = y.read /\ m.future[f].promise = h.future[f].promise
         /\ h.future[f].promise # Null => y.promise[h.future[f].promise] = h.promise[h.future[f].promise]
         /\ chained \in Heap /\ chained.promise = m.promise /\ chained.future = m.future
         /\ chained.cont = [h.cont EXCEPT ![k] = ChainCont(h, f, w)] /\ ChainCont(h, f, w) \in ContRecord
         /\ chained.queue = m.queue /\ chained.made = m.made /\ chained.got = m.got
         /\ chained.written = m.written /\ chained.read = m.read
<1> DEFINE n == h.future[f].channel
           p == h.future[f].promise
           c == ChainCont(h, f, w)
           b == GotFuture(Made(h, k), k, g)
<1>1. /\ Good(y) /\ y.cont = [h.cont EXCEPT ![k] = Room] /\ y.queue = h.queue
      /\ y.written = h.written /\ y.read = h.read /\ Open(y, k) /\ y.cont[k].stage = "done"
      /\ \A e \in Future : e # g => y.future[e] = h.future[e]
      /\ h.promise[k] = NoPromise
      /\ \A q \in Writer : q # k => y.promise[q] = h.promise[q]
      /\ b = [y EXCEPT !.cont = h.cont]
  BY ChainMade DEF ChainAhead
<1>2. /\ h.future[f].alive /\ f # g /\ y \in Heap /\ h \in Heap /\ f # Null
      /\ h.future[f] \in FutureRecord
  BY <1>1, UsableFacts, HeapParts, FuturesAssumption DEF Good
<1>3. y.future[f] = h.future[f]
  BY <1>1, <1>2
<1>4. p # Null => p \in Writer /\ p # k /\ y.promise[p] = h.promise[p] /\ h.promise[p].state = "local"
  <2>1. p # Null => p \in Writer /\ h.promise[p].future = f /\ h.promise[p].state = "local"
    BY FutureStateFacts
  <2> QED BY <1>1, <1>2, <2>1 DEF NoPromise
<1>5. FutureState(y, f) = FutureState(h, f)
  BY <1>3, <1>4 DEF FutureState, StateAt
<1>6. /\ m \in Heap /\ SameRest(y, m) /\ m.promise = y.promise
      /\ m.future = [y.future EXCEPT ![f] = [y.future[f] EXCEPT !.channel = 0]]
  BY <1>2, UsedEffects
<1>7. Spent(y, m, f) /\ m.read = y.read
  BY <1>6 DEF Spent, SameRest
<1>8. m.future[f].promise = p
  BY <1>1, <1>3, <1>7, SpentFacts
<1> HIDE DEF b
<1>9. /\ chained.future = [y.future EXCEPT ![f] = [y.future[f] EXCEPT !.channel = 0]]
      /\ chained.cont = [h.cont EXCEPT ![k] = c] /\ chained.promise = y.promise
      /\ chained.queue = y.queue /\ chained.made = y.made /\ chained.got = y.got
      /\ chained.written = y.written /\ chained.read = y.read
      /\ chained = [y EXCEPT !.future = chained.future, !.cont = chained.cont]
  <2>1. chained = [b EXCEPT !.future[f].channel = 0, !.cont[k] = c]
    BY DEF b, ChainBase
  <2>2. /\ b.cont = h.cont /\ b.future = y.future /\ b.promise = y.promise /\ b.queue = y.queue
        /\ b.made = y.made /\ b.got = y.got /\ b.written = y.written /\ b.read = y.read
    BY <1>1, <1>2 DEF Heap
  <2> HIDE DEF c
  <2> QED BY <1>1, <1>2, <2>1, <2>2 DEF Heap
<1>10. c \in ContRecord
  <2>1. n \in 0 .. Channels
    BY <1>2 DEF FutureRecord
  <2> HIDE DEF n
  <2> QED BY <2>1 DEF ContRecord, State, ChainCont, n
<1> HIDE DEF c
<1>11. chained \in Heap
  <2>1. chained.cont \in [Cont -> ContRecord]
    <3>1. h.cont \in [Cont -> ContRecord]
      BY <1>2, HeapParts
    <3> QED BY <1>9, <1>10, <3>1
  <2>2. chained.future \in [Future -> FutureRecord]
    <3>1. m.future \in [Future -> FutureRecord]
      BY <1>6, HeapParts
    <3> QED BY <1>6, <1>9, <3>1
  <2> QED BY <1>2, <1>9, <2>1, <2>2 DEF Heap
<1> QED BY <1>1, <1>3, <1>4, <1>5, <1>6, <1>7, <1>8, <1>9, <1>10, <1>11 DEF c, SameRest

\* What then() leaves alone.
ChainLeaves(h, g) ==
  /\ g.written = h.written /\ g.read = h.read
  /\ \A c \in Cont : Waits(h, c) => g.cont[c] = h.cont[c]

\* The continuation gets the result, and is put in the queue.
ScheduledIn(z, k, s) ==
  [z EXCEPT !.cont[k].stage = "scheduled", !.cont[k].state = s, !.queue = Append(@, k)]

\* The same, field by field.
Schedules(z, k, s, x) ==
  /\ x.cont = [z.cont EXCEPT ![k] = [z.cont[k] EXCEPT !.stage = "scheduled", !.state = s]]
  /\ x.queue = Append(z.queue, k) /\ x.promise = z.promise /\ x.future = z.future
  /\ x.made = z.made /\ x.got = z.got /\ x.written = z.written /\ x.read = z.read
  /\ x = [z EXCEPT !.cont = x.cont, !.queue = x.queue]

\* What schedule() changes, and nothing else.
LEMMA ScheduledEffects ==
  ASSUME NEW z \in Heap, NEW k \in Cont, NEW s,
         NEW x, x = ScheduledIn(z, k, s)
  PROVE  Schedules(z, k, s, x)
<1> DEFINE a == [z.cont[k] EXCEPT !.stage = "scheduled"]
           b == [z.cont[k] EXCEPT !.stage = "scheduled", !.state = s]
           c == [z.cont EXCEPT ![k] = a]
<1>1. z.cont \in [Cont -> ContRecord]
  BY HeapParts
<1>2. c[k] = a /\ [a EXCEPT !.state = s] = b
  BY <1>1
<1>3. /\ x.cont = [c EXCEPT ![k] = [c[k] EXCEPT !.state = s]]
      /\ x.queue = Append(z.queue, k) /\ x.promise = z.promise /\ x.future = z.future
      /\ x.made = z.made /\ x.got = z.got /\ x.written = z.written /\ x.read = z.read
      /\ x = [z EXCEPT !.cont = x.cont, !.queue = x.queue]
  BY DEF Heap, ScheduledIn
<1> HIDE DEF a, b, c
<1>4. x.cont = [c EXCEPT ![k] = b]
  BY <1>2, <1>3
<1>5. x.cont = [z.cont EXCEPT ![k] = b]
  BY <1>1, <1>4 DEF c
<1> QED BY <1>3, <1>5 DEF b, Schedules

\* then() of a future whose result is there.
LEMMA ChainedNowKeeps ==
  ASSUME NEW h, Good(h), NEW k \in Cont, h.cont[k].stage = "none", h.made < Channels,
         NEW f \in Future, h.future[f].channel # 0, NEW g \in Future, ~h.future[g].alive,
         NEW w \in BOOLEAN, Available(FutureState(h, f)), NEW x, x = Chained(h, f, g, k, w)
  PROVE  Good(x) /\ ChainLeaves(h, x)
<1> DEFINE n == h.future[f].channel
           p == h.future[f].promise
           s == FutureState(h, f)
           y == ChainAhead(h, g, k)
           m == Used(y, f)
           attached == ChainCont(h, f, w)
           now == [attached EXCEPT !.stage = "scheduled", !.state = s]
           chained == ChainBase(h, f, g, k, w)
           e == PutFutureState(m, f, "invalid")
           z == PutFutureState(chained, f, "invalid")
<1>1. /\ Good(y) /\ Spent(y, m, f) /\ y.future[f] = h.future[f] /\ FutureState(y, f) = FutureState(h, f)
      /\ y.cont = [h.cont EXCEPT ![k] = Room] /\ y.queue = h.queue
      /\ y.written = h.written /\ y.read = h.read /\ Open(y, k) /\ y.cont[k].stage = "done"
      /\ m.read = y.read /\ m.future[f].promise = p
      /\ p # Null => y.promise[p] = h.promise[p]
      /\ chained \in Heap /\ chained.promise = m.promise /\ chained.future = m.future
      /\ chained.cont = [h.cont EXCEPT ![k] = attached] /\ attached \in ContRecord
      /\ chained.queue = m.queue /\ chained.made = m.made /\ chained.got = m.got
      /\ chained.written = m.written /\ chained.read = m.read
  BY ChainSpent
<1>2. x = ScheduledIn(z, k, s)
  BY DEF Chained, ChainBase, ChainCont, ScheduledIn
<1> HIDE DEF y, m, chained, e, z
<1>3. /\ h \in Heap /\ h.future[f].alive /\ y \in Heap /\ m \in Heap /\ "invalid" \in State
      /\ n # 0 /\ n \in Channel /\ s \in Outcome /\ s = h.written[n]
      /\ p # Null => p \in Writer /\ h.promise[p].channel = n /\ h.promise[p].state = "local"
  <2>1. h.future[f].alive /\ n \in Channel /\ s \in Outcome /\ s = h.written[n]
    BY UsableFacts
  <2>2. p # Null => p \in Writer /\ h.promise[p].channel = n
    BY UsableFacts, FutureStateFacts
  <2>3. p # Null => h.promise[p].state = "local"
    BY FutureStateFacts
  <2>4. h \in Heap /\ y \in Heap /\ m \in Heap
    BY <1>1 DEF Good, Spent
  <2> QED BY <2>1, <2>2, <2>3, <2>4 DEF State
<1>4. m.promise = y.promise
  BY <1>1 DEF Spent
<1> HIDE DEF n, p, s
<1>5. /\ e \in Heap /\ LetGo(y, e, f) /\ e.read = y.read
      /\ p # Null => e.promise[p].local = "invalid"
  BY <1>1, <1>3, EmptiedLetsGo DEF e, p, s
<1>6. Good(e)
  BY <1>1, <1>5, LetGoKeeps
<1>7. /\ z \in Heap /\ z.promise = e.promise /\ z.future = e.future
      /\ SameRest(chained, z) /\ SameRest(m, e)
  <2>1. p # Null => m.promise[p].state = "local" /\ chained.promise[p].state = "local"
    BY <1>1, <1>3, <1>4
  <2>2. /\ SameRest(m, e)
        /\ p # Null => /\ e.promise = [m.promise EXCEPT ![p] = [m.promise[p] EXCEPT !.local = "invalid"]]
                       /\ e.future = m.future
        /\ p = Null => /\ e.promise = m.promise
                       /\ e.future = [m.future EXCEPT ![f] = [m.future[f] EXCEPT !.local = "invalid"]]
    <3>1. /\ m \in Heap /\ "invalid" \in State /\ m.future[f].promise = p
          /\ p # Null => m.promise[p].state = "local"
      BY <1>1, <1>3, <2>1
    <3> QED BY <3>1, PutEffects DEF e
  <2>3. /\ z \in Heap /\ SameRest(chained, z)
        /\ p # Null => /\ z.promise = [chained.promise EXCEPT ![p] = [chained.promise[p] EXCEPT !.local = "invalid"]]
                       /\ z.future = chained.future
        /\ p = Null => /\ z.promise = chained.promise
                       /\ z.future = [chained.future EXCEPT ![f] = [chained.future[f] EXCEPT !.local = "invalid"]]
    <3>1. /\ chained \in Heap /\ "invalid" \in State /\ chained.future[f].promise = p
          /\ p # Null => chained.promise[p].state = "local"
      BY <1>1, <1>3, <2>1
    <3> QED BY <3>1, PutEffects DEF z
  <2> QED BY <1>1, <2>2, <2>3
<1>8. z.cont = [h.cont EXCEPT ![k] = attached] /\ z.queue = h.queue /\ e.cont = y.cont /\ e.queue = h.queue
        /\ z.made = e.made /\ z.got = e.got /\ z.written = e.written /\ z.read = e.read
        /\ e.written = h.written /\ e.read = h.read
  <2>1. m.cont = y.cont /\ m.queue = y.queue /\ m.written = y.written
    BY <1>1 DEF Spent
  <2> HIDE DEF attached
  <2> QED BY <1>1, <1>7, <2>1 DEF SameRest
<1>9. /\ x.cont = [h.cont EXCEPT ![k] = now] /\ x.queue = Append(h.queue, k)
      /\ x.promise = e.promise /\ x.future = e.future /\ x.made = e.made /\ x.got = e.got
      /\ x.written = h.written /\ x.read = h.read
      /\ x = [z EXCEPT !.cont = x.cont, !.queue = x.queue]
  <2>1. h.cont \in [Cont -> ContRecord] /\ z.cont \in [Cont -> ContRecord]
    BY <1>3, <1>7, HeapParts
  <2>2. z.cont[k] = attached
    BY <1>8, <2>1
  <2>3. [z.cont[k] EXCEPT !.stage = "scheduled", !.state = s] = now
    BY <2>2
  <2> HIDE DEF attached, now
  <2>4. /\ x.cont = [z.cont EXCEPT ![k] = [z.cont[k] EXCEPT !.stage = "scheduled", !.state = s]]
        /\ x.queue = Append(z.queue, k) /\ x.promise = z.promise /\ x.future = z.future
        /\ x.made = z.made /\ x.got = z.got /\ x.written = z.written /\ x.read = z.read
        /\ x = [z EXCEPT !.cont = x.cont, !.queue = x.queue]
    <3>1. z \in Heap
      BY <1>7
    <3>2. Schedules(z, k, s, x)
      BY <1>2, <3>1, ScheduledEffects
    <3> QED BY <3>2 DEF Schedules
  <2>5. x.cont = [[h.cont EXCEPT ![k] = attached] EXCEPT ![k] = now]
    BY <1>8, <2>3, <2>4
  <2>6. x.cont = [h.cont EXCEPT ![k] = now]
    BY <2>1, <2>5
  <2> QED BY <1>7, <1>8, <2>4, <2>6
<1>10. now \in ContRecord /\ now.stage = "scheduled" /\ now.state = s /\ now.channel = n
  <2>1. attached \in ContRecord /\ attached.channel = n
    BY <1>1 DEF ChainCont, n
  <2>2. s \in State
    BY <1>3 DEF Outcome, State
  <2> HIDE DEF attached
  <2> QED BY <2>1, <2>2 DEF ContRecord
<1>11. x \in Heap
  <2> HIDE DEF now
  <2>1. x.cont \in [Cont -> ContRecord] /\ x.queue \in Seq(Cont)
    BY <1>3, <1>9, <1>10, HeapParts, AppendProperties
  <2> QED BY <1>7, <1>9, <2>1 DEF Heap
<1>12. Unread(e, n) /\ e.written[n] = s
  BY <1>1, <1>3, <1>5, <1>8, UnreadAfter DEF n
<1>13. \A q \in Writer : e.promise[q].channel = n => ~Available(e.promise[q].local)
  <2> SUFFICES ASSUME NEW q \in Writer, e.promise[q].channel = n PROVE ~Available(e.promise[q].local)
    OBVIOUS
  <2>1. CASE p = Null
    <3>1. \A r \in Writer : r # p => e.promise[r] = y.promise[r]
      <4>1. y.future[f].promise = p
        BY <1>1 DEF p
      <4> QED BY <1>5, <4>1 DEF LetGo
    <3>2. \A r \in Writer : y.promise[r].channel # n
      <4>1. ReaderReaches(y, f)
        BY <1>1 DEF Good, Readers
      <4>2. y.future[f].channel = n /\ y.future[f].promise = Null
        BY <1>1, <2>1 DEF n, p
      <4> QED BY <1>3, <4>1, <4>2 DEF ReaderReaches
    <3> QED BY <2>1, <3>1, <3>2, FuturesAssumption DEF Writer
  <2>2. CASE p # Null
    <3>1. e.promise[p].channel = n
      <4>1. e.promise[p].channel = y.promise[p].channel
        BY <1>1, <1>5, <2>2 DEF LetGo, p
      <4> QED BY <1>1, <1>3, <2>2, <4>1
    <3>2. q = p
      BY <1>3, <1>6, <2>2, <3>1 DEF Good, Writers, OneWriter
    <3> QED BY <1>5, <2>2, <3>2 DEF Available
  <2> QED BY <2>1, <2>2
<1>14. Open(e, k) /\ e.cont[k].stage = "done"
  <2>1. /\ e.cont[k].stage = "done" /\ ~Waits(e, k)
    BY <1>1, <1>8 DEF Waits
  <2>2. e.promise[k].channel = y.promise[k].channel
    <3>1. CASE k = p
      <4>1. p # Null /\ y.future[f].promise = p
        BY <1>1, <3>1, FuturesAssumption DEF p
      <4> QED BY <1>5, <3>1, <4>1 DEF LetGo
    <3>2. CASE k # p
      <4>1. y.future[f].promise = p /\ k \in Writer
        BY <1>1 DEF p, Writer
      <4> QED BY <1>5, <3>2, <4>1 DEF LetGo
    <3> QED BY <3>1, <3>2
  <2>3. e.written = y.written
    BY <1>1, <1>8
  <2> QED BY <1>1, <2>1, <2>2, <2>3 DEF Open
<1>15. /\ x.cont[k] = now
       /\ \A c \in Cont : c # k => x.cont[c] = h.cont[c] /\ e.cont[c] = h.cont[c]
  <2> HIDE DEF now
  <2> QED BY <1>1, <1>3, <1>8, <1>9, HeapParts
<1>16. /\ x.cont[k].stage = "scheduled" /\ x.cont[k].state = s /\ x.cont[k].channel = n
       /\ \A c \in Cont : c # k => x.cont[c] = e.cont[c]
  BY <1>10, <1>15
<1>17. Good(x)
  <2>1. /\ x.queue = Append(e.queue, k) /\ x.promise = e.promise /\ x.future = e.future
        /\ x.made = e.made /\ x.got = e.got /\ x.written = e.written /\ x.read = e.read
    BY <1>8, <1>9
  <2>2. s \in Outcome /\ e.written[n] = s /\ Unread(e, n)
    BY <1>3, <1>12
  <2> HIDE DEF now, attached
  <2> QED BY <1>6, <1>11, <1>13, <1>14, <1>16, <2>1, <2>2, ScheduledKeeps
<1>18. ChainLeaves(h, x)
  <2>1. \A c \in Cont : Waits(h, c) => c # k
    BY DEF Waits
  <2> QED BY <1>9, <1>15, <2>1 DEF ChainLeaves
<1> QED BY <1>17, <1>18

\* then() of a future whose result is still to come.
LEMMA ChainedLaterKeeps ==
  ASSUME NEW h, Good(h), NEW k \in Cont, h.cont[k].stage = "none", h.made < Channels,
         NEW f \in Future, h.future[f].channel # 0, NEW g \in Future, ~h.future[g].alive,
         NEW w \in BOOLEAN, ~Available(FutureState(h, f)), NEW x, x = Chained(h, f, g, k, w)
  PROVE  Good(x) /\ ChainLeaves(h, x)
<1> DEFINE n == h.future[f].channel
           p == h.future[f].promise
           y == ChainAhead(h, g, k)
           m == Used(y, f)
           attached == ChainCont(h, f, w)
           chained == ChainBase(h, f, g, k, w)
           e == Unlinked(m, f)
           z == Unlinked(chained, f)
<1>1. /\ Good(y) /\ Spent(y, m, f) /\ y.future[f] = h.future[f] /\ FutureState(y, f) = FutureState(h, f)
      /\ y.cont = [h.cont EXCEPT ![k] = Room] /\ y.queue = h.queue
      /\ y.written = h.written /\ y.read = h.read /\ Open(y, k) /\ y.cont[k].stage = "done"
      /\ m.read = y.read /\ m.future[f].promise = p
      /\ p # Null => y.promise[p] = h.promise[p]
      /\ chained \in Heap /\ chained.promise = m.promise /\ chained.future = m.future
      /\ chained.cont = [h.cont EXCEPT ![k] = attached] /\ attached \in ContRecord
      /\ chained.queue = m.queue /\ chained.made = m.made /\ chained.got = m.got
      /\ chained.written = m.written /\ chained.read = m.read
  BY ChainSpent
<1>2. x = [z EXCEPT !.promise[p].state = "task", !.promise[p].task = k]
  BY DEF Chained, ChainBase, ChainCont
<1>3. attached.stage = "attached" /\ attached.state = "future" /\ attached.channel = n
  BY DEF ChainCont
<1> HIDE DEF y, m, chained, e, z, attached
<1>4. /\ h \in Heap /\ h.future[f].alive /\ y \in Heap /\ m \in Heap
      /\ n # 0 /\ n \in Channel /\ h.written[n] = "none"
      /\ p # Null /\ p \in Writer /\ h.promise[p].channel = n /\ h.promise[p].state = "local"
  <2>1. /\ h.future[f].alive /\ n \in Channel /\ h.written[n] = "none"
        /\ p # Null /\ p \in Writer /\ h.promise[p].channel = n
    BY UsableFacts
  <2>2. h.promise[p].state = "local"
    <3>1. h.future[f].promise # Null
      BY <2>1
    <3> QED BY <3>1, FutureStateFacts
  <2>3. h \in Heap /\ y \in Heap /\ m \in Heap
    BY <1>1 DEF Good, Spent
  <2> QED BY <2>1, <2>2, <2>3
<1>5. m.promise = y.promise /\ y.promise[p] = h.promise[p] /\ y.future[f].promise = p /\ y.future[f].alive
  BY <1>1, <1>4 DEF Spent
<1> HIDE DEF n, p
<1>6. LetGo(y, m, f) /\ m.future[f].promise = y.future[f].promise /\ m.future[f].alive
  BY <1>1, <1>5, UsedLetsGo
<1>7. e \in Heap /\ LetGo(y, e, f) /\ e.read = m.read
  BY <1>1, <1>4, <1>5, <1>6, UnlinkedLetsGo DEF e
<1>8. Good(e)
  BY <1>1, <1>7, LetGoKeeps
<1>9. /\ z \in Heap /\ z.promise = e.promise /\ z.future = e.future
      /\ SameRest(chained, z) /\ SameRest(m, e)
      /\ e.promise = [m.promise EXCEPT ![p] = [m.promise[p] EXCEPT !.future = Null]]
  <2>1. /\ SameRest(m, e)
        /\ e.promise = [m.promise EXCEPT ![p] = [m.promise[p] EXCEPT !.future = Null]]
        /\ e.future = [m.future EXCEPT ![f] = [m.future[f] EXCEPT !.promise = Null]]
    <3>1. m \in Heap /\ p = m.future[f].promise /\ p # Null
      BY <1>1, <1>4
    <3> QED BY <3>1, UnlinkedEffects DEF e
  <2>2. /\ z \in Heap /\ SameRest(chained, z)
        /\ z.promise = [chained.promise EXCEPT ![p] = [chained.promise[p] EXCEPT !.future = Null]]
        /\ z.future = [chained.future EXCEPT ![f] = [chained.future[f] EXCEPT !.promise = Null]]
    <3>1. chained \in Heap /\ p = chained.future[f].promise /\ p # Null
      BY <1>1, <1>4
    <3> QED BY <3>1, UnlinkedEffects DEF z
  <2> QED BY <1>1, <2>1, <2>2
<1>10. z.cont = [h.cont EXCEPT ![k] = attached] /\ z.queue = h.queue /\ e.cont = y.cont /\ e.queue = h.queue
        /\ z.made = e.made /\ z.got = e.got /\ z.written = e.written /\ z.read = e.read
        /\ e.written = h.written /\ e.read = h.read
  <2>1. m.cont = y.cont /\ m.queue = y.queue /\ m.written = y.written
    BY <1>1 DEF Spent
  <2> QED BY <1>1, <1>9, <2>1 DEF SameRest
<1>11. /\ e.promise[p].channel = n /\ e.promise[p].state = "local" /\ e.promise[p].future = Null
       /\ e.promise[p] \in PromiseRecord
  <2>1. h.promise[p] \in PromiseRecord /\ m.promise[p] = h.promise[p]
    BY <1>4, <1>5, HeapParts
  <2>2. e.promise[p] = [h.promise[p] EXCEPT !.future = Null] /\ e.promise[p] \in PromiseRecord
    <3>1. m.promise \in [Writer -> PromiseRecord] /\ e.promise \in [Writer -> PromiseRecord]
      BY <1>4, <1>7, HeapParts
    <3> QED BY <1>4, <1>9, <2>1, <3>1
  <2> QED BY <1>4, <2>1, <2>2 DEF PromiseRecord
<1>12. /\ x.promise = [e.promise EXCEPT ![p] = [e.promise[p] EXCEPT !.state = "task", !.task = k]]
       /\ x.cont = z.cont /\ x.queue = e.queue /\ x.future = e.future
       /\ x.made = e.made /\ x.got = e.got /\ x.written = e.written /\ x.read = e.read
       /\ x = [z EXCEPT !.promise = x.promise]
  <2>1. e.promise \in [Writer -> PromiseRecord]
    BY <1>7, HeapParts
  <2>2. /\ x.promise = [z.promise EXCEPT ![p] = [z.promise[p] EXCEPT !.state = "task", !.task = k]]
        /\ x.cont = z.cont /\ x.queue = z.queue /\ x.future = z.future
        /\ x.made = z.made /\ x.got = z.got /\ x.written = z.written /\ x.read = z.read
        /\ x = [z EXCEPT !.promise = x.promise]
    <3> DEFINE a == [z.promise[p] EXCEPT !.state = "task"]
               b == [z.promise[p] EXCEPT !.state = "task", !.task = k]
               t == [z EXCEPT !.promise[p].state = "task"]
    <3>1. x = [t EXCEPT !.promise[p].task = k]
      BY <1>2
    <3>2. /\ t.promise = [z.promise EXCEPT ![p] = a]
          /\ t.cont = z.cont /\ t.queue = z.queue /\ t.future = z.future
          /\ t.made = z.made /\ t.got = z.got /\ t.written = z.written /\ t.read = z.read
          /\ t = [z EXCEPT !.promise = t.promise]
      <4> HIDE DEF a
      <4> QED BY <1>9 DEF Heap, a
    <3> HIDE DEF t
    <3>3. t.promise[p] = a /\ z.promise[p] \in PromiseRecord
      BY <1>4, <1>9, <1>11, <2>1, <3>2
    <3>4. [a EXCEPT !.task = k] = b
      BY <3>3 DEF PromiseRecord
    <3> HIDE DEF a, b
    <3>5. /\ x.promise = [t.promise EXCEPT ![p] = [t.promise[p] EXCEPT !.task = k]]
          /\ x.cont = z.cont /\ x.queue = z.queue /\ x.future = z.future
          /\ x.made = z.made /\ x.got = z.got /\ x.written = z.written /\ x.read = z.read
          /\ x = [z EXCEPT !.promise = x.promise]
      BY <1>9, <3>1, <3>2 DEF Heap
    <3>6. x.promise = [z.promise EXCEPT ![p] = b]
      BY <1>4, <1>9, <2>1, <3>2, <3>3, <3>4, <3>5
    <3> QED BY <3>5, <3>6 DEF b
  <2> QED BY <1>9, <1>10, <2>2
<1>13. x \in Heap
  <2>1. [e.promise[p] EXCEPT !.state = "task", !.task = k] \in PromiseRecord
    BY <1>11 DEF PromiseRecord
  <2>2. x.promise \in [Writer -> PromiseRecord]
    <3>1. e.promise \in [Writer -> PromiseRecord]
      BY <1>7, HeapParts
    <3> QED BY <1>4, <1>12, <2>1, <3>1
  <2> QED BY <1>9, <1>12, <2>2 DEF Heap
<1>14. Unread(e, n) /\ e.written[n] = "none"
  BY <1>1, <1>4, <1>7, <1>10, UnreadAfter DEF n
<1>15. Open(e, k) /\ e.cont[k].stage = "done"
  <2>1. /\ e.cont[k].stage = "done" /\ ~Waits(e, k)
    BY <1>1, <1>10 DEF Waits
  <2>2. e.promise[k].channel = y.promise[k].channel
    <3>1. CASE k = p
      BY <1>4, <1>5, <1>7, <3>1 DEF LetGo
    <3>2. CASE k # p
      BY <1>5, <1>7, <3>2 DEF LetGo, Writer
    <3> QED BY <3>1, <3>2
  <2>3. e.written = y.written
    BY <1>1, <1>10
  <2> QED BY <1>1, <2>1, <2>2, <2>3 DEF Open
<1>16. /\ x.cont[k].stage = "attached" /\ x.cont[k].state = "future" /\ x.cont[k].channel = n
       /\ \A c \in Cont : c # k => x.cont[c] = e.cont[c] /\ x.cont[c] = h.cont[c]
  <2>1. /\ x.cont[k] = attached
        /\ \A c \in Cont : c # k => x.cont[c] = h.cont[c] /\ e.cont[c] = h.cont[c]
    BY <1>1, <1>4, <1>10, <1>12, HeapParts
  <2> QED BY <1>3, <2>1
<1>17. Good(x)
  <2>1. x.queue = e.queue /\ x.future = e.future
        /\ x.made = e.made /\ x.got = e.got /\ x.written = e.written /\ x.read = e.read
        /\ x.promise = Pointing(e, p, k)
    BY <1>12 DEF Pointing
  <2>2. /\ x.cont[k].stage = "attached" /\ x.cont[k].state = "future" /\ x.cont[k].channel = n
        /\ \A c \in Cont : c # k => x.cont[c] = e.cont[c]
    BY <1>16
  <2>3. p \in Writer /\ e.promise[p].channel = n /\ e.promise[p].state = "local" /\ e.promise[p].future = Null
    BY <1>4, <1>11
  <2> QED BY <1>8, <1>13, <1>14, <1>15, <2>1, <2>2, <2>3, AttachedKeeps
<1>18. ChainLeaves(h, x)
  <2>1. \A c \in Cont : Waits(h, c) => c # k
    BY DEF Waits
  <2> QED BY <1>10, <1>12, <1>16, <2>1 DEF ChainLeaves
<1> QED BY <1>17, <1>18

-----------------------------------------------------------------------------
(* The calls that are made of several functions.                           *)

\* First results are read, then others are written.
Passes(h, g) == \E m : Reads(h, m) /\ Writes(m, g)

LEMMA PassesFirst ==
  ASSUME NEW h, Good(h), NEW m, Reads(h, m), NEW g, Passes(m, g)
  PROVE  Passes(h, g)
<1>1. PICK r : Reads(m, r) /\ Writes(r, g)
  BY DEF Passes
<1>2. Reads(h, r)
  BY <1>1, ReadsInARow
<1> QED BY <1>1, <1>2 DEF Passes

LEMMA PassesLast ==
  ASSUME NEW h, NEW m, Passes(h, m), NEW g, Writes(m, g)
  PROVE  Passes(h, g)
<1>1. PICK r : Reads(h, r) /\ Writes(r, m)
  BY DEF Passes
<1>2. Writes(r, g)
  BY <1>1, WritesInARow
<1> QED BY <1>1, <1>2 DEF Passes

LEMMA WritesPasses == ASSUME NEW h, NEW g, Writes(h, g) PROVE Passes(h, g)
<1>1. Reads(h, h)
  BY DEF Reads
<1> QED BY <1>1 DEF Passes

LEMMA ReadsPasses == ASSUME NEW h, NEW g, Reads(h, g) PROVE Passes(h, g)
<1>1. Writes(g, g)
  BY DEF Writes
<1> QED BY <1>1 DEF Passes

\* Letting go of a future changes nothing about the promises it does not have.
LEMMA OpenStays ==
  ASSUME NEW h, NEW g, NEW f \in Future, LetGo(h, g, f), NEW p \in Writer, Open(h, p)
  PROVE  Open(g, p)
<1>1. g.promise[p].channel = h.promise[p].channel
  BY FuturesAssumption DEF LetGo, Writer
<1> QED BY <1>1 DEF LetGo, Open, Waits

LEMMA SettledStays ==
  ASSUME NEW h, Good(h), NEW g, Good(g), NEW f \in Future, LetGo(h, g, f),
         NEW p \in Writer, Settled(h, p)
  PROVE  Settled(g, p)
<1>0. p # Null /\ h \in Heap /\ g \in Heap
  BY FuturesAssumption DEF Writer, Good
<1>1. /\ h.promise[p].task = Null
      /\ h.promise[p].future # Null =>
           h.promise[p].state = "local" /\ h.promise[p].local # "future"
  BY SettledFacts
<1>2. g.promise[p].task = Null /\ (p \in Cont => ~Waits(g, p))
  BY <1>0, <1>1 DEF LetGo, Settled, Waits
<1>3. CASE p # h.future[f].promise
  <2>1. g.promise[p] = h.promise[p]
    BY <1>3 DEF LetGo
  <2> QED BY <1>1, <1>2, <2>1 DEF Settled, StateAt
<1>4. CASE p = h.future[f].promise
  <2>1. h.promise[p].future = f /\ f # Null
    BY <1>4, FuturesAssumption DEF Good, Links
  <2>2. /\ g.promise[p].state = "local"
        /\ g.promise[p].local \in {h.promise[p].local, "invalid"}
    BY <1>0, <1>1, <1>4, <2>1 DEF LetGo
  <2> QED BY <1>1, <1>2, <2>1, <2>2 DEF Settled, StateAt
<1> QED BY <1>3, <1>4

\* future::forward_to.
LEMMA ForwardedKeeps ==
  ASSUME NEW h, Good(h), NEW f \in Future, h.future[f].channel # 0, NEW p \in Writer, Open(h, p),
         h.future[f].promise # p, NEW g, g = Forwarded(h, f, p)
  PROVE  Good(g) /\ Settled(g, p) /\ Passes(h, g)
<1>1. CASE Available(FutureState(h, f))
  <2> DEFINE t == PutFutureState(Consumed(h, f), f, "invalid")
             s == FutureState(h, f)
             n == h.future[f].channel
  <2>1. /\ Good(t) /\ LetGo(h, t, f) /\ t.read = [h.read EXCEPT ![n] = s]
    BY <1>1, TakenKeeps
  <2>2. g = Resolved(t, p, s)
    BY <1>1 DEF Forwarded, ForwardedResult
  <2>3. /\ n \in Channel /\ h.read[n] = "none" /\ s \in Outcome /\ s = h.written[n]
    BY <1>1, UsableFacts
  <2> HIDE DEF t, s
  <2>4. Open(t, p)
    BY <2>1, OpenStays
  <2>5. Good(g) /\ Writes(t, g) /\ Settled(g, p)
    BY <2>1, <2>2, <2>3, <2>4, ResolvedKeeps
  <2>6. Reads(h, t)
    <3>1. /\ t.written = h.written /\ t.cont = h.cont
          /\ \A m \in Channel : m # n => t.read[m] = h.read[m]
      BY <2>1 DEF LetGo
    <3>2. t.read[n] = s
      BY <2>1, <2>3, HeapParts DEF Good
    <3> HIDE DEF n
    <3> QED BY <2>3, <3>1, <3>2 DEF Reads, ReadsOne, Waits, Outcome
  <2> QED BY <2>5, <2>6 DEF Passes
<1>2. CASE ~Available(FutureState(h, f))
  <2> DEFINE r == Used(Unlinked(h, f), f)
             d == h.future[f].promise
  <2>1. /\ d # Null /\ d \in Writer
        /\ h.promise[d].channel = h.future[f].channel
    BY <1>2, UsableFacts
  <2>2. /\ Good(r) /\ LetGo(h, r, f) /\ r.read = h.read
        /\ r.promise[d].future = Null /\ r.promise[d].task = Null
    <3>1. h.future[f].promise # Null
      BY <2>1
    <3> QED BY <3>1, FreedKeeps
  <2>3. g = Moved(r, p, d)
    BY <1>2 DEF Forwarded, Used
  <2>4. h.promise[d] # NoPromise
    BY <2>1 DEF NoPromise
  <2> HIDE DEF r, d
  <2>5. Open(r, p)
    BY <2>2, OpenStays
  <2>6. r.cont = h.cont
    BY <2>2 DEF LetGo
  <2>7. d \in Cont => r.cont[d].stage # "none"
    BY <2>4, <2>6 DEF Good, Blank
  <2>8. Movable(r, p, d)
    BY <2>2, <2>5, <2>7 DEF Movable, Open, d
  <2>9. /\ Good(g) /\ g.promise[p].future = Null /\ g.promise[p].task = Null
        /\ g.cont = r.cont /\ g.written = r.written /\ g.read = r.read
    BY <2>1, <2>2, <2>3, <2>8, MovedKeeps
  <2>10. Settled(g, p)
    BY <2>5, <2>9 DEF Settled, Open, Waits
  <2>11. Quiet(h, g)
    BY <2>2, <2>6, <2>9 DEF Quiet, LetGo, Waits
  <2> QED BY <2>9, <2>10, <2>11, QuietIsBoth, WritesPasses
<1> QED BY <1>1, <1>2

-----------------------------------------------------------------------------
(* Every call keeps the invariant, and reads and writes as it may.         *)

LEMMA NotBoth == ASSUME NEW p \in Promise PROVE p \in Writer /\ p \notin Cont
BY FuturesAssumption DEF Writer

LEMMA LetGoReads ==
  ASSUME NEW h, NEW g, NEW f, LetGo(h, g, f), g.read = h.read
  PROVE  Quiet(h, g)
BY DEF LetGo, Quiet, Waits

LEMMA MakePromiseKeeps ==
  ASSUME Inv, NEW p \in Promise, MakePromise(p)
  PROVE  Good(heap') /\ Passes(heap, heap')
<1>1. heap' = Made(heap, p) /\ p \in Writer /\ p \notin Cont
  BY NotBoth DEF MakePromise
<1>2. Good(heap')
  BY <1>1, MadeKeeps DEF MakePromise, Inv
<1>3. Quiet(heap, heap')
  BY <1>1 DEF Made, Quiet, Waits, Inv, Good, Heap
<1> QED BY <1>2, <1>3, QuietIsBoth, WritesPasses

LEMMA MakeReadyFutureKeeps ==
  ASSUME Inv, NEW f \in Future, NEW outcome \in Outcome, MakeReadyFuture(f, outcome)
  PROVE  Good(heap') /\ Passes(heap, heap')
<1> DEFINE n == heap.made + 1
<1>1. /\ Good(heap) /\ ~heap.future[f].alive /\ heap.made < Channels
      /\ heap' = ReadyMade(heap, f, outcome, n)
  BY DEF MakeReadyFuture, Inv, Free, Fresh, ReadyMade
<1> HIDE DEF n
<1>2. n = heap.made + 1
  BY DEF n
<1>3. /\ Good(heap') /\ heap'.cont = heap.cont /\ heap'.read = heap.read
      /\ heap'.written = [heap.written EXCEPT ![n] = outcome] /\ n \in Channel
  BY <1>1, <1>2, ReadyMadeKeeps
<1>4. heap.written[n] = "none"
  BY <1>1, <1>2, FreshNumber
<1>5. heap.written \in [Channel -> Result]
  BY <1>1, HeapParts DEF Good
<1>6. Writes(heap, heap')
  BY <1>3, <1>4, <1>5 DEF Writes, Waits
<1> QED BY <1>3, <1>6, WritesPasses

LEMMA GetFutureKeeps ==
  ASSUME Inv, NEW p \in Promise, NEW f \in Future, GetFuture(p, f)
  PROVE  Good(heap') /\ Passes(heap, heap')
<1>1. /\ heap' = GotFuture(heap, p, f) /\ p \in Writer
      /\ ~heap.future[f].alive /\ heap.promise[p].channel # 0 /\ ~heap.got[heap.promise[p].channel]
  BY NotBoth DEF GetFuture, Free
<1>2. Good(heap')
  BY <1>1, GotFutureKeeps DEF Inv
<1>3. Quiet(heap, heap')
  BY <1>1 DEF GotFuture, Linked, Quiet, Waits, Inv, Good, Heap
<1> QED BY <1>2, <1>3, QuietIsBoth, WritesPasses

LEMMA DestroyPromiseKeeps ==
  ASSUME Inv, NEW p \in Promise, DestroyPromise(p)
  PROVE  Good(heap') /\ Passes(heap, heap')
<1>1. heap' = Abandoned(heap, p) /\ p \in Writer /\ Settled(heap, p)
  BY NotBoth DEF DestroyPromise, MayDestroy, Settled
<1>2. Good(heap') /\ Quiet(heap, heap')
  BY <1>1, AbandonedKeeps DEF Inv, Quiet, Waits
<1> QED BY <1>2, QuietIsBoth, WritesPasses

LEMMA MovePromiseKeeps ==
  ASSUME Inv, NEW p \in Promise, NEW q \in Promise, MovePromise(p, q)
  PROVE  Good(heap') /\ Passes(heap, heap')
<1> DEFINE a == Abandoned(heap, q)
<1>1. /\ heap' = Moved(a, p, q) /\ p \in Writer /\ q \in Writer /\ p \notin Cont /\ q \notin Cont
      /\ Settled(heap, q) /\ p # q /\ heap.promise[p].channel # 0
  BY NotBoth DEF MovePromise, MayDestroy, Settled
<1>2. /\ Good(a) /\ a.promise[q] = NoPromise /\ a.promise[p] = heap.promise[p]
      /\ a.cont = heap.cont /\ a.written = heap.written /\ a.read = heap.read
  BY <1>1, AbandonedKeeps DEF Inv
<1> HIDE DEF a
<1>3. Movable(a, p, q)
  BY <1>1, <1>2 DEF Movable, NoPromise
<1>4. /\ Good(heap') /\ heap'.cont = a.cont /\ heap'.written = a.written /\ heap'.read = a.read
  BY <1>1, <1>2, <1>3, MovedKeeps
<1>5. Quiet(heap, heap')
  BY <1>2, <1>4 DEF Quiet, Waits
<1> QED BY <1>4, <1>5, QuietIsBoth, WritesPasses

LEMMA SetResultKeeps ==
  ASSUME Inv, NEW p \in Promise, NEW outcome \in Outcome, SetResult(p, outcome)
  PROVE  Good(heap') /\ Passes(heap, heap')
<1>1. heap' = Resolved(heap, p, outcome) /\ p \in Writer /\ Open(heap, p)
  BY NotBoth DEF SetResult, Open
<1>2. Good(heap') /\ Writes(heap, heap')
  BY <1>1, ResolvedKeeps DEF Inv
<1> QED BY <1>2, WritesPasses

LEMMA MoveFutureKeeps ==
  ASSUME Inv, NEW f \in Future, NEW g \in Future, MoveFuture(f, g)
  PROVE  Good(heap') /\ Passes(heap, heap')
<1>1. Good(heap') /\ heap'.cont = heap.cont /\ heap'.written = heap.written /\ heap'.read = heap.read
  BY FutureMovedKeeps DEF MoveFuture, Usable, Inv
<1>2. Quiet(heap, heap')
  BY <1>1 DEF Quiet, Waits
<1> QED BY <1>1, <1>2, QuietIsBoth, WritesPasses

LEMMA DestroyFutureKeeps ==
  ASSUME Inv, NEW f \in Future, DestroyFuture(f)
  PROVE  Good(heap') /\ Passes(heap, heap')
<1>1. Good(heap') /\ LetGo(heap, heap', f) /\ heap'.read = heap.read
  BY DestroyedKeeps DEF DestroyFuture, Inv
<1> QED BY <1>1, LetGoReads, QuietIsBoth, WritesPasses

LEMMA GetKeeps ==
  ASSUME Inv, NEW f \in Future, Get(f)
  PROVE  Good(heap') /\ Passes(heap, heap')
<1> DEFINE n == heap.future[f].channel
           s == FutureState(heap, f)
<1>1. Good(heap) /\ n # 0 /\ Available(s)
  BY DEF Get, Usable, Inv
<1>2. heap' = Unlinked(PutFutureState(Consumed(heap, f), f, "invalid"), f)
  BY DEF Get
<1>3. Good(heap') /\ LetGo(heap, heap', f) /\ heap'.read = [heap.read EXCEPT ![n] = s]
  BY <1>1, <1>2, GotKeeps
<1>4. n \in Channel /\ heap.read[n] = "none" /\ s \in Outcome /\ s = heap.written[n]
  BY <1>1, UsableFacts
<1>5. /\ heap'.written = heap.written /\ heap'.cont = heap.cont
      /\ \A m \in Channel : m # n => heap'.read[m] = heap.read[m]
  BY <1>3 DEF LetGo
<1>6. heap.read \in [Channel -> Result]
  BY <1>1, HeapParts DEF Good
<1> HIDE DEF n, s
<1>7. Reads(heap, heap')
  BY <1>3, <1>4, <1>5, <1>6 DEF Reads, ReadsOne, Waits, Outcome
<1> QED BY <1>3, <1>7, ReadsPasses

LEMMA IgnoreReadyKeeps ==
  ASSUME Inv, NEW f \in Future, IgnoreReady(f)
  PROVE  Good(heap') /\ Passes(heap, heap')
<1>1. /\ heap.future[f].channel # 0 /\ Available(FutureState(heap, f))
      /\ heap' = Used(PutFutureState(heap, f, "invalid"), f)
  BY DEF IgnoreReady, Usable, Used
<1>2. Good(heap') /\ LetGo(heap, heap', f) /\ heap'.read = heap.read
  BY <1>1, IgnoredKeeps DEF Inv
<1> QED BY <1>2, LetGoReads, QuietIsBoth, WritesPasses

LEMMA ThenKeeps ==
  ASSUME Inv, NEW f \in Future, NEW g \in Future, NEW k \in Cont, NEW wrapped \in BOOLEAN,
         Then(f, g, k, wrapped)
  PROVE  Good(heap') /\ Passes(heap, heap')
<1>1. /\ Good(heap) /\ heap.future[f].channel # 0 /\ ~heap.future[g].alive
      /\ heap.cont[k].stage = "none" /\ heap.made < Channels
      /\ heap' = Chained(heap, f, g, k, wrapped)
  BY DEF Then, Usable, Free, Inv
<1>2. Good(heap') /\ ChainLeaves(heap, heap')
  BY <1>1, ChainedNowKeeps, ChainedLaterKeeps
<1>3. Quiet(heap, heap')
  BY <1>2 DEF ChainLeaves, Quiet, Waits
<1> QED BY <1>2, <1>3, QuietIsBoth, WritesPasses

\* A promise is one of those that are resolved after it.
LEMMA DownstreamOfItself == ASSUME NEW p \in Writer PROVE p \in Downstream(p)
BY DEF Downstream

LEMMA ForwardToKeeps ==
  ASSUME Inv, NEW f \in Future, NEW p \in Promise, ForwardTo(f, p)
  PROVE  Good(heap') /\ Passes(heap, heap')
<1>1. /\ heap' = Forwarded(heap, f, p) /\ p \in Writer /\ Open(heap, p)
      /\ heap.future[f].channel # 0 /\ heap.future[f].promise \notin Downstream(p)
  BY NotBoth DEF ForwardTo, Open, Usable
<1>2. heap.future[f].promise # p
  BY <1>1, DownstreamOfItself
<1> QED BY <1>1, <1>2, ForwardedKeeps DEF Inv

LEMMA RunToResultKeeps ==
  ASSUME Inv, NEW k \in Cont, RunToResult(k)
  PROVE  Good(heap') /\ Passes(heap, heap')
<1> DEFINE s == Started(k)
<1>1. PICK outcome \in {"value", "exception"} : heap' = Abandoned(Resolved(Started(k), k, outcome), k)
  BY DEF RunToResult
<1> DEFINE r == Resolved(s, k, outcome)
<1>2. s = StartedIn(heap, k) /\ heap' = Abandoned(r, k) /\ k \in Writer /\ outcome \in Outcome
  BY <1>1 DEF Started, StartedIn, Writer, Outcome
<1>3. Good(s) /\ Reads(heap, s) /\ Open(s, k)
  BY <1>2, StartedKeeps DEF Inv, RunToResult, Runs
<1> HIDE DEF s
<1>4. Good(r) /\ Writes(s, r) /\ Settled(r, k)
  BY <1>2, <1>3, ResolvedKeeps
<1> HIDE DEF r
<1>5. Good(heap') /\ Quiet(r, heap')
  BY <1>2, <1>4, AbandonedKeeps DEF Quiet, Waits
<1>6. Writes(s, heap')
  BY <1>4, <1>5, QuietIsBoth, WritesInARow
<1> QED BY <1>3, <1>5, <1>6 DEF Passes

LEMMA RunToFutureKeeps ==
  ASSUME Inv, NEW k \in Cont, NEW f \in Future, RunToFuture(k, f)
  PROVE  Good(heap') /\ Passes(heap, heap')
<1> DEFINE s == Started(k)
           x == Forwarded(s, f, k)
           d == Destroyed(x, f)
<1>1. /\ s = StartedIn(heap, k) /\ heap' = Abandoned(d, k) /\ k \in Writer
      /\ heap.queue # <<>> /\ Head(heap.queue) = k /\ Good(heap)
  BY DEF Started, StartedIn, Writer, RunToFuture, Runs, Inv
<1>2. Good(s) /\ Reads(heap, s) /\ Open(s, k)
  BY <1>1, StartedKeeps
<1>3. s.future = heap.future
  BY <1>1 DEF StartedIn, Good, Heap
<1>4. s.future[f].channel # 0 /\ s.future[f].promise # k
  BY <1>1, <1>3, DownstreamOfItself DEF RunToFuture, Usable
<1> HIDE DEF s
<1>5. Good(x) /\ Settled(x, k) /\ Passes(s, x)
  BY <1>1, <1>2, <1>4, ForwardedKeeps
<1> HIDE DEF x
<1>6. Good(d) /\ LetGo(x, d, f) /\ d.read = x.read
  BY <1>5, DestroyedKeeps
<1> HIDE DEF d
<1>7. Settled(d, k)
  BY <1>1, <1>5, <1>6, SettledStays
<1>8. Good(heap') /\ Quiet(d, heap')
  BY <1>1, <1>6, <1>7, AbandonedKeeps DEF Quiet, Waits
<1>9. Writes(x, d) /\ Writes(d, heap')
  BY <1>6, <1>8, LetGoReads, QuietIsBoth
<1>10. Passes(s, heap')
  BY <1>5, <1>9, PassesLast
<1> QED BY <1>1, <1>2, <1>8, <1>10, PassesFirst

\* The empty heap.
LEMMA Start == Init => Inv
<1> SUFFICES ASSUME Init PROVE Inv
  OBVIOUS
<1> DEFINE h == EmptyHeap
<1>1. heap = h
  BY DEF Init
<1>2. /\ h.promise = [p \in Writer |-> NoPromise] /\ h.future = [f \in Future |-> NoFuture]
      /\ h.cont = [k \in Cont |-> NoCont] /\ h.queue = <<>> /\ h.made = 0
      /\ h.got = [n \in Channel |-> FALSE]
      /\ h.written = [n \in Channel |-> "none"] /\ h.read = [n \in Channel |-> "none"]
  BY DEF EmptyHeap
<1>3. h \in Heap
  <2>1. NoPromise \in PromiseRecord /\ NoFuture \in FutureRecord /\ NoCont \in ContRecord
    BY FuturesAssumption DEF NoPromise, PromiseRecord, NoFuture, FutureRecord, NoCont, ContRecord, State
  <2>2. 0 \in 0 .. Channels /\ "none" \in Result /\ <<>> \in Seq(Cont)
    BY FuturesAssumption DEF Result
  <2> QED BY <2>1, <2>2 DEF EmptyHeap, Heap
<1> HIDE DEF h
<1>4. /\ \A p \in Writer : h.promise[p] = NoPromise
      /\ \A f \in Future : h.future[f] = NoFuture
      /\ \A k \in Cont : h.cont[k] = NoCont
      /\ \A n \in Channel : ~h.got[n] /\ h.written[n] = "none" /\ h.read[n] = "none"
  BY <1>2
<1>5. /\ \A p \in Writer : ~h.promise[p].alive /\ h.promise[p].future = Null
           /\ h.promise[p].state = Null /\ h.promise[p].local = "invalid"
           /\ h.promise[p].task = Null /\ h.promise[p].channel = 0
      /\ \A f \in Future : ~h.future[f].alive /\ h.future[f].promise = Null
           /\ h.future[f].channel = 0
      /\ \A k \in Cont : h.cont[k].stage = "none" /\ ~Waits(h, k)
  BY <1>4 DEF NoPromise, NoFuture, NoCont, Waits
<1>6. Null \notin Writer /\ Null \notin Future /\ Null # "task"
  BY FuturesAssumption DEF Writer
<1>7. Blank(h)
  BY <1>4, <1>5 DEF Blank, Writer
<1>8. Links(h)
  BY <1>5, <1>6 DEF Links
<1>9. Tasks(h)
  BY <1>5, <1>6 DEF Tasks
<1>10. Queued(h)
  <2>1. {k \in Cont : h.cont[k].stage = "scheduled"} = {}
    BY <1>5
  <2> QED BY <1>2, <2>1, OnceEmpty, ItemsEmpty DEF Queued
<1>11. Conts(h)
  BY <1>5 DEF Conts
<1>12. Numbers(h)
  BY <1>2, <1>4, <1>5 DEF Numbers
<1>13. Writers(h)
  BY <1>5 DEF Writers, OneWriter, WriterHolds, Available
<1>14. Readers(h)
  BY <1>5 DEF Readers, OneReader, ReaderReaches, Taken
<1> QED BY <1>1, <1>3, <1>7, <1>8, <1>9, <1>10, <1>11, <1>12, <1>13, <1>14 DEF Inv, Good

LEMMA UseKeeps ==
  ASSUME Inv, NEW f \in Future, Use(f)
  PROVE  Good(heap') /\ Passes(heap, heap')
<1>1. CASE DestroyFuture(f)
  BY <1>1, DestroyFutureKeeps
<1>2. CASE Get(f)
  BY <1>2, GetKeeps
<1>3. CASE IgnoreReady(f)
  BY <1>3, IgnoreReadyKeeps
<1>4. CASE \E p \in Promise : ForwardTo(f, p)
  BY <1>4, ForwardToKeeps
<1>5. CASE \E g \in Future : MoveFuture(f, g)
  BY <1>5, MoveFutureKeeps
<1>6. CASE \E g \in Future, k \in Cont, wrapped \in BOOLEAN : Then(f, g, k, wrapped)
  BY <1>6, ThenKeeps
<1>7. CASE \E outcome \in {"value", "exception"} : MakeReadyFuture(f, outcome)
  BY <1>7, MakeReadyFutureKeeps DEF Outcome
<1> QED BY <1>1, <1>2, <1>3, <1>4, <1>5, <1>6, <1>7 DEF Use

LEMMA HoldKeeps ==
  ASSUME Inv, NEW p \in Promise, Hold(p)
  PROVE  Good(heap') /\ Passes(heap, heap')
<1>1. CASE MakePromise(p)
  BY <1>1, MakePromiseKeeps
<1>2. CASE DestroyPromise(p)
  BY <1>2, DestroyPromiseKeeps
<1>3. CASE \E q \in Promise : MovePromise(p, q)
  BY <1>3, MovePromiseKeeps
<1>4. CASE \E f \in Future : GetFuture(p, f)
  BY <1>4, GetFutureKeeps
<1>5. CASE \E outcome \in {"value", "exception"} : SetResult(p, outcome)
  BY <1>5, SetResultKeeps DEF Outcome
<1> QED BY <1>1, <1>2, <1>3, <1>4, <1>5 DEF Hold

LEMMA NextKeeps == ASSUME Inv, Next PROVE Good(heap') /\ Passes(heap, heap')
<1>1. CASE RunTask
  BY <1>1, RunToResultKeeps, RunToFutureKeeps DEF RunTask
<1>2. CASE \E f \in Future : Use(f)
  BY <1>2, UseKeeps
<1>3. CASE \E p \in Promise : Hold(p)
  BY <1>3, HoldKeeps
<1> QED BY <1>1, <1>2, <1>3 DEF Next

LEMMA StepKeeps == Inv /\ [Next]_heap => Inv'
<1> SUFFICES ASSUME Inv, [Next]_heap PROVE Inv'
  OBVIOUS
<1>1. CASE Next
  BY <1>1, NextKeeps DEF Inv
<1>2. CASE heap' = heap
  BY <1>2 DEF Inv
<1> QED BY <1>1, <1>2

\* Whatever is done with promises and futures, and whichever continuations run,
\* the heap is what the functions of the header leave behind (future.h:81).
THEOREM InvHolds == Safe => []Inv
<1>1. Init => Inv
  BY Start
<1>2. Inv /\ [Next]_heap => Inv'
  BY StepKeeps
<1> QED BY <1>1, <1>2, PTL DEF Safe

-----------------------------------------------------------------------------
(* What the runs check.                                                    *)

\* Every field has its type.
THEOREM TypeCorrect == Safe => []TypeOK
<1>1. Inv => TypeOK
  <2> SUFFICES ASSUME Inv PROVE TypeOK
    OBVIOUS
  <2>1. heap \in Heap
    BY DEF Inv, Good
  <2>2. \A p \in Writer : heap.promise[p] \in PromiseRecord
    BY <2>1, HeapParts
  <2>3. \A f \in Future : heap.future[f] \in FutureRecord
    BY <2>1, HeapParts
  <2>4. \A k \in Cont : heap.cont[k] \in ContRecord
    BY <2>1, HeapParts
  <2>5. /\ heap.queue \in Seq(Cont)
        /\ \A n \in Channel : heap.written[n] \in Result /\ heap.read[n] \in Result
    BY <2>1, HeapParts
  <2> QED BY <2>2, <2>3, <2>4, <2>5 DEF TypeOK, PromiseRecord, FutureRecord, ContRecord, Result
<1> QED BY <1>1, InvHolds, PTL

\* A set whose elements are all equal has one, or none.
LEMMA AtMostOne ==
  ASSUME NEW S, \A x, y \in S : x = y
  PROVE  Cardinality(S) = (IF S = {} THEN 0 ELSE 1)
<1>1. CASE S = {}
  BY <1>1, FS_EmptySet
<1>2. CASE S # {}
  <2>1. PICK x : x \in S
    BY <1>2
  <2>2. S = {x}
    BY <2>1
  <2> QED BY <1>2, <2>2, FS_Singleton
<1> QED BY <1>1, <1>2

\* No pointer of a promise or a future dangles, a waiting continuation belongs to
\* one promise, and a scheduled one is in the queue once (future.h:496).
THEOREM NoPointerDangles == Safe => []PointersAgree
<1>1. Inv => PointersAgree
  <2> SUFFICES ASSUME Inv PROVE PointersAgree
    OBVIOUS
  <2>1. heap \in Heap /\ Blank(heap) /\ Links(heap) /\ Tasks(heap) /\ Queued(heap)
    BY DEF Inv, Good
  <2>2. \A p \in Writer, f \in Future : heap.promise[p].future = f <=> heap.future[f].promise = p
    BY <2>1 DEF Links
  <2>3. ASSUME NEW p \in Writer, heap.promise[p].future # Null
        PROVE  heap.promise[p].alive /\ heap.future[heap.promise[p].future].alive
                 /\ heap.promise[p].state # Null
    <3>1. heap.promise[p].future \in Future /\ p # Null
      BY <2>1, <2>3, HeapFields, FuturesAssumption DEF Writer
    <3>2. heap.promise[p].alive
      BY <2>1, <2>3 DEF Blank, NoPromise
    <3>3. heap.future[heap.promise[p].future].alive
      BY <2>1, <3>1 DEF Links
    <3>4. heap.promise[p].state = "local"
      BY <2>1, <2>3 DEF Links
    <3> QED BY <3>2, <3>3, <3>4, FuturesAssumption
  <2>4. \A p \in Writer : (heap.promise[p].state = "task") = (heap.promise[p].task # Null)
    BY <2>1 DEF Tasks
  <2>5. ASSUME NEW k \in Cont
        PROVE  Cardinality({p \in Writer : heap.promise[p].task = k})
                 = IF heap.cont[k].stage = "attached" THEN 1 ELSE 0
    <3> DEFINE S == {p \in Writer : heap.promise[p].task = k}
    <3>1. k # Null
      BY FuturesAssumption
    <3>2. \A p, q \in S : p = q
      BY <2>1, <3>1 DEF Tasks
    <3>3. S # {} <=> heap.cont[k].stage = "attached"
      BY <2>1, <3>1 DEF Tasks
    <3> HIDE DEF S
    <3>4. Cardinality(S) = IF heap.cont[k].stage = "attached" THEN 1 ELSE 0
      BY <3>2, <3>3, AtMostOne
    <3> QED BY <3>4 DEF S
  <2>6. ASSUME NEW k \in Cont
        PROVE  Cardinality({i \in DOMAIN heap.queue : heap.queue[i] = k})
                 = IF heap.cont[k].stage = "scheduled" THEN 1 ELSE 0
    <3> DEFINE S == {i \in DOMAIN heap.queue : heap.queue[i] = k}
    <3>1. /\ heap.queue \in Seq(Cont) /\ Once(heap.queue, Cont, Self)
          /\ Items(heap.queue) = {l \in Cont : heap.cont[l].stage = "scheduled"}
      BY <2>1, HeapParts DEF Queued
    <3>2. /\ DOMAIN heap.queue = 1 .. Len(heap.queue)
          /\ Items(heap.queue) = {heap.queue[i] : i \in DOMAIN heap.queue}
      BY <3>1, ItemsType, LenProperties
    <3>3. \A i, j \in S : i = j
      BY <3>1, <3>2 DEF Once
    <3>4. S # {} <=> k \in Items(heap.queue)
      BY <3>2
    <3> HIDE DEF S
    <3>5. Cardinality(S) = IF heap.cont[k].stage = "scheduled" THEN 1 ELSE 0
      BY <3>1, <3>3, <3>4, AtMostOne
    <3> QED BY <3>5 DEF S
  <2> QED BY <2>2, <2>3, <2>4, <2>5, <2>6 DEF PointersAgree
<1> QED BY <1>1, InvHolds, PTL

\* A result is in one place, and one somebody can still read is there (future.h:132).
THEOREM ResultInOnePlace == Safe => []ValueInOnePlace
<1>1. Inv => ValueInOnePlace
  <2> SUFFICES ASSUME Inv, NEW n \in Channel
               PROVE  /\ Cardinality(Places(n)) <= 1
                      /\ heap.written[n] # "none" /\ HasReader(n) => Cardinality(Places(n)) = 1
    BY DEF ValueInOnePlace
  <2> DEFINE P == {p \in Writer : heap.promise[p].channel = n /\ Available(heap.promise[p].local)}
             F == {f \in Future : heap.future[f].channel = n /\ Available(heap.future[f].local)}
             K == {k \in Cont : heap.cont[k].channel = n /\ Available(heap.cont[k].state)}
  <2>1. /\ heap \in Heap /\ Blank(heap) /\ Links(heap) /\ Tasks(heap)
        /\ Conts(heap) /\ Writers(heap) /\ Readers(heap)
    BY DEF Inv, Good
  <2>2. n # 0 /\ Places(n) = P \cup F \cup K
    BY FuturesAssumption DEF Places, Channel
  <2>3. \A p, q \in P : p = q
    BY <2>1, <2>2 DEF Writers, OneWriter
  <2>4. \A f, g \in F : f = g
    BY <2>1, <2>2 DEF Readers, OneReader
  <2>5. \A k \in K : heap.cont[k].stage = "scheduled"
    <3> SUFFICES ASSUME NEW k \in K PROVE heap.cont[k].stage = "scheduled"
      OBVIOUS
    <3>1. heap.cont[k].stage \in {"none", "attached", "scheduled", "done"}
      BY <2>1, HeapFields
    <3>2. heap.cont[k].stage = "none" => heap.cont[k].state = "invalid"
      BY <2>1 DEF Blank, NoCont
    <3> QED BY <2>1, <3>1, <3>2 DEF Conts, Available
  <2>6. \A k, l \in K : k = l
    BY <2>1, <2>5 DEF Readers, OneReader, Waits
  <2>7. P # {} => F = {}
    <3> SUFFICES ASSUME NEW p \in P, NEW f \in F PROVE FALSE
      OBVIOUS
    <3>1. heap.future[f].promise = Null
      BY <2>1 DEF Links, Available
    <3> QED BY <2>1, <2>2, <3>1 DEF Readers, ReaderReaches
  <2>8. P # {} => K = {}
    BY <2>1, <2>5 DEF Readers, Taken
  <2>9. F # {} => K = {}
    BY <2>1, <2>5 DEF Readers, OneReader, Waits
  <2>10. heap.written[n] # "none" /\ HasReader(n) => P \cup F \cup K # {}
    <3> SUFFICES ASSUME heap.written[n] # "none", HasReader(n) PROVE P \cup F \cup K # {}
      OBVIOUS
    <3>0. heap.written[n] \in Outcome
      BY <2>1, HeapParts DEF Result, Outcome
    <3>1. ASSUME NEW f \in Future, heap.future[f].channel = n PROVE P \cup F \cup K # {}
      <4>1. ReaderReaches(heap, f) /\ heap.future[f].promise \in Writer \cup {Null}
        BY <2>1, HeapFields DEF Readers
      <4>2. CASE heap.future[f].promise # Null
        <5>1. heap.future[f].promise \in P
          BY <2>2, <3>0, <3>1, <4>1, <4>2 DEF ReaderReaches, Available, Outcome
        <5> QED BY <5>1
      <4>3. CASE heap.future[f].promise = Null
        <5>1. f \in F
          BY <2>2, <3>1, <4>1, <4>3 DEF ReaderReaches, Available, Outcome
        <5> QED BY <5>1
      <4> QED BY <4>2, <4>3
    <3>2. ASSUME NEW k \in Cont, heap.cont[k].channel = n, Waits(heap, k) PROVE P \cup F \cup K # {}
      <4>1. heap.cont[k].stage # "attached"
        BY <2>1, <3>2, FuturesAssumption DEF Tasks
      <4>2. heap.cont[k].stage = "scheduled" /\ heap.cont[k].state \in Outcome
        BY <2>1, <3>2, <4>1 DEF Waits, Conts
      <4>3. k \in K
        BY <3>2, <4>2 DEF Available, Outcome
      <4> QED BY <4>3
    <3> QED BY <3>1, <3>2 DEF HasReader, Waits
  <2> HIDE DEF P, F, K
  <2>11. \A x, y \in P \cup F \cup K : x = y
    BY <2>3, <2>4, <2>6, <2>7, <2>8, <2>9
  <2>12. Cardinality(Places(n)) = IF P \cup F \cup K = {} THEN 0 ELSE 1
    BY <2>2, <2>11, AtMostOne
  <2> QED BY <2>10, <2>12
<1> QED BY <1>1, InvHolds, PTL

\* No assertion of then(), forward_to() and set_value() fails (future.h:763, 241).
THEOREM EndsAlwaysMeet == Safe => []EndsMeet
<1>1. Inv => EndsMeet
  <2> SUFFICES ASSUME Inv PROVE EndsMeet
    OBVIOUS
  <2>1. /\ heap \in Heap /\ Tasks(heap) /\ Conts(heap) /\ Writers(heap) /\ Readers(heap)
    BY DEF Inv, Good
  <2>2. \A f \in Future :
          Usable(f) => heap.future[f].promise # Null \/ Available(heap.future[f].local)
    BY <2>1 DEF Usable, Readers, ReaderReaches, Outcome, Available
  <2>3. ASSUME NEW p \in Writer, heap.promise[p].channel # 0,
               heap.written[heap.promise[p].channel] = "none"
        PROVE  heap.promise[p].state # Null /\ StateAt(heap, p) = "future"
    <3>1. heap.promise[p].state # Null /\ heap.promise[p].local = "future"
      BY <2>1, <2>3 DEF Writers, WriterHolds
    <3>2. CASE heap.promise[p].state = "local"
      BY <3>1, <3>2 DEF StateAt
    <3>3. CASE heap.promise[p].state # "local"
      <4>1. heap.promise[p].task \in Cont /\ heap.cont[heap.promise[p].task].stage = "attached"
        BY <2>1, <3>1, <3>3, HeapFields DEF Tasks
      <4> QED BY <2>1, <3>1, <3>3, <4>1 DEF StateAt, Conts
    <3> QED BY <3>1, <3>2, <3>3
  <2> QED BY <2>2, <2>3 DEF EndsMeet
<1> QED BY <1>1, InvHolds, PTL

-----------------------------------------------------------------------------
(* A promise and its future are the two sides of a queue for one item.     *)

LEMMA PassesImplements ==
  ASSUME Inv, Good(heap'), Passes(heap, heap')
  PROVE  Abstract!Next
<1> DEFINE waiting(h) == {n \in Channel : \E k \in Cont :
                            h.cont[k].channel = n /\ h.cont[k].stage \in {"attached", "scheduled"}}
<1>0. heap \in Heap /\ heap' \in Heap /\ Numbers(heap) /\ Numbers(heap')
  BY DEF Inv, Good
<1>1. PICK m : Reads(heap, m) /\ Writes(m, heap')
  BY DEF Passes
<1>2. /\ heap.written \in [Channel -> Result] /\ heap.read \in [Channel -> Result]
      /\ heap'.written \in [Channel -> Result] /\ heap'.read \in [Channel -> Result]
  BY <1>0, HeapParts
<1>3. ASSUME NEW n \in Channel, ReadsOne(heap, m, n)
      PROVE  /\ heap.written[n] # "none" /\ heap.read[n] = "none"
             /\ heap'.read[n] = heap.written[n] /\ heap'.written[n] = heap.written[n]
  <2>1. m.written = heap.written /\ heap'.read = m.read
    BY <1>1 DEF Reads, Writes
  <2>2. heap'.written[n] = m.written[n] \/ m.written[n] = "none"
    BY <1>1 DEF Writes
  <2> QED BY <1>3, <2>1, <2>2 DEF ReadsOne
<1>4. ASSUME NEW n \in Channel, ~ReadsOne(heap, m, n)
      PROVE  /\ heap'.read[n] = heap.read[n]
             /\ \/ heap'.written[n] = heap.written[n]
                \/ heap.written[n] = "none" /\ heap'.written[n] \in {"value", "exception"}
  BY <1>1, <1>4 DEF Reads, Writes, Outcome
<1>5. \A k \in Cont : Waits(heap, k) =>
        \/ Waits(heap', k) /\ heap'.cont[k].channel = heap.cont[k].channel
        \/ ReadsOne(heap, m, heap.cont[k].channel)
  <2> SUFFICES ASSUME NEW k \in Cont, Waits(heap, k), ~ReadsOne(heap, m, heap.cont[k].channel)
               PROVE  Waits(heap', k) /\ heap'.cont[k].channel = heap.cont[k].channel
    OBVIOUS
  <2>1. Waits(m, k) /\ m.cont[k].channel = heap.cont[k].channel
    BY <1>1 DEF Reads
  <2> QED BY <1>1, <2>1 DEF Writes
<1>6. \A n \in Channel : n \in waiting(heap) /\ n \notin waiting(heap') => ReadsOne(heap, m, n)
  BY <1>5 DEF Waits
<1>7. \A n \in Channel : n \in waiting(heap') => heap'.read[n] = "none"
  BY <1>0 DEF Numbers, Waits
<1>8. \A n \in Channel : Abstract!Write(n) \/ Abstract!Read(n) \/ Abstract!Keep(n)
  BY <1>3, <1>4 DEF Abstract!Write, Abstract!Read, Abstract!Keep
<1>9. \A n \in Channel : ReadsOne(heap, m, n) => Abstract!Read(n)
  BY <1>3 DEF Abstract!Read
<1> QED BY <1>2, <1>6, <1>7, <1>8, <1>9 DEF Abstract!Next, Result

\* A future gets what its promise was resolved with, once, whatever the order of
\* the calls (future.h:81): the safety of ImplementsSingleUse, whose promise that
\* a reader who waits gets it in the end is left to the model checker.
THEOREM FuturesAreSingleUse == Safe => Abstract!Init /\ [][Abstract!Next]_Abstract!vars
<1>1. Init => Abstract!Init
  BY DEF Init, EmptyHeap, NoCont, Abstract!Init
<1>2. Inv /\ [Next]_heap => [Abstract!Next]_Abstract!vars
  <2>1. Inv /\ Next => Abstract!Next
    BY NextKeeps, PassesImplements
  <2>2. heap' = heap => Abstract!vars' = Abstract!vars
    BY DEF Abstract!vars
  <2> QED BY <2>1, <2>2
<1> QED BY <1>1, <1>2, InvHolds, PTL DEF Safe

-----------------------------------------------------------------------------
(* Nothing waits for itself: the continuations that wait for one another   *)
(* do not go round in a circle, so that each is brought along in the end   *)
(* by a promise of the program's own or by a continuation in the queue.    *)

\* In no set of promises is each that of a continuation another of them resolves.
Founded(h) ==
  \A S \in SUBSET Writer : (\A d \in S : \E p \in S : h.promise[p].task = d) => S = {}

\* What a heap has to be for its continuations to be followed.
Shaped(h) ==
  /\ {"promise", "future", "cont", "queue", "made", "got", "written", "read"} \subseteq DOMAIN h
  /\ DOMAIN h.promise = Writer /\ DOMAIN h.cont = Cont
  /\ \A p \in Writer : {"task", "alive"} \subseteq DOMAIN h.promise[p]
  /\ \A k \in Cont : "stage" \in DOMAIN h.cont[k]

\* No continuation is done that was not.
StagesStay(h, g) ==
  /\ DOMAIN g.cont = Cont
  /\ \A k \in Cont : /\ "stage" \in DOMAIN g.cont[k]
                    /\ g.cont[k].stage \in {h.cont[k].stage, "attached", "scheduled"}

\* No promise waits to resolve a continuation it did not have, and that of no
\* continuation is made.
Loosens(h, g) ==
  /\ Shaped(g) /\ StagesStay(h, g)
  /\ \A p \in Writer : g.promise[p].task \in {h.promise[p].task, Null}
  /\ \A c \in Cont : g.promise[c].alive \in {h.promise[c].alive, FALSE}

LEMMA HeapShaped == ASSUME NEW h \in Heap PROVE Shaped(h)
<1>1. h.promise \in [Writer -> PromiseRecord]
  BY HeapParts
<1>2. DOMAIN h = {"promise", "future", "cont", "queue", "made", "got", "written", "read"}
  BY DEF Heap
<1>3. DOMAIN h.promise = Writer /\ DOMAIN h.cont = Cont
  BY <1>1, HeapParts
<1>4. (\A p \in Writer : h.promise[p] \in PromiseRecord) /\ \A k \in Cont : h.cont[k] \in ContRecord
  BY <1>1, HeapParts
<1>5. \A p \in Writer : {"task", "alive"} \subseteq DOMAIN h.promise[p]
  BY <1>4 DEF PromiseRecord
<1>6. \A k \in Cont : "stage" \in DOMAIN h.cont[k]
  BY <1>4 DEF ContRecord
<1> QED BY <1>2, <1>3, <1>5, <1>6 DEF Shaped

LEMMA LoosensFurther ==
  ASSUME NEW h, NEW m, NEW g, Loosens(h, m), Loosens(m, g)
  PROVE  Loosens(h, g)
BY DEF Loosens, StagesStay

LEMMA LoosensSame ==
  ASSUME NEW h, Shaped(h), NEW g, g.promise = h.promise, DOMAIN g = DOMAIN h, StagesStay(h, g)
  PROVE  Loosens(h, g)
<1>1. \A c \in Cont : c \in Writer
  BY DEF Writer
<1> QED BY <1>1 DEF Loosens, Shaped, StagesStay

LEMMA StagesSame == ASSUME NEW h, Shaped(h), NEW g, g.cont = h.cont PROVE StagesStay(h, g)
BY DEF StagesStay, Shaped

\* A record of a promise is changed, but for its continuation.
LEMMA LoosensOne ==
  ASSUME NEW h, Shaped(h), NEW g, DOMAIN g = DOMAIN h, NEW p, NEW r,
         g.promise = [h.promise EXCEPT ![p] = r], StagesStay(h, g),
         p \in Writer => {"task", "alive"} \subseteq DOMAIN r /\ r.task \in {h.promise[p].task, Null},
         p \in Cont => r.alive \in {h.promise[p].alive, FALSE}
  PROVE  Loosens(h, g)
<1>1. DOMAIN g.promise = Writer
  BY DEF Shaped
<1>2. \A q \in Writer : g.promise[q] = IF q = p THEN r ELSE h.promise[q]
  BY DEF Shaped
<1>3. \A c \in Cont : c \in Writer
  BY DEF Writer
<1>4. Shaped(g)
  BY <1>1, <1>2 DEF Shaped, StagesStay
<1> QED BY <1>2, <1>3, <1>4 DEF Loosens

LEMMA FoundedStays ==
  ASSUME NEW h, Founded(h), NEW g, Loosens(h, g)
  PROVE  Founded(g)
<1> SUFFICES ASSUME NEW S \in SUBSET Writer, \A d \in S : \E p \in S : g.promise[p].task = d
             PROVE  S = {}
  BY DEF Founded
<1>1. Null \notin Writer
  BY FuturesAssumption DEF Writer
<1>2. \A d \in S : \E p \in S : h.promise[p].task = d
  BY <1>1 DEF Loosens
<1> QED BY <1>2 DEF Founded

-----------------------------------------------------------------------------
(* What the functions of the header do to the continuations.               *)

LEMMA PutLoosens == ASSUME NEW h, Shaped(h), NEW p, NEW s PROVE Loosens(h, PutState(h, p, s))
<1>1. CASE h.promise[p].state = "local"
  <2> DEFINE r == [h.promise[p] EXCEPT !.local = s]
             g == PutState(h, p, s)
  <2>1. g.promise = [h.promise EXCEPT ![p] = r] /\ DOMAIN g = DOMAIN h
    BY <1>1 DEF PutState, Shaped
  <2>2. p \in Writer => /\ {"task", "alive"} \subseteq DOMAIN r
                       /\ r.task = h.promise[p].task /\ r.alive = h.promise[p].alive
    BY DEF Shaped
  <2>3. StagesStay(h, g)
    <3>1. g.cont = h.cont
      BY <1>1 DEF PutState, Shaped
    <3> HIDE DEF g
    <3> QED BY <3>1, StagesSame
  <2> HIDE DEF g, r
  <2> QED BY <2>1, <2>2, <2>3, LoosensOne DEF g, Writer
<1>2. CASE h.promise[p].state # "local"
  <2> DEFINE c == h.promise[p].task
             r == [h.cont[c] EXCEPT !.state = s]
             g == PutState(h, p, s)
  <2>1. g.promise = h.promise /\ DOMAIN g = DOMAIN h /\ g.cont = [h.cont EXCEPT ![c] = r]
    BY <1>2 DEF PutState, Shaped
  <2>2. c \in Cont => "stage" \in DOMAIN r /\ r.stage = h.cont[c].stage
    BY DEF Shaped
  <2> HIDE DEF g, r, c
  <2>3. StagesStay(h, g)
    BY <2>1, <2>2 DEF StagesStay, Shaped
  <2> QED BY <2>1, <2>3, LoosensSame DEF g
<1> QED BY <1>1, <1>2

LEMMA PutFutureLoosens ==
  ASSUME NEW h, Shaped(h), NEW f, NEW s
  PROVE  Loosens(h, PutFutureState(h, f, s))
<1>1. CASE h.future[f].promise # Null
  BY <1>1, PutLoosens DEF PutFutureState
<1>2. CASE h.future[f].promise = Null
  <2> DEFINE g == PutFutureState(h, f, s)
  <2>1. g.promise = h.promise /\ DOMAIN g = DOMAIN h /\ g.cont = h.cont
    BY <1>2 DEF PutFutureState, Shaped
  <2> HIDE DEF g
  <2> QED BY <2>1, LoosensSame, StagesSame DEF g
<1> QED BY <1>1, <1>2

LEMMA LinkedLoosens ==
  ASSUME NEW h, Shaped(h), NEW p, NEW f
  PROVE  Loosens(h, Linked(h, p, f))
<1> DEFINE r == [h.promise[p] EXCEPT !.future = f]
           g == Linked(h, p, f)
<1>1. g.promise = [h.promise EXCEPT ![p] = r] /\ DOMAIN g = DOMAIN h
  BY DEF Linked, Shaped
<1>2. p \in Writer => /\ {"task", "alive"} \subseteq DOMAIN r
                     /\ r.task = h.promise[p].task /\ r.alive = h.promise[p].alive
  BY DEF Shaped
<1>3. g.cont = h.cont
  BY DEF Linked, Shaped
<1> HIDE DEF g, r
<1> QED BY <1>1, <1>2, <1>3, StagesSame, LoosensOne DEF g, Writer

LEMMA UnlinkedLoosens == ASSUME NEW h, Shaped(h), NEW f PROVE Loosens(h, Unlinked(h, f))
<1> DEFINE p == h.future[f].promise
           r == [h.promise[p] EXCEPT !.future = Null]
           g == Unlinked(h, f)
<1>1. CASE p # Null
  <2>1. g.promise = [h.promise EXCEPT ![p] = r] /\ DOMAIN g = DOMAIN h
    BY <1>1 DEF Unlinked, Shaped
  <2>2. p \in Writer => /\ {"task", "alive"} \subseteq DOMAIN r
                       /\ r.task = h.promise[p].task /\ r.alive = h.promise[p].alive
    BY DEF Shaped
  <2>3. g.cont = h.cont
    BY <1>1 DEF Unlinked, Shaped
  <2> HIDE DEF g, r, p
  <2> QED BY <2>1, <2>2, <2>3, StagesSame, LoosensOne DEF g, Writer
<1>2. CASE p = Null
  BY <1>2, LoosensSame, StagesSame DEF Unlinked
<1> QED BY <1>1, <1>2

LEMMA MadeAnew ==
  ASSUME NEW h, Shaped(h), NEW p \in Writer
  PROVE  /\ Shaped(Made(h, p)) /\ Made(h, p).cont = h.cont /\ Made(h, p).promise[p].task = Null
         /\ \A q \in Writer \ {p} : Made(h, p).promise[q] = h.promise[q]
<1> DEFINE r == NewPromise(h.made + 1)
           g == Made(h, p)
<1>1. g.promise = [h.promise EXCEPT ![p] = r] /\ DOMAIN g = DOMAIN h /\ g.cont = h.cont
  BY DEF Made, Shaped
<1>2. {"task", "alive"} \subseteq DOMAIN r /\ r.task = Null
  BY DEF NewPromise
<1> HIDE DEF g, r
<1>3. /\ DOMAIN g.promise = Writer /\ g.promise[p] = r
      /\ \A q \in Writer \ {p} : g.promise[q] = h.promise[q]
  BY <1>1 DEF Shaped
<1>4. Shaped(g)
  BY <1>1, <1>2, <1>3 DEF Shaped
<1> QED BY <1>1, <1>2, <1>3, <1>4 DEF g

LEMMA GotFutureLoosens ==
  ASSUME NEW h, Shaped(h), NEW p, NEW f
  PROVE  Loosens(h, GotFuture(h, p, f))
<1> DEFINE m == [h EXCEPT !.got[h.promise[p].channel] = TRUE]
<1>1. Loosens(h, m)
  <2>1. m.promise = h.promise /\ m.cont = h.cont /\ DOMAIN m = DOMAIN h
    BY DEF Shaped
  <2> HIDE DEF m
  <2> QED BY <2>1, LoosensSame, StagesSame
<1>2. GotFuture(h, p, f) = Linked(m, p, f)
  BY DEF GotFuture
<1> HIDE DEF m
<1>3. Shaped(m)
  BY <1>1 DEF Loosens
<1>4. Loosens(m, Linked(m, p, f))
  BY <1>3, LinkedLoosens
<1> QED BY <1>1, <1>2, <1>4, LoosensFurther

LEMMA ResolvedLoosens ==
  ASSUME NEW h, Shaped(h), NEW p, NEW outcome
  PROVE  Loosens(h, Resolved(h, p, outcome))
<1> DEFINE s == PutState(h, p, outcome)
           m == [s EXCEPT !.written[h.promise[p].channel] = outcome]
           k == m.promise[p].task
           r == [m.promise[p] EXCEPT !.state = Null, !.task = Null]
           g == Resolved(h, p, outcome)
<1>1. Loosens(h, s) /\ Shaped(s)
  BY PutLoosens DEF Loosens
<1>2. g = MadeReady(m, p)
  BY DEF Resolved
<1> HIDE DEF s, g
<1>3. m.promise = s.promise /\ m.cont = s.cont /\ DOMAIN m = DOMAIN s
  BY <1>1 DEF Shaped
<1> HIDE DEF m
<1>4. Loosens(s, m) /\ Shaped(m)
  BY <1>1, <1>3, LoosensSame, StagesSame DEF Loosens
<1>5. CASE k = Null
  BY <1>1, <1>2, <1>4, <1>5, LoosensFurther DEF MadeReady, g
<1>6. CASE k # Null
  <2>1. g.promise = [m.promise EXCEPT ![p] = r] /\ DOMAIN g = DOMAIN m
    BY <1>2, <1>4, <1>6 DEF MadeReady, Shaped
  <2>2. p \in Writer => /\ {"task", "alive"} \subseteq DOMAIN r
                       /\ r.task = Null /\ r.alive = m.promise[p].alive
    BY <1>4 DEF Shaped
  <2>3. StagesStay(m, g)
    <3> DEFINE c == [m.cont[k] EXCEPT !.stage = "scheduled"]
    <3>1. g.cont = [m.cont EXCEPT ![k] = c]
      BY <1>2, <1>4, <1>6 DEF MadeReady, Shaped
    <3>2. k \in Cont => "stage" \in DOMAIN c /\ c.stage = "scheduled"
      BY <1>4 DEF Shaped
    <3> HIDE DEF c, k
    <3> QED BY <1>4, <3>1, <3>2 DEF StagesStay, Shaped
  <2> HIDE DEF r, k
  <2>4. Loosens(m, g)
    BY <1>4, <2>1, <2>2, <2>3, LoosensOne DEF Writer
  <2> QED BY <1>1, <1>4, <2>4, LoosensFurther DEF g
<1> QED BY <1>5, <1>6

LEMMA AbandonedLoosens ==
  ASSUME NEW h, Shaped(h), NEW p
  PROVE  Loosens(h, Abandoned(h, p)) /\ (p \in Writer => Abandoned(h, p).promise[p] = NoPromise)
<1> DEFINE g == Abandoned(h, p)
<1>1. g.promise = [h.promise EXCEPT ![p] = NoPromise] /\ DOMAIN g = DOMAIN h /\ g.cont = h.cont
  BY DEF Abandoned, Shaped
<1>2. {"task", "alive"} \subseteq DOMAIN NoPromise /\ NoPromise.task = Null /\ NoPromise.alive = FALSE
  BY DEF NoPromise
<1> HIDE DEF g
<1>3. Loosens(h, g)
  BY <1>1, <1>2, StagesSame, LoosensOne
<1>4. p \in Writer => g.promise[p] = NoPromise
  BY <1>1, <1>2 DEF Shaped
<1> QED BY <1>3, <1>4 DEF g

LEMMA ConsumedLoosens == ASSUME NEW h, Shaped(h), NEW f PROVE Loosens(h, Consumed(h, f))
<1> DEFINE g == Consumed(h, f)
<1>1. g.promise = h.promise /\ g.cont = h.cont /\ DOMAIN g = DOMAIN h
  BY DEF Consumed, Shaped
<1> HIDE DEF g
<1> QED BY <1>1, LoosensSame, StagesSame DEF g

LEMMA DestroyedLoosens == ASSUME NEW h, Shaped(h), NEW f PROVE Loosens(h, Destroyed(h, f))
<1> DEFINE u == Unlinked(h, f)
           g == [u EXCEPT !.future[f] = NoFuture]
<1>1. Loosens(h, u) /\ Shaped(u)
  BY UnlinkedLoosens DEF Loosens
<1>2. Destroyed(h, f) = g
  BY DEF Destroyed
<1> HIDE DEF u
<1>3. g.promise = u.promise /\ g.cont = u.cont /\ DOMAIN g = DOMAIN u
  BY <1>1 DEF Shaped
<1> HIDE DEF g
<1> QED BY <1>1, <1>2, <1>3, LoosensSame, StagesSame, LoosensFurther

LEMMA FutureMovedLoosens ==
  ASSUME NEW h, Shaped(h), NEW f, NEW g
  PROVE  Loosens(h, FutureMoved(h, f, g))
<1> DEFINE old == h.future[f]
           p == old.promise
           d == Destroyed(h, g)
           m == [d EXCEPT
                  !.future[g] = [old EXCEPT !.local = IF p = Null THEN @ ELSE "future"],
                  !.future[f] = [old EXCEPT !.promise = Null, !.channel = 0,
                                            !.local = IF p = Null THEN "invalid" ELSE @]]
           r == [m.promise[p] EXCEPT !.future = g]
           x == FutureMoved(h, f, g)
<1>1. Loosens(h, d) /\ Shaped(d)
  BY DestroyedLoosens DEF Loosens
<1>2. x = IF p = Null THEN m ELSE [m EXCEPT !.promise[p].future = g]
  BY DEF FutureMoved
<1> HIDE DEF d, x, p
<1>3. m.promise = d.promise /\ m.cont = d.cont /\ DOMAIN m = DOMAIN d
  BY <1>1 DEF Shaped
<1> HIDE DEF m
<1>4. Loosens(h, m) /\ Shaped(m)
  <2>1. Loosens(d, m)
    BY <1>1, <1>3, LoosensSame, StagesSame
  <2> QED BY <1>1, <2>1, LoosensFurther DEF Loosens
<1>5. CASE p = Null
  BY <1>2, <1>4, <1>5 DEF x
<1>6. CASE p # Null
  <2>1. x.promise = [m.promise EXCEPT ![p] = r] /\ DOMAIN x = DOMAIN m
    BY <1>2, <1>4, <1>6 DEF Shaped
  <2>2. p \in Writer => /\ {"task", "alive"} \subseteq DOMAIN r
                       /\ r.task = m.promise[p].task /\ r.alive = m.promise[p].alive
    BY <1>4 DEF Shaped
  <2>4. x.cont = m.cont
    BY <1>2, <1>4, <1>6 DEF Shaped
  <2> HIDE DEF r
  <2>3. Loosens(m, x)
    BY <1>4, <2>1, <2>2, <2>4, StagesSame, LoosensOne DEF Writer
  <2> QED BY <1>4, <2>3, LoosensFurther DEF x
<1> QED BY <1>5, <1>6

\* What p waits to resolve is taken by q, and p has nothing left.
WaiterTaken(h, g, p, q) ==
  /\ Shaped(g) /\ g.cont = h.cont
  /\ g.promise[q].task = h.promise[p].task
  /\ g.promise[p].task = Null
  /\ g.promise[p].alive = h.promise[p].alive
  /\ \A d \in Writer \ {p, q} : g.promise[d] = h.promise[d]

\* A promise is moved with what it waits to resolve.
LEMMA MovedTakesAlong ==
  ASSUME NEW h, Shaped(h), NEW p \in Writer, NEW q \in Writer, p # q,
         NEW g, g = Moved(h, p, q)
  PROVE  WaiterTaken(h, g, p, q)
<1> DEFINE to == MovedTo(h.promise[p])
           from == MovedFrom(h.promise[p])
           m == NotMigrated(h, p, q)
           f == h.promise[p].future
<1>1. /\ {"task", "alive"} \subseteq DOMAIN to /\ to.task = h.promise[p].task
      /\ {"task", "alive"} \subseteq DOMAIN from /\ from.task = Null
      /\ from.alive = h.promise[p].alive
  BY DEF MovedTo, MovedFrom, Shaped
<1>2. /\ m.promise = [[h.promise EXCEPT ![q] = to] EXCEPT ![p] = from]
      /\ DOMAIN m = DOMAIN h
      /\ m.cont = h.cont
  BY DEF NotMigrated, Shaped
<1>3. g.promise = m.promise /\ DOMAIN g = DOMAIN m /\ g.cont = m.cont
  <2> HIDE DEF to, from
  <2>1. {"promise", "cont"} \subseteq DOMAIN m
    BY <1>2 DEF Shaped
  <2> QED BY <2>1 DEF Moved
<1> HIDE DEF to, from, m
<1>4. /\ DOMAIN g.promise = Writer /\ g.promise[q] = to /\ g.promise[p] = from
      /\ \A d \in Writer \ {p, q} : g.promise[d] = h.promise[d]
  BY <1>2, <1>3 DEF Shaped
<1>5. Shaped(g)
  BY <1>1, <1>2, <1>3, <1>4 DEF Shaped
<1> QED BY <1>1, <1>2, <1>3, <1>4, <1>5 DEF WaiterTaken

\* Only the promises in continuations are waited for: whose the others are makes no
\* circle.
LEMMA ProgramsOwn ==
  ASSUME NEW h, Founded(h), NEW g, Shaped(g),
         \A c \in Cont : g.promise[c].task \in {h.promise[c].task, Null},
         \A p \in Writer : g.promise[p].task \in Cont \cup {Null}
  PROVE  Founded(g)
<1> SUFFICES ASSUME NEW S \in SUBSET Writer, \A d \in S : \E p \in S : g.promise[p].task = d
             PROVE  S = {}
  BY DEF Founded
<1>1. Null \notin Writer
  BY FuturesAssumption DEF Writer
<1>2. S \subseteq Cont
  BY <1>1
<1>3. \A d \in S : \E p \in S : h.promise[p].task = d
  BY <1>1, <1>2
<1> QED BY <1>3 DEF Founded

\* Those downstream of p in a heap.
Below(h, p) ==
  {w \in Writer : \A S \in SUBSET Writer :
      p \in S /\ (\A d \in S : h.promise[d].task # Null => h.promise[d].task \in S) => w \in S}

LEMMA BelowClosed ==
  ASSUME NEW h, NEW p \in Writer, \A d \in Writer : h.promise[d].task \in Cont \cup {Null}
  PROVE  /\ p \in Below(h, p)
         /\ \A d \in Below(h, p) : h.promise[d].task # Null => h.promise[d].task \in Below(h, p)
<1>1. p \in Below(h, p)
  BY DEF Below
<1>2. ASSUME NEW d \in Below(h, p), h.promise[d].task # Null
      PROVE  h.promise[d].task \in Below(h, p)
  <2>1. d \in Writer /\ h.promise[d].task \in Writer
    BY <1>2 DEF Below, Writer
  <2> SUFFICES ASSUME NEW S \in SUBSET Writer, p \in S,
                      \A e \in S : h.promise[e].task # Null => h.promise[e].task \in S
               PROVE  h.promise[d].task \in S
    BY <2>1 DEF Below
  <2>2. d \in S
    BY DEF Below
  <2> QED BY <1>2, <2>2
<1> QED BY <1>1, <1>2

\* forward_to: the promise that will bring a result takes over what p resolves.  It
\* makes no circle as long as it is not downstream of p.
LEMMA TakenOver ==
  ASSUME NEW h, Founded(h), NEW p \in Writer, NEW r \in Writer, r \notin Below(h, p),
         \A d \in Writer : h.promise[d].task \in Cont \cup {Null},
         NEW g, g.promise[p].task = Null, g.promise[r].task \in {h.promise[p].task, Null},
         \A d \in Writer \ {p, r} : g.promise[d].task \in {h.promise[d].task, Null}
  PROVE  Founded(g)
<1> SUFFICES ASSUME NEW S \in SUBSET Writer, \A d \in S : \E q \in S : g.promise[q].task = d
             PROVE  S = {}
  BY DEF Founded
<1> DEFINE D == Below(h, p)
<1>1. Null \notin Writer
  BY FuturesAssumption DEF Writer
<1>2. p \in D /\ \A d \in D : h.promise[d].task # Null => h.promise[d].task \in D
  BY BelowClosed
<1>3. r \notin D
  OBVIOUS
<1> HIDE DEF D
<1>4. ASSUME NEW d \in S \ D PROVE \E q \in S \ D : h.promise[q].task = d
  <2>1. PICK q \in S : g.promise[q].task = d
    OBVIOUS
  <2>2. d # Null /\ q # p
    BY <1>1, <2>1
  <2>3. q # r
    BY <1>2, <2>1, <2>2
  <2>4. h.promise[q].task = d
    BY <2>1, <2>2, <2>3
  <2>5. q \notin D
    BY <1>2, <2>2, <2>4
  <2> QED BY <2>4, <2>5
<1>5. S \ D = {}
  BY <1>4 DEF Founded
<1>6. \A d \in S : \E q \in S : h.promise[q].task = d
  <2>1. r \notin S
    BY <1>3, <1>5
  <2> QED BY <1>1, <2>1
<1> QED BY <1>6 DEF Founded

\* then() makes a continuation that nobody waits for yet.
LEMMA NewWait ==
  ASSUME NEW h, Founded(h), NEW k \in Cont, NEW p \in Writer, NEW g,
         g.promise[k].task = Null, g.promise[p].task = k,
         \A d \in Writer \ {p, k} : g.promise[d].task \in {h.promise[d].task, Null}
  PROVE  Founded(g)
<1> SUFFICES ASSUME NEW S \in SUBSET Writer, \A d \in S : \E q \in S : g.promise[q].task = d
             PROVE  S = {}
  BY DEF Founded
<1>1. Null \notin Writer /\ k \in Writer
  BY FuturesAssumption DEF Writer
<1>2. ASSUME NEW d \in S \ {k} PROVE \E q \in S \ {k} : h.promise[q].task = d
  <2>1. PICK q \in S : g.promise[q].task = d
    OBVIOUS
  <2> QED BY <1>1, <2>1
<1>3. S \ {k} = {}
  BY <1>2 DEF Founded
<1>4. k \notin S
  BY <1>1, <1>3
<1> QED BY <1>3, <1>4

-----------------------------------------------------------------------------
(* The steps.                                                              *)

\* A continuation whose promise is there has not run.
Unfinished(h) == \A c \in Cont : h.promise[c].alive => Waits(h, c)

LEMMA UnfinishedStays ==
  ASSUME NEW h, Unfinished(h), NEW g, Loosens(h, g)
  PROVE  Unfinished(g)
<1> SUFFICES ASSUME NEW c \in Cont, g.promise[c].alive PROVE Waits(g, c)
  BY DEF Unfinished
<1>1. g.promise[c].alive \in {h.promise[c].alive, FALSE}
  BY DEF Loosens
<1>2. h.promise[c].alive
  BY <1>1
<1>3. Waits(h, c)
  BY <1>2 DEF Unfinished
<1> QED BY <1>3 DEF Waits, Loosens, StagesStay

\* A result is taken out of its future and put to p.
LEMMA ForwardedResultLoosens ==
  ASSUME NEW h, Shaped(h), NEW f, NEW p
  PROVE  Loosens(h, ForwardedResult(h, f, p))
<1> DEFINE m == Consumed(h, f)
           x == PutFutureState(m, f, "invalid")
<1>1. Loosens(h, m) /\ Shaped(m)
  BY ConsumedLoosens DEF Loosens
<1> HIDE DEF m
<1>2. Loosens(m, x)
  BY <1>1, PutFutureLoosens
<1>3. Loosens(h, x) /\ Shaped(x)
  BY <1>1, <1>2, LoosensFurther DEF Loosens
<1> HIDE DEF x
<1>4. Loosens(x, Resolved(x, p, FutureState(h, f)))
  BY <1>3, ResolvedLoosens
<1> QED BY <1>3, <1>4, LoosensFurther DEF ForwardedResult, x, m

\* What forward_to leaves of the continuations.
LEMMA ForwardedWaits ==
  ASSUME NEW h \in Heap, Blank(h), Links(h), Founded(h), NEW f \in Future, NEW p \in Writer,
         ~Available(FutureState(h, f)) => h.future[f].promise \in Writer,
         h.future[f].promise \notin Below(h, p),
         NEW g, g = Forwarded(h, f, p)
  PROVE  /\ Shaped(g) /\ Founded(g) /\ StagesStay(h, g)
         /\ \A c \in Cont : g.promise[c].alive => h.promise[c].alive
<1> DEFINE r == h.future[f].promise
           u == Unlinked(h, f)
           m == [u EXCEPT !.future[f].channel = 0]
<1>1. Shaped(h) /\ \A d \in Writer : h.promise[d].task \in Cont \cup {Null}
  BY HeapShaped, HeapFields
<1>2. CASE Available(FutureState(h, f))
  <2>1. Loosens(h, g)
    BY <1>1, <1>2, ForwardedResultLoosens DEF Forwarded
  <2>2. ASSUME NEW c \in Cont, g.promise[c].alive PROVE h.promise[c].alive
    <3>1. g.promise[c].alive \in {h.promise[c].alive, FALSE}
      BY <2>1 DEF Loosens
    <3> QED BY <2>2, <3>1
  <2> QED BY <2>1, <2>2, FoundedStays DEF Loosens
<1>3. CASE ~Available(FutureState(h, f))
  <2>1. g = Moved(m, p, r) /\ r \in Writer
    BY <1>3 DEF Forwarded
  <2>2. r # p
    BY <1>1, BelowClosed
  <2>3. h.promise[r].alive
    <3>1. h.promise[r].future = f
      BY <2>1 DEF Links
    <3>2. f # Null
      BY FuturesAssumption
    <3> QED BY <2>1, <3>1, <3>2 DEF Blank, NoPromise
  <2>4. Loosens(h, u) /\ Shaped(u)
    BY <1>1, UnlinkedLoosens DEF Loosens
  <2>5. r \notin Below(h, p)
    OBVIOUS
  <2> HIDE DEF u, r
  <2>6. m.promise = u.promise /\ m.cont = u.cont /\ DOMAIN m = DOMAIN u
    BY <2>4 DEF Shaped
  <2> HIDE DEF m
  <2>7. Loosens(u, m)
    BY <2>4, <2>6, LoosensSame, StagesSame
  <2>8. Loosens(h, m) /\ Shaped(m)
    BY <2>4, <2>7, LoosensFurther DEF Loosens
  <2>9. /\ Shaped(g) /\ g.cont = m.cont /\ g.promise[r].task = m.promise[p].task
        /\ g.promise[p].task = Null /\ g.promise[p].alive = m.promise[p].alive
        /\ \A d \in Writer \ {p, r} : g.promise[d] = m.promise[d]
    <3>1. WaiterTaken(m, g, p, r)
      BY <2>1, <2>2, <2>8, MovedTakesAlong
    <3> QED BY <3>1 DEF WaiterTaken
  <2>10. /\ g.promise[r].task \in {h.promise[p].task, Null}
         /\ \A d \in Writer \ {p, r} : g.promise[d].task \in {h.promise[d].task, Null}
    BY <2>8, <2>9 DEF Loosens
  <2>11. Founded(g)
    BY <1>1, <2>1, <2>5, <2>9, <2>10, TakenOver
  <2>12. StagesStay(h, g)
    BY <2>8, <2>9 DEF Loosens, StagesStay
  <2>13. ASSUME NEW c \in Cont, g.promise[c].alive PROVE h.promise[c].alive
    <3>1. CASE c = r
      BY <2>3, <3>1
    <3>2. CASE c # r
      <4>1. c \in Writer /\ g.promise[c].alive = m.promise[c].alive
        BY <2>9, <3>2 DEF Writer
      <4>2. m.promise[c].alive \in {h.promise[c].alive, FALSE}
        BY <2>8 DEF Loosens
      <4> QED BY <2>13, <4>1, <4>2
    <3> QED BY <3>1, <3>2
  <2> QED BY <2>9, <2>11, <2>12, <2>13
<1> QED BY <1>2, <1>3

\* What then() leaves of them.
LEMMA ChainedWaits ==
  ASSUME NEW h, Good(h), Founded(h), Unfinished(h), NEW f \in Future, h.future[f].channel # 0,
         NEW g \in Future, NEW k \in Cont, h.cont[k].stage = "none", NEW w,
         NEW x, x = Chained(h, f, g, k, w)
  PROVE  Founded(x) /\ Unfinished(x)
<1> DEFINE s == FutureState(h, f)
           p == h.future[f].promise
           m == Made(h, k)
           y == GotFuture(m, k, g)
           rec == [stage |-> "attached", state |-> "future", wrapped |-> w,
                   channel |-> h.future[f].channel]
           z == [y EXCEPT !.future[f].channel = 0, !.cont[k] = rec]
           a == PutFutureState(z, f, "invalid")
           now == [a EXCEPT !.cont[k].stage = "scheduled", !.cont[k].state = s, !.queue = Append(@, k)]
           u == Unlinked(z, f)
           later == [u EXCEPT !.promise[p].state = "task", !.promise[p].task = k]
<1>1. h \in Heap /\ Blank(h) /\ Links(h) /\ Shaped(h) /\ k \in Writer
  BY HeapShaped DEF Good, Writer
<1>2. /\ Shaped(m) /\ m.cont = h.cont /\ m.promise[k].task = Null
      /\ \A q \in Writer \ {k} : m.promise[q] = h.promise[q]
  BY <1>1, MadeAnew
<1>3. x = IF Available(s) THEN now ELSE later
  BY DEF Chained
<1> HIDE DEF m, s
<1>4. Loosens(m, y) /\ Shaped(y)
  BY <1>2, GotFutureLoosens DEF Loosens
<1> HIDE DEF y
<1>5. z.promise = y.promise /\ z.cont = [y.cont EXCEPT ![k] = rec] /\ DOMAIN z = DOMAIN y
  BY <1>4 DEF Shaped
<1>6. "stage" \in DOMAIN rec /\ rec.stage = "attached"
  OBVIOUS
<1> HIDE DEF z, rec
<1>7. StagesStay(y, z) /\ z.cont[k].stage = "attached"
  BY <1>4, <1>5, <1>6 DEF StagesStay, Shaped
<1>8. Loosens(m, z) /\ Shaped(z)
  <2>1. Loosens(y, z)
    BY <1>4, <1>5, <1>7, LoosensSame
  <2> QED BY <1>4, <2>1, LoosensFurther DEF Loosens
\* The continuation is there, and what it will resolve nobody waits for.
<1> DEFINE Rest(v) == /\ Loosens(z, v) /\ v.cont[k].stage \in {"attached", "scheduled"}
<1>9. ASSUME NEW v, Rest(v)
      PROVE  /\ Founded(v) /\ Unfinished(v) /\ v.promise[k].task = Null
             /\ \A q \in Writer \ {k} : v.promise[q].task \in {h.promise[q].task, Null}
             /\ Shaped(v)
  <2>1. Loosens(m, v)
    BY <1>8, <1>9, LoosensFurther
  <2>3. v.promise[k].task = Null /\ \A q \in Writer \ {k} : v.promise[q].task \in {h.promise[q].task, Null}
    BY <1>1, <1>2, <2>1 DEF Loosens
  <2>4. Founded(v)
    <3> SUFFICES ASSUME NEW S \in SUBSET Writer, \A d \in S : \E q \in S : v.promise[q].task = d
                 PROVE  S = {}
      BY DEF Founded
    <3>1. Null \notin Writer
      BY FuturesAssumption DEF Writer
    <3>2. \A d \in S : \E q \in S : h.promise[q].task = d
      BY <2>3, <3>1
    <3> QED BY <3>2 DEF Founded
  <2>5. ASSUME NEW c \in Cont, v.promise[c].alive PROVE Waits(v, c)
    <3>1. CASE c = k
      BY <1>9, <3>1 DEF Waits
    <3>2. CASE c # k
      <4>1. v.promise[c].alive \in {h.promise[c].alive, FALSE}
        BY <1>2, <2>1, <3>2 DEF Loosens, Writer
      <4>2. h.promise[c].alive
        BY <2>5, <4>1
      <4>3. Waits(m, c)
        BY <1>2, <4>2 DEF Unfinished, Waits
      <4> QED BY <2>1, <4>3 DEF Waits, Loosens, StagesStay
    <3> QED BY <3>1, <3>2
  <2> QED BY <2>1, <2>3, <2>4, <2>5 DEF Unfinished, Loosens
<1>10. CASE Available(s)
  <2>1. Loosens(z, a) /\ Shaped(a)
    BY <1>8, PutFutureLoosens DEF Loosens
  <2> HIDE DEF a
  <2>2. now.promise = a.promise /\ DOMAIN now = DOMAIN a
    BY <2>1 DEF Shaped
  <2>3. StagesStay(a, now) /\ now.cont[k].stage = "scheduled"
    <3> DEFINE b == [[a.cont[k] EXCEPT !.stage = "scheduled"] EXCEPT !.state = s]
    <3>1. now.cont = [a.cont EXCEPT ![k] = b]
      BY <2>1 DEF Shaped
    <3>2. "stage" \in DOMAIN b /\ b.stage = "scheduled"
      BY <2>1 DEF Shaped
    <3> HIDE DEF b, now
    <3> QED BY <2>1, <3>1, <3>2 DEF StagesStay, Shaped
  <2> HIDE DEF now
  <2>4. Loosens(a, now)
    BY <2>1, <2>2, <2>3, LoosensSame
  <2>5. Rest(now)
    BY <2>1, <2>3, <2>4, LoosensFurther
  <2> QED BY <1>3, <1>9, <1>10, <2>5
<1>11. CASE ~Available(s)
  <2>1. p \in Writer /\ p # k
    <3>1. p # Null /\ p \in Writer
      BY <1>11, UsableFacts DEF s
    <3>2. h.promise[p].future = f /\ f # Null
      BY <1>1, <3>1, FuturesAssumption DEF Links
    <3>3. h.promise[k].future = Null
      BY <1>1 DEF Blank, NoPromise
    <3> QED BY <3>1, <3>2, <3>3
  <2>2. Loosens(z, u) /\ Shaped(u)
    BY <1>8, UnlinkedLoosens DEF Loosens
  <2>3. u.cont[k].stage \in {"attached", "scheduled"}
    BY <1>7, <2>2 DEF Loosens, StagesStay
  <2>4. /\ Founded(u) /\ Unfinished(u) /\ u.promise[k].task = Null
        /\ \A q \in Writer \ {k} : u.promise[q].task \in {h.promise[q].task, Null}
    BY <1>9, <2>2, <2>3
  <2> HIDE DEF u, p
  <2>5. later.cont = u.cont /\ later.promise[p].task = k /\ later.promise[p].alive = u.promise[p].alive
          /\ \A q \in Writer \ {p} : later.promise[q] = u.promise[q]
    <3> DEFINE b == [[u.promise[p] EXCEPT !.state = "task"] EXCEPT !.task = k]
    <3>1. later.cont = u.cont /\ later.promise = [u.promise EXCEPT ![p] = b]
      BY <2>2 DEF Shaped
    <3>2. b.task = k /\ b.alive = u.promise[p].alive
      BY <2>1, <2>2 DEF Shaped
    <3> HIDE DEF b, later
    <3> QED BY <2>1, <2>2, <3>1, <3>2 DEF Shaped
  <2> HIDE DEF later
  <2>6. Founded(later)
    <3>1. later.promise[k].task = Null
      BY <1>1, <2>1, <2>4, <2>5
    <3>2. \A d \in Writer \ {p, k} : later.promise[d].task \in {h.promise[d].task, Null}
      BY <2>4, <2>5
    <3> QED BY <2>1, <2>5, <3>1, <3>2, NewWait
  <2>7. \A c \in Cont : later.promise[c].alive = u.promise[c].alive
    BY <2>1, <2>5 DEF Writer
  <2>8. Unfinished(later)
    BY <2>4, <2>5, <2>7 DEF Unfinished, Waits
  <2> QED BY <1>3, <1>11, <2>6, <2>8
<1> QED BY <1>10, <1>11

\* The invariant: what waits is founded, and nothing that is done will resolve a
\* promise.
Rooted(h) == Founded(h) /\ Unfinished(h)

LEMMA RootedStays ==
  ASSUME NEW h, Rooted(h), NEW g, Loosens(h, g)
  PROVE  Rooted(g)
BY FoundedStays, UnfinishedStays DEF Rooted

LEMMA UseRooted == ASSUME Inv, Rooted(heap), NEW f \in Future, Use(f) PROVE Rooted(heap')
<1>1. /\ Good(heap) /\ heap \in Heap /\ Shaped(heap) /\ Blank(heap) /\ Links(heap)
      /\ Founded(heap) /\ Unfinished(heap)
  BY HeapShaped DEF Inv, Good, Rooted
<1>2. CASE DestroyFuture(f)
  BY <1>1, <1>2, DestroyedLoosens, RootedStays DEF DestroyFuture
<1>3. CASE Get(f)
  <2> DEFINE c == Consumed(heap, f)
             x == PutFutureState(c, f, "invalid")
  <2>1. heap' = Unlinked(x, f)
    BY <1>3 DEF Get
  <2>2. Loosens(heap, c) /\ Shaped(c)
    BY <1>1, ConsumedLoosens DEF Loosens
  <2> HIDE DEF c
  <2>3. Loosens(c, x) /\ Shaped(x)
    BY <2>2, PutFutureLoosens DEF Loosens
  <2> HIDE DEF x
  <2>4. Loosens(x, heap')
    BY <2>1, <2>3, UnlinkedLoosens
  <2> QED BY <2>2, <2>3, <2>4, LoosensFurther, RootedStays
<1>4. CASE IgnoreReady(f)
  <2> DEFINE x == PutFutureState(heap, f, "invalid")
  <2>1. heap' = [x EXCEPT !.future[f].channel = 0]
    BY <1>4 DEF IgnoreReady
  <2>2. Loosens(heap, x) /\ Shaped(x)
    BY <1>1, PutFutureLoosens DEF Loosens
  <2> HIDE DEF x
  <2>3. heap'.promise = x.promise /\ heap'.cont = x.cont /\ DOMAIN heap' = DOMAIN x
    BY <2>1, <2>2 DEF Shaped
  <2>4. Loosens(x, heap')
    BY <2>2, <2>3, LoosensSame, StagesSame
  <2> QED BY <2>2, <2>4, LoosensFurther, RootedStays
<1>5. ASSUME NEW p \in Promise, ForwardTo(f, p) PROVE Rooted(heap')
  <2>1. /\ heap' = Forwarded(heap, f, p) /\ p \in Writer
        /\ heap.future[f].channel # 0 /\ heap.future[f].promise \notin Downstream(p)
    BY <1>5, NotBoth DEF ForwardTo, Usable
  <2>2. heap.future[f].promise \notin Below(heap, p)
    BY <2>1 DEF Downstream, Below
  <2>3. ~Available(FutureState(heap, f)) => heap.future[f].promise \in Writer
    BY <1>1, <2>1, UsableFacts
  <2>4. /\ Founded(heap') /\ StagesStay(heap, heap')
        /\ \A c \in Cont : heap'.promise[c].alive => heap.promise[c].alive
    BY <1>1, <2>1, <2>2, <2>3, ForwardedWaits
  <2>5. Unfinished(heap')
    BY <1>1, <2>4 DEF Unfinished, Waits, StagesStay
  <2> QED BY <2>4, <2>5 DEF Rooted
<1>6. ASSUME NEW g \in Future, MoveFuture(f, g) PROVE Rooted(heap')
  BY <1>1, <1>6, FutureMovedLoosens, RootedStays DEF MoveFuture
<1>7. ASSUME NEW g \in Future, NEW k \in Cont, NEW wrapped \in BOOLEAN, Then(f, g, k, wrapped)
      PROVE  Rooted(heap')
  <2>1. /\ heap.future[f].channel # 0 /\ heap.cont[k].stage = "none"
        /\ heap' = Chained(heap, f, g, k, wrapped)
    BY <1>7 DEF Then, Usable
  <2>2. Founded(heap') /\ Unfinished(heap')
    BY <1>1, <2>1, ChainedWaits
  <2> QED BY <2>2 DEF Rooted
<1>8. ASSUME NEW outcome, MakeReadyFuture(f, outcome) PROVE Rooted(heap')
  <2>1. heap'.promise = heap.promise /\ heap'.cont = heap.cont /\ DOMAIN heap' = DOMAIN heap
    BY <1>1, <1>8 DEF MakeReadyFuture, Shaped
  <2> QED BY <1>1, <2>1, LoosensSame, StagesSame, RootedStays
<1> QED BY <1>2, <1>3, <1>4, <1>5, <1>6, <1>7, <1>8 DEF Use

LEMMA HoldRooted == ASSUME Inv, Rooted(heap), NEW p \in Promise, Hold(p) PROVE Rooted(heap')
<1>1. /\ heap \in Heap /\ Shaped(heap) /\ p \in Writer /\ p \notin Cont
      /\ Founded(heap) /\ Unfinished(heap)
  BY HeapShaped, NotBoth DEF Inv, Good, Rooted
<1>2. CASE MakePromise(p)
  <2>1. heap' = Made(heap, p)
    BY <1>2 DEF MakePromise
  <2>2. /\ Shaped(heap') /\ heap'.cont = heap.cont /\ heap'.promise[p].task = Null
        /\ \A q \in Writer \ {p} : heap'.promise[q] = heap.promise[q]
    BY <1>1, <2>1, MadeAnew
  <2>3. \A c \in Cont : c \in Writer /\ c # p
    BY <1>1 DEF Writer
  <2>4. /\ \A q \in Writer : heap'.promise[q].task \in {heap.promise[q].task, Null}
        /\ \A c \in Cont : heap'.promise[c].alive \in {heap.promise[c].alive, FALSE}
    BY <2>2, <2>3
  <2>5. StagesStay(heap, heap')
    BY <1>1, <2>2, StagesSame
  <2>6. Loosens(heap, heap')
    BY <2>2, <2>4, <2>5 DEF Loosens
  <2> QED BY <2>6, RootedStays
<1>3. CASE DestroyPromise(p)
  BY <1>1, <1>3, AbandonedLoosens, RootedStays DEF DestroyPromise
<1>4. ASSUME NEW q \in Promise, MovePromise(p, q) PROVE Rooted(heap')
  <2> DEFINE a == Abandoned(heap, q)
  <2>1. heap' = Moved(a, p, q) /\ p # q /\ q \in Writer /\ q \notin Cont
    BY <1>4, NotBoth DEF MovePromise
  <2>2. Loosens(heap, a) /\ Shaped(a)
    BY <1>1, AbandonedLoosens DEF Loosens
  <2> HIDE DEF a
  <2>3. Rooted(a)
    BY <2>2, RootedStays
  <2>4. /\ Shaped(heap') /\ heap'.cont = a.cont /\ heap'.promise[q].task = a.promise[p].task
        /\ heap'.promise[p].task = Null
        /\ \A d \in Writer \ {p, q} : heap'.promise[d] = a.promise[d]
    <3>1. WaiterTaken(a, heap', p, q)
      BY <1>1, <2>1, <2>2, MovedTakesAlong
    <3> QED BY <3>1 DEF WaiterTaken
  <2>5. \A c \in Cont : heap'.promise[c] = a.promise[c]
    BY <1>1, <2>1, <2>4 DEF Writer
  <2>6. \A d \in Writer : a.promise[d].task \in Cont \cup {Null}
    BY <1>1, <2>2, HeapFields DEF Loosens
  <2>7. \A d \in Writer : heap'.promise[d].task \in Cont \cup {Null}
    BY <1>1, <2>4, <2>6
  <2>8. Founded(heap')
    BY <2>3, <2>4, <2>5, <2>7, ProgramsOwn DEF Rooted
  <2>9. Unfinished(heap')
    BY <2>3, <2>4, <2>5 DEF Rooted, Unfinished, Waits
  <2> QED BY <2>8, <2>9 DEF Rooted
<1>5. ASSUME NEW f \in Future, GetFuture(p, f) PROVE Rooted(heap')
  BY <1>1, <1>5, GotFutureLoosens, RootedStays DEF GetFuture
<1>6. ASSUME NEW outcome, SetResult(p, outcome) PROVE Rooted(heap')
  BY <1>1, <1>6, ResolvedLoosens, RootedStays DEF SetResult
<1> QED BY <1>2, <1>3, <1>4, <1>5, <1>6 DEF Hold

\* A continuation runs, and its promise is no more.
LEMMA RunRooted ==
  ASSUME Inv, Rooted(heap), NEW k \in Cont, NEW x, Founded(x), StagesStay(Started(k), x), Shaped(x),
         \A c \in Cont : x.promise[c].alive => heap.promise[c].alive,
         heap' = Abandoned(x, k)
  PROVE  Rooted(heap')
<1>1. heap.cont \in [Cont -> ContRecord] /\ "cont" \in DOMAIN heap /\ k \in Writer
  BY HeapParts, HeapShaped DEF Inv, Good, Shaped, Writer
<1>2. \A c \in Cont \ {k} : Started(k).cont[c] = heap.cont[c]
  BY <1>1 DEF Started
<1>3. Loosens(x, heap') /\ heap'.promise[k] = NoPromise
  BY <1>1, AbandonedLoosens
<1>4. Founded(heap')
  BY <1>3, FoundedStays
<1>5. ASSUME NEW c \in Cont, heap'.promise[c].alive PROVE Waits(heap', c)
  <2>1. c # k
    BY <1>3, <1>5 DEF NoPromise
  <2>2. heap'.promise[c].alive \in {x.promise[c].alive, FALSE}
    BY <1>3 DEF Loosens
  <2>3. heap.promise[c].alive
    BY <1>5, <2>2
  <2>4. Waits(heap, c)
    BY <2>3 DEF Rooted, Unfinished
  <2>5. Waits(x, c)
    BY <1>2, <2>1, <2>4 DEF Waits, StagesStay
  <2> QED BY <1>3, <2>5 DEF Waits, Loosens, StagesStay
<1> QED BY <1>4, <1>5 DEF Rooted, Unfinished

LEMMA TaskRooted == ASSUME Inv, Rooted(heap), RunTask PROVE Rooted(heap')
<1>1. Good(heap) /\ heap \in Heap /\ Blank(heap) /\ Links(heap) /\ Founded(heap)
  BY DEF Inv, Good, Rooted
<1>2. ASSUME NEW k \in Cont, heap.queue # <<>>, Head(heap.queue) = k
      PROVE  /\ Started(k) \in Heap /\ Good(Started(k)) /\ Shaped(Started(k))
             /\ Started(k).promise = heap.promise /\ Started(k).future = heap.future
             /\ Blank(Started(k)) /\ Links(Started(k)) /\ Founded(Started(k)) /\ k \in Writer
  <2>1. Started(k) = StartedIn(heap, k)
    BY DEF Started, StartedIn
  <2>2. Good(Started(k))
    BY <1>1, <1>2, <2>1, StartedKeeps
  <2>3. Started(k).promise = heap.promise /\ Started(k).future = heap.future
    BY <1>1 DEF Started, Heap
  <2> QED BY <1>1, <2>2, <2>3, HeapShaped DEF Good, Founded, Writer
<1>3. ASSUME NEW k \in Cont, RunToResult(k) PROVE Rooted(heap')
  <2> DEFINE s == Started(k)
  <2>1. PICK outcome \in {"value", "exception"} : heap' = Abandoned(Resolved(s, k, outcome), k)
    BY <1>3 DEF RunToResult
  <2> DEFINE x == Resolved(s, k, outcome)
  <2>2. Shaped(s) /\ s.promise = heap.promise /\ Founded(s)
    BY <1>2, <1>3 DEF RunToResult, Runs
  <2> HIDE DEF s
  <2>3. Loosens(s, x)
    BY <2>2, ResolvedLoosens
  <2>4. heap' = Abandoned(x, k)
    BY <2>1
  <2> HIDE DEF x
  <2>5. Founded(x) /\ StagesStay(s, x) /\ Shaped(x)
    BY <2>2, <2>3, FoundedStays DEF Loosens
  <2>6. ASSUME NEW c \in Cont, x.promise[c].alive PROVE heap.promise[c].alive
    <3>1. x.promise[c].alive \in {heap.promise[c].alive, FALSE}
      BY <2>2, <2>3 DEF Loosens
    <3> QED BY <2>6, <3>1
  <2> QED BY <2>4, <2>5, <2>6, RunRooted DEF s
<1>4. ASSUME NEW k \in Cont, NEW f \in Future, RunToFuture(k, f) PROVE Rooted(heap')
  <2> DEFINE s == Started(k)
             y == Forwarded(s, f, k)
             x == Destroyed(y, f)
  <2>1. /\ heap' = Abandoned(x, k) /\ heap.future[f].channel # 0
        /\ heap.future[f].promise \notin Downstream(k)
    BY <1>4 DEF RunToFuture, Usable
  <2>2. /\ s \in Heap /\ Good(s) /\ s.promise = heap.promise /\ s.future = heap.future
        /\ Blank(s) /\ Links(s) /\ Founded(s) /\ k \in Writer
    BY <1>2, <1>4 DEF RunToFuture, Runs
  <2> HIDE DEF s
  <2>3. s.future[f].promise \notin Below(s, k)
    BY <2>1, <2>2 DEF Downstream, Below
  <2>4. ~Available(FutureState(s, f)) => s.future[f].promise \in Writer
    BY <2>1, <2>2, UsableFacts
  <2>5. /\ Shaped(y) /\ Founded(y) /\ StagesStay(s, y)
        /\ \A c \in Cont : y.promise[c].alive => s.promise[c].alive
    BY <2>2, <2>3, <2>4, ForwardedWaits
  <2> HIDE DEF y
  <2>6. Loosens(y, x)
    BY <2>5, DestroyedLoosens
  <2> HIDE DEF x
  <2>7. Founded(x) /\ StagesStay(s, x) /\ Shaped(x)
    BY <2>5, <2>6, FoundedStays DEF Loosens, StagesStay
  <2>8. ASSUME NEW c \in Cont, x.promise[c].alive PROVE heap.promise[c].alive
    <3>1. x.promise[c].alive \in {y.promise[c].alive, FALSE}
      BY <2>6 DEF Loosens
    <3> QED BY <2>2, <2>5, <2>8, <3>1
  <2> QED BY <2>1, <2>7, <2>8, RunRooted DEF s
<1> QED BY <1>3, <1>4 DEF RunTask

\* What is rooted is the program's heap.
WaitsRooted == Rooted(heap)

LEMMA RootedHolds == Safe => []WaitsRooted
<1>1. Init => WaitsRooted
  <2> SUFFICES ASSUME Init PROVE WaitsRooted
    OBVIOUS
  <2>1. \A p \in Writer : heap.promise[p].task = Null /\ heap.promise[p].alive = FALSE
    BY DEF Init, EmptyHeap, NoPromise
  <2>2. Null \notin Writer /\ Cont \subseteq Writer
    BY FuturesAssumption DEF Writer
  <2> QED BY <2>1, <2>2 DEF WaitsRooted, Rooted, Founded, Unfinished
<1>2. Inv /\ WaitsRooted /\ [Next]_heap => WaitsRooted'
  BY TaskRooted, UseRooted, HoldRooted DEF Next, WaitsRooted
<1> QED BY <1>1, <1>2, InvHolds, PTL DEF Safe

\* Every continuation that waits is downstream of a promise that the program has and
\* has not resolved, or of a continuation that is in the queue: the program's own
\* promises and the reactor bring every result.
NoWaitIsLost ==
  \A k \in Cont : heap.cont[k].stage = "attached" =>
    \/ \E p \in Promise : /\ heap.promise[p].alive /\ heap.promise[p].channel # 0
                          /\ heap.written[heap.promise[p].channel] = "none"
                          /\ k \in Downstream(p)
    \/ \E c \in Cont : heap.cont[c].stage = "scheduled" /\ k \in Downstream(c)

\* No chain of then() is cut off from what will resolve it, whatever is moved,
\* forwarded or destroyed in whatever order: forward_to and the pointers that move
\* along leave no continuation waiting for itself or for one that is gone
\* (future.h:469-480, 763-767, 980-989, 1184-1189).
THEOREM EveryWaitHasASource == Safe => []NoWaitIsLost
<1>1. Inv /\ WaitsRooted => NoWaitIsLost
  <2> SUFFICES ASSUME Inv, WaitsRooted PROVE NoWaitIsLost
    OBVIOUS
  <2>1. heap \in Heap /\ Blank(heap) /\ Tasks(heap) /\ Founded(heap) /\ Unfinished(heap)
    BY DEF Inv, Good, WaitsRooted, Rooted
  <2> DEFINE Source(r) == \/ /\ r \in Promise /\ heap.promise[r].alive /\ heap.promise[r].channel # 0
                             /\ heap.written[heap.promise[r].channel] = "none"
                          \/ r \in Cont /\ heap.cont[r].stage = "scheduled"
             Brought == {k \in Cont : \E r \in Writer : Source(r) /\ k \in Downstream(r)}
             Lost == {k \in Cont : heap.cont[k].stage = "attached" /\ k \notin Brought}
  <2>2. \A d \in Writer : heap.promise[d].task \in Cont \cup {Null}
    BY <2>1, HeapFields
  <2>3. \A r \in Writer : Downstream(r) = Below(heap, r)
    BY DEF Downstream, Below
  <2>4. \A r \in Writer : /\ r \in Downstream(r)
                          /\ \A d \in Downstream(r) : heap.promise[d].task # Null =>
                               heap.promise[d].task \in Downstream(r)
    BY <2>2, <2>3, BelowClosed
  <2>5. Null \notin Cont /\ Cont \subseteq Writer /\ Promise \subseteq Writer
    BY FuturesAssumption DEF Writer
  <2>6. ASSUME NEW k \in Lost PROVE \E p \in Lost : heap.promise[p].task = k
    <3>1. k \in Cont /\ heap.cont[k].stage = "attached" /\ k \notin Brought
      OBVIOUS
    <3>2. PICK p \in Writer : heap.promise[p].task = k
      BY <2>1, <3>1 DEF Tasks
    <3>3. heap.promise[p].task # Null
      BY <2>5, <3>1, <3>2
    <3>4. heap.promise[p].channel # 0 /\ heap.written[heap.promise[p].channel] = "none"
      BY <2>1, <3>3 DEF Tasks
    <3>5. heap.promise[p].alive
      BY <2>1, <3>3 DEF Blank, NoPromise
    <3>6. \A r \in Writer : p \in Downstream(r) => k \in Downstream(r)
      BY <2>4, <3>2, <3>3
    <3>7. ~Source(p)
      BY <2>4, <3>1, <3>6
    <3>8. p \in Cont /\ heap.cont[p].stage = "attached"
      <4>1. p \in Cont
        BY <3>4, <3>5, <3>7 DEF Writer
      <4>2. Waits(heap, p)
        BY <2>1, <3>5, <4>1 DEF Unfinished
      <4> QED BY <3>7, <4>1, <4>2 DEF Waits
    <3>9. p \notin Brought
      BY <3>1, <3>6
    <3> QED BY <3>2, <3>8, <3>9
  <2>7. Lost = {}
    <3>1. Lost \in SUBSET Writer
      BY <2>5
    <3> HIDE DEF Lost
    <3> QED BY <2>1, <2>6, <3>1 DEF Founded
  <2>8. ASSUME NEW k \in Cont, heap.cont[k].stage = "attached"
        PROVE  \E r \in Writer : Source(r) /\ k \in Downstream(r)
    BY <2>7, <2>8
  <2> QED BY <2>8 DEF NoWaitIsLost
<1> QED BY <1>1, InvHolds, RootedHolds, PTL

\* When the queue is empty and the program has resolved every promise it has, no
\* continuation waits.
AllRunWhenResolved ==
  /\ heap.queue = <<>>
  /\ \A p \in Promise : heap.promise[p].alive /\ heap.promise[p].channel # 0 =>
       heap.written[heap.promise[p].channel] # "none"
  => \A k \in Cont : heap.cont[k].stage \in {"none", "done"}

\* A program that resolves its promises gets every continuation run
\* (future.h:763-767, 1174-1182).
THEOREM NothingIsLeftWaiting == Safe => []AllRunWhenResolved
<1>1. Inv /\ NoWaitIsLost => AllRunWhenResolved
  <2> SUFFICES ASSUME Inv, NoWaitIsLost, heap.queue = <<>>,
                      \A p \in Promise : heap.promise[p].alive /\ heap.promise[p].channel # 0 =>
                        heap.written[heap.promise[p].channel] # "none",
                      NEW k \in Cont
               PROVE  heap.cont[k].stage \in {"none", "done"}
    BY DEF AllRunWhenResolved
  <2>1. heap \in Heap /\ Queued(heap)
    BY DEF Inv, Good
  <2>2. \A c \in Cont : heap.cont[c].stage # "scheduled"
    BY <2>1, ItemsEmpty DEF Queued
  <2>3. heap.cont[k].stage # "attached"
    BY <2>2 DEF NoWaitIsLost
  <2> QED BY <2>1, <2>2, <2>3, HeapFields
<1> QED BY <1>1, InvHolds, EveryWaitHasASource, PTL
=============================================================================
