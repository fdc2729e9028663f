------------------------------- MODULE Futures -----------------------------
(***************************************************************************)
(* Promises, futures and continuations (seastar/future.h): who points to   *)
(* whom, and where a result is, while promises and futures are moved,      *)
(* resolved, chained and destroyed in any order.                           *)
(*                                                                         *)
(* An object is a place in memory.  The heap is one record, so that the    *)
(* functions of the header can be composed as the code composes them.  All *)
(* of it belongs to one CPU: a step is a call that runs to its end.        *)
(*                                                                         *)
(* The program is well behaved: it resolves a promise once and before it   *)
(* destroys it, uses a future once, and returns from a continuation no     *)
(* future that waits for that continuation.                                *)
(***************************************************************************)
EXTENDS Integers, Sequences, FiniteSets

CONSTANTS
  Promise,   \* places for the program's promises
  Future,    \* places for its futures
  Cont,      \* places for the continuations made by then() and then_wrapped()
  Channels,  \* how many promise/future pairs an instance makes
  Null

ASSUME FuturesAssumption ==
  /\ Channels \in Nat
  /\ Null \notin Promise \cup Future \cup Cont \cup {"local", "task"}
  /\ Promise \cap Cont = {}

VARIABLES heap

\* A continuation holds the promise of the future that then() returned.
Writer == Promise \cup Cont

\* Each pair of a promise and a future that is made gets a number, which stays
\* with the result wherever it goes; it is no part of the program.
Channel == 1 .. Channels

State == {"invalid", "future", "value", "exception"}

\* A result that is not there yet is taken for one.
AvailableTooSoon(s) == s # "invalid"

Available(s) == s \in {"value", "exception"}

NoPromise == [alive |-> FALSE, future |-> Null, state |-> Null, local |-> "invalid",
              task |-> Null, channel |-> 0]
NewPromise(n) == [alive |-> TRUE, future |-> Null, state |-> "local", local |-> "future",
                  task |-> Null, channel |-> n]

NoFuture == [alive |-> FALSE, promise |-> Null, local |-> "invalid", channel |-> 0]

NoCont == [stage |-> "none", state |-> "invalid", wrapped |-> FALSE, channel |-> 0]

\* made counts the pairs, got says which futures were taken, written and read
\* what happened to each.
EmptyHeap == [promise |-> [p \in Writer |-> NoPromise],
              future  |-> [f \in Future |-> NoFuture],
              cont    |-> [k \in Cont |-> NoCont],
              queue   |-> <<>>,
              made    |-> 0,
              got     |-> [n \in Channel |-> FALSE],
              written |-> [n \in Channel |-> "none"],
              read    |-> [n \in Channel |-> "none"]]

Init == heap = EmptyHeap

-----------------------------------------------------------------------------
(* The parts the operations of the header are made of.                     *)

\* *promise::_state
StateAt(h, p) ==
  IF h.promise[p].state = "local" THEN h.promise[p].local ELSE h.cont[h.promise[p].task].state

PutState(h, p, s) ==
  IF h.promise[p].state = "local"
    THEN [h EXCEPT !.promise[p].local = s]
    ELSE [h EXCEPT !.cont[h.promise[p].task].state = s]

\* *future::state()
FutureState(h, f) ==
  IF h.future[f].promise # Null THEN StateAt(h, h.future[f].promise) ELSE h.future[f].local

PutFutureState(h, f, s) ==
  IF h.future[f].promise # Null
    THEN PutState(h, h.future[f].promise, s)
    ELSE [h EXCEPT !.future[f].local = s]

\* future(promise*): each points to the other.
Linked(h, p, f) ==
  [h EXCEPT !.promise[p].future = f,
            !.future[f] = [alive |-> TRUE, promise |-> p, local |-> "future",
                           channel |-> h.promise[p].channel]]

\* The end of the pointer of a promise to its future.
Unlinked(h, f) ==
  IF h.future[f].promise = Null THEN h
  ELSE [h EXCEPT !.promise[h.future[f].promise].future = Null, !.future[f].promise = Null]

\* A promise that is resolved without its continuation being scheduled.
NeverReady(h, p) == h

\* make_ready: the continuation, if then() was called, goes to the queue.
MadeReady(h, p) ==
  LET k == h.promise[p].task
  IN  IF k = Null THEN h
      ELSE [h EXCEPT !.promise[p].state = Null, !.promise[p].task = Null,
                     !.cont[k].stage = "scheduled", !.queue = Append(@, k)]

\* set_value, set_exception and their urgent forms: need_preempt() is true.
Resolved(h, p, outcome) ==
  LET set == PutState(h, p, outcome)
  IN  MadeReady([set EXCEPT !.written[h.promise[p].channel] = outcome], p)

\* A promise that dies with the result its future should have had.
TakenAlong(h, p) ==
  LET f == h.promise[p].future
      freed == [h EXCEPT !.promise[p] = NoPromise]
  IN  IF f = Null THEN freed ELSE [freed EXCEPT !.future[f].promise = Null]

\* abandoned, and the end of the promise: a future that is still linked takes
\* the result.
Abandoned(h, p) ==
  LET f == h.promise[p].future
      freed == [h EXCEPT !.promise[p] = NoPromise]
  IN  IF f = Null THEN freed
      ELSE [freed EXCEPT !.future[f].local = StateAt(h, p), !.future[f].promise = Null]

\* What a promise leaves where it was moved from.
MovedFrom(old) ==
  [old EXCEPT !.future = Null, !.state = Null, !.task = Null, !.channel = 0,
              !.local = IF old.state = "local" THEN "invalid" ELSE @]

\* What it is where it was moved to: a result that was not there yet moves along.
MovedTo(old) == [old EXCEPT !.local = IF old.state = "local" THEN @ ELSE "future"]

\* migrated left out: the future keeps its pointer to the old place.
NotMigrated(h, p, q) ==
  [h EXCEPT !.promise[q] = MovedTo(h.promise[p]), !.promise[p] = MovedFrom(h.promise[p])]

\* The state of the old place is not moved.
MovedWithoutState(h, p, q) ==
  LET f == h.promise[p].future
      moved == [NotMigrated(h, p, q) EXCEPT !.promise[q].local = "future"]
  IN  IF f = Null THEN moved ELSE [moved EXCEPT !.future[f].promise = q]

\* promise(promise&&) and migrated: the place q is built from p.
Moved(h, p, q) ==
  LET f == h.promise[p].future
      moved == NotMigrated(h, p, q)
  IN  IF f = Null THEN moved ELSE [moved EXCEPT !.future[f].promise = q]

\* The result of f is taken by its only reader.
Consumed(h, f) ==
  [h EXCEPT !.read[h.future[f].channel] = FutureState(h, f), !.future[f].channel = 0]

\* future_state::forward_to: the result goes to p.
ForwardedResult(h, f, p) ==
  Resolved(PutFutureState(Consumed(h, f), f, "invalid"), p, FutureState(h, f))

\* future::forward_to: a result goes to p; without one, the promise of f becomes
\* what p was.
Forwarded(h, f, p) ==
  IF Available(FutureState(h, f))
    THEN ForwardedResult(h, f, p)
    ELSE LET pr == h.future[f].promise
         IN  Moved([Unlinked(h, f) EXCEPT !.future[f].channel = 0], p, pr)

\* A promise, and the future get_future gives it.
Made(h, p) == [h EXCEPT !.promise[p] = NewPromise(h.made + 1), !.made = @ + 1]

GotFuture(h, p, f) == Linked([h EXCEPT !.got[h.promise[p].channel] = TRUE], p, f)

\* The end of a future; an exception that nobody read is reported, from a copy,
\* and stays in its promise.
Destroyed(h, f) == [Unlinked(h, f) EXCEPT !.future[f] = NoFuture]

\* Move construction, and move assignment to a future that is destroyed first.
FutureMoved(h, f, g) ==
  LET old == h.future[f]
      p == old.promise
      moved == [Destroyed(h, g) EXCEPT
                 !.future[g] = [old EXCEPT !.local = IF p = Null THEN @ ELSE "future"],
                 !.future[f] = [old EXCEPT !.promise = Null, !.channel = 0,
                                           !.local = IF p = Null THEN "invalid" ELSE @]]
  IN  IF p = Null THEN moved ELSE [moved EXCEPT !.promise[p].future = g]

\* then and then_wrapped: g is the future that is returned; a result that is
\* there goes into a continuation in the queue, and f stays linked; else the
\* promise keeps the continuation and points to the state in it.
Chained(h, f, g, k, wrapped) ==
  LET s == FutureState(h, f)
      p == h.future[f].promise
      chained == [GotFuture(Made(h, k), k, g) EXCEPT
                    !.future[f].channel = 0,
                    !.cont[k] = [stage |-> "attached", state |-> "future",
                                 wrapped |-> wrapped, channel |-> h.future[f].channel]]
  IN  IF Available(s)
        THEN [PutFutureState(chained, f, "invalid") EXCEPT
                !.cont[k].stage = "scheduled", !.cont[k].state = s, !.queue = Append(@, k)]
        ELSE [Unlinked(chained, f) EXCEPT !.promise[p].state = "task", !.promise[p].task = k]

-----------------------------------------------------------------------------
(* What the program does.                                                  *)

Free(f) == ~heap.future[f].alive
Fresh == heap.made + 1

\* A future that has not been used, moved from or destroyed.
Usable(f) == heap.future[f].alive /\ heap.future[f].channel # 0

MakePromise(p) ==
  /\ ~heap.promise[p].alive /\ heap.made < Channels
  /\ heap' = Made(heap, p)

\* make_ready_future and make_exception_future.
MakeReadyFuture(f, outcome) ==
  /\ Free(f) /\ heap.made < Channels
  /\ heap' = [heap EXCEPT !.future[f] = [alive |-> TRUE, promise |-> Null, local |-> outcome,
                                         channel |-> Fresh],
                          !.made = @ + 1, !.got[Fresh] = TRUE, !.written[Fresh] = outcome]

GetFuture(p, f) ==
  LET n == heap.promise[p].channel
  IN  /\ heap.promise[p].alive /\ n # 0 /\ ~heap.got[n] /\ Free(f)
      /\ heap' = GotFuture(heap, p, f)

\* A promise somebody waits for is destroyed only when it is resolved.
MayDestroy(p) ==
  heap.promise[p].future # Null \/ heap.promise[p].task # Null => StateAt(heap, p) # "future"

DestroyPromise(p) ==
  /\ heap.promise[p].alive /\ MayDestroy(p)
  /\ heap' = Abandoned(heap, p)

\* Move construction, and move assignment to a promise that is destroyed first.
MovePromise(p, q) ==
  /\ p # q /\ heap.promise[p].alive /\ heap.promise[p].channel # 0
  /\ MayDestroy(q)
  /\ heap' = Moved(Abandoned(heap, q), p, q)

SetResult(p, outcome) ==
  LET n == heap.promise[p].channel
  IN  /\ heap.promise[p].alive /\ n # 0 /\ heap.written[n] = "none"
      /\ heap' = Resolved(heap, p, outcome)

MoveFuture(f, g) ==
  /\ f # g /\ Usable(f)
  /\ heap' = FutureMoved(heap, f, g)

DestroyFuture(f) ==
  /\ heap.future[f].alive
  /\ heap' = Destroyed(heap, f)

\* get and get0 of a future that is available.
Get(f) ==
  /\ Usable(f) /\ Available(FutureState(heap, f))
  /\ heap' = Unlinked(PutFutureState(Consumed(heap, f), f, "invalid"), f)

\* ignore_ready_future: the result is gone, the future stays linked.
IgnoreReady(f) ==
  /\ Usable(f) /\ Available(FutureState(heap, f))
  /\ heap' = [PutFutureState(heap, f, "invalid") EXCEPT !.future[f].channel = 0]

Then(f, g, k, wrapped) ==
  /\ Usable(f) /\ Free(g) /\ heap.cont[k].stage = "none" /\ heap.made < Channels
  /\ heap' = Chained(heap, f, g, k, wrapped)

-----------------------------------------------------------------------------
(* The run of a continuation: its function is called, unless it is one of  *)
(* then() and the result is an exception; what it returns resolves the     *)
(* promise in the continuation, or takes it over; then the continuation    *)
(* and its promise are destroyed.                                          *)

\* The promises that are resolved after p, through the continuations that wait.
Downstream(p) ==
  {w \in Writer : \A S \in SUBSET Writer :
      p \in S /\ (\A d \in S : heap.promise[d].task # Null => heap.promise[d].task \in S) => w \in S}

\* forward_to with a promise of the program's own.
ForwardTo(f, p) ==
  LET n == heap.promise[p].channel
  IN  /\ Usable(f) /\ heap.promise[p].alive /\ n # 0 /\ heap.written[n] = "none"
      /\ heap.future[f].promise \notin Downstream(p)
      /\ heap' = Forwarded(heap, f, p)

Started(k) == [heap EXCEPT !.queue = Tail(@), !.cont[k].stage = "done", !.cont[k].state = "invalid",
                           !.read[heap.cont[k].channel] = heap.cont[k].state]

Runs(k) == heap.queue # <<>> /\ Head(heap.queue) = k

CallsFunction(k) == heap.cont[k].wrapped \/ heap.cont[k].state = "value"

\* It throws or returns an outcome, or the outcome is passed on.
RunToResult(k) ==
  /\ Runs(k)
  /\ \E outcome \in {"value", "exception"} :
       /\ CallsFunction(k) \/ outcome = "exception"
       /\ heap' = Abandoned(Resolved(Started(k), k, outcome), k)

\* It returns a future the program has.
RunToFuture(k, f) ==
  /\ Runs(k) /\ CallsFunction(k)
  /\ Usable(f) /\ heap.future[f].promise \notin Downstream(k)
  /\ heap' = Abandoned(Destroyed(Forwarded(Started(k), f, k), f), k)

-----------------------------------------------------------------------------
Use(f) ==
  \/ DestroyFuture(f) \/ Get(f) \/ IgnoreReady(f)
  \/ \E p \in Promise : ForwardTo(f, p)
  \/ \E g \in Future : MoveFuture(f, g)
  \/ \E g \in Future, k \in Cont, wrapped \in BOOLEAN : Then(f, g, k, wrapped)
  \/ \E outcome \in {"value", "exception"} : MakeReadyFuture(f, outcome)

Hold(p) ==
  \/ MakePromise(p) \/ DestroyPromise(p)
  \/ \E q \in Promise : MovePromise(p, q)
  \/ \E f \in Future : GetFuture(p, f)
  \/ \E outcome \in {"value", "exception"} : SetResult(p, outcome)

RunTask == \E k \in Cont : RunToResult(k) \/ \E f \in Future : RunToFuture(k, f)

Next == RunTask \/ (\E f \in Future : Use(f)) \/ (\E p \in Promise : Hold(p))

Safe == Init /\ [][Next]_heap

\* The reactor runs what is in its queue.
Spec == Safe /\ WF_heap(RunTask)

-----------------------------------------------------------------------------
(* Properties.                                                             *)

\* Every field has its type.
TypeOK ==
  /\ \A p \in Writer :
       heap.promise[p] \in [alive : BOOLEAN, future : Future \cup {Null},
                            state : {"local", "task", Null}, local : State,
                            task : Cont \cup {Null}, channel : 0 .. Channels]
  /\ \A f \in Future :
       heap.future[f] \in [alive : BOOLEAN, promise : Writer \cup {Null}, local : State,
                           channel : 0 .. Channels]
  /\ \A k \in Cont :
       heap.cont[k] \in [stage : {"none", "attached", "scheduled", "done"}, state : State,
                         wrapped : BOOLEAN, channel : 0 .. Channels]
  /\ heap.queue \in Seq(Cont)
  /\ \A n \in Channel :
       {heap.written[n], heap.read[n]} \subseteq {"none", "value", "exception"}

\* No pointer dangles: "The future and promise will be remember each other, even
\* if either or both are moved" (future.h:496), a promise that points into a
\* continuation owns it, and a scheduled continuation is owned by the queue.
PointersAgree ==
  /\ \A p \in Writer, f \in Future :
       heap.promise[p].future = f <=> heap.future[f].promise = p
  /\ \A p \in Writer : heap.promise[p].future # Null =>
       heap.promise[p].alive /\ heap.future[heap.promise[p].future].alive
         /\ heap.promise[p].state # Null
  /\ \A p \in Writer : (heap.promise[p].state = "task") = (heap.promise[p].task # Null)
  /\ \A k \in Cont :
       Cardinality({p \in Writer : heap.promise[p].task = k})
         = IF heap.cont[k].stage = "attached" THEN 1 ELSE 0
  /\ \A k \in Cont :
       Cardinality({i \in DOMAIN heap.queue : heap.queue[i] = k})
         = IF heap.cont[k].stage = "scheduled" THEN 1 ELSE 0

\* Where an unread result is: "the value is stored in exactly one of three
\* locations" (future.h:132).
Places(n) ==
  {p \in Writer : heap.promise[p].channel = n /\ Available(heap.promise[p].local)}
    \cup {f \in Future : heap.future[f].channel = n /\ Available(heap.future[f].local)}
    \cup {k \in Cont : heap.cont[k].channel = n /\ Available(heap.cont[k].state)}

\* Somebody can still read the result of the pair: its future or its continuation.
HasReader(n) ==
  \/ \E f \in Future : heap.future[f].alive /\ heap.future[f].channel = n
  \/ \E k \in Cont : heap.cont[k].channel = n /\ heap.cont[k].stage \in {"attached", "scheduled"}

ValueInOnePlace ==
  \A n \in Channel :
    /\ Cardinality(Places(n)) <= 1
    /\ heap.written[n] # "none" /\ HasReader(n) => Cardinality(Places(n)) = 1

\* No assertion of then(), forward_to() or set_value() fails (future.h:763, 241): a
\* future that can be used and has no result still has the promise that will
\* bring it, and a promise not yet resolved has a place to put its result.
EndsMeet ==
  /\ \A f \in Future : Usable(f) => heap.future[f].promise # Null \/ Available(heap.future[f].local)
  /\ \A p \in Writer :
       LET n == heap.promise[p].channel
       IN  heap.promise[p].alive /\ n # 0 /\ heap.written[n] = "none"
             => heap.promise[p].state # Null /\ StateAt(heap, p) = "future"

\* "The reader and writer sides, respectively, of a single-item, single use
\* queue", whatever "the order of operations is" (future.h:81).
Abstract == INSTANCE SingleUse WITH
  written <- heap.written,
  read <- heap.read,
  waiting <- {n \in Channel : \E k \in Cont :
                heap.cont[k].channel = n /\ heap.cont[k].stage \in {"attached", "scheduled"}}

ImplementsSingleUse == Abstract!Spec
=============================================================================
