------------------------------ MODULE FutureUses ----------------------------
(***************************************************************************)
(* What miniss makes of futures: coroutines, when_all, do_with, finally    *)
(* and the program's exit, in a program that uses them together:           *)
(*                                                                         *)
(*   future<int> task() {                                                  *)
(*     auto v = co_await when_all({ do_with(obj, [](auto&) { return f1; }),*)
(*                                  f2.finally([] { return f3; }) });      *)
(*     for (auto& f : v) f.get0();                                         *)
(*     co_return 0;                                                        *)
(*   }                                                                     *)
(*                                                                         *)
(* The vector may lack either part or both.  Somebody else resolves f1, f2 *)
(* and f3, with a value or an exception, at any time and in any order.     *)
(* Futures has the operations all of this is made of; as there, a step is  *)
(* a task that runs to its end.                                            *)
(***************************************************************************)
EXTENDS Integers, Sequences, FiniteSets

CONSTANT Null

Source == {"f1", "f2", "f3"}
Part == {"kept", "followed"}     \* the future of do_with, that of finally

\* The continuation when_all attaches to each part.
Waiter(part) == IF part = "kept" THEN "wait kept" ELSE "wait followed"

VARIABLES
  heap,      \* as in Futures
  parts,     \* the futures in the vector
  pc,        \* the coroutine: "new", "suspended" or "done"
  shared,    \* the continuations that share When_all_state
  obj,       \* the continuation that owns do_with's object, if any
  result,    \* what the continuation inside finally keeps: the outcome of f2
  exited     \* what the process exits with

vars == <<heap, parts, pc, shared, obj, result, exited>>

F == INSTANCE Futures WITH
  Promise <- Source \cup {"all", "task"},
  Future <- Source \cup Part \cup {"all", "task", "fut_", "temporary"},
  Cont <- {"do_with", "finally", "finally body", "wait kept", "wait followed", "await", "exit"},
  Channels <- 12

\* The outcome of a source; Init makes the three pairs in this order.
Outcome(f) == heap.written[[f1 |-> 1, f2 |-> 2, f3 |-> 3][f]]

Paired(h, p, f) == F!GotFuture(F!Made(h, p), p, f)

Init ==
  /\ heap = Paired(Paired(Paired(F!EmptyHeap, "f1", "f1"), "f2", "f2"), "f3", "f3")
  /\ parts \in SUBSET Part
  /\ pc = "new" /\ shared = {} /\ obj = "none" /\ result = "none" /\ exited = "no"

-----------------------------------------------------------------------------
(* do_with, finally and when_all.                                          *)

\* A call of then_wrapped on a temporary future.
Wrapped(h, f, g, k) == F!Destroyed(F!Chained(h, f, g, k, TRUE), f)

\* do_with, its function returning f1, and f2.finally().
MadeParts(h) ==
  LET kept == IF "kept" \in parts THEN Wrapped(h, "f1", "kept", "do_with") ELSE h
  IN  IF "followed" \in parts THEN Wrapped(kept, "f2", "followed", "finally") ELSE kept

\* The object dies when do_with returns.
Nobody == "none"

\* do_with moves the object into the function of its continuation.
Owner == IF "kept" \in parts THEN "do_with" ELSE "none"

\* Only the last continuation shares the state.
LastSharer == IF "followed" \in parts THEN {"wait followed"} ELSE {Waiter(part) : part \in parts}

Sharers == {Waiter(part) : part \in parts}

\* wait(): f = f.then_wrapped(...), for each element of futures_.
Waited(h, part) ==
  IF part \notin parts THEN h
  ELSE F!Destroyed(F!FutureMoved(F!Chained(h, part, "temporary", Waiter(part), TRUE),
                                 "temporary", part), "temporary")

\* ~When_all_state that does not resolve its promise.
DestroyedUnresolved(h) == F!Abandoned(h, "all")

\* ~When_all_state: the vector goes to the promise, its elements stay where they are.
StateDestroyed(h) == F!Abandoned(F!Resolved(h, "all", "value"), "all")

\* The last owner of the state destroys it, when_all itself if nobody shares it.
Released(h) == IF shared' = {} THEN StateDestroyed(h) ELSE h

WhenAll(h) ==
  Released(F!GotFuture(Waited(Waited(F!Made(h, "all"), "kept"), "followed"), "all", "all"))

-----------------------------------------------------------------------------
(* The coroutine.                                                          *)

\* co_await moves the future into the awaiter, in the frame.
Awaited(h) == F!Destroyed(F!FutureMoved(h, "all", "fut_"), "all")

\* await_ready
Ready(h) == F!Available(F!FutureState(h, "fut_"))

\* await_suspend: the future that then_wrapped returns is dropped.
Suspended(h) == F!Destroyed(F!Chained(h, "fut_", "temporary", "await", TRUE), "temporary")

\* From await_resume to the end: get0() throws for the first part that failed;
\* the frame goes with its futures and, resolved, its promise.
Finished(h) ==
  LET failed == \E part \in parts : F!FutureState(h, part) = "exception"
      emptied == F!Destroyed(F!Destroyed(F!Destroyed(h, "fut_"), "kept"), "followed")
  IN  F!Abandoned(F!Resolved(emptied, "task", IF failed THEN "exception" ELSE "value"), "task")

\* The body, from get_return_object to where it suspends or ends.
Body(h) ==
  LET called == Awaited(WhenAll(MadeParts(Paired(h, "task", "task"))))
  IN  IF Ready(called) THEN Finished(called) ELSE Suspended(called)

\* App::run's task: it calls the coroutine and waits for it with then_wrapped.
Start ==
  LET body == Body(heap)
  IN  /\ pc = "new"
      /\ shared' = Sharers /\ obj' = Owner
      /\ heap' = F!Destroyed(Wrapped(body, "task", "temporary", "exit"), "temporary")
      /\ pc' = IF body.future["fut_"].alive THEN "suspended" ELSE "done"
      /\ UNCHANGED <<parts, result, exited>>

-----------------------------------------------------------------------------
(* The runs of the continuations: Started takes one from the queue, its    *)
(* function runs, its promise is resolved and destroyed, then its function *)
(* with what that keeps.                                                   *)

\* Nothing runs after the exit.
Runs(k) == exited = "no" /\ F!Runs(k)

Ended(h, k, outcome) == F!Abandoned(F!Resolved(h, k, outcome), k)

\* The function returns the future it was given.
PassesOn(k) == Ended(F!Started(k), k, heap.cont[k].state)

RunDoWith ==
  /\ Runs("do_with")
  /\ heap' = PassesOn("do_with")
  /\ obj' = "none"
  /\ UNCHANGED <<parts, pc, shared, result, exited>>

\* finally_body: the callback returns f3; the future of the continuation that
\* waits for it is returned before it has a result.
RunFinally ==
  LET called == Wrapped(F!Started("finally"), "f3", "temporary", "finally body")
      returned == F!Destroyed(F!Forwarded(called, "temporary", "finally"), "temporary")
  IN  /\ Runs("finally")
      /\ heap' = F!Abandoned(returned, "finally")
      /\ result' = heap.cont["finally"].state
      /\ UNCHANGED <<parts, pc, shared, obj, exited>>

\* The outcome of f2, unless the callback failed.
RunFinallyBody ==
  LET k == "finally body"
  IN  /\ Runs(k)
      /\ heap' = Ended(F!Started(k), k, IF heap.cont[k].state = "value" THEN result ELSE "exception")
      /\ UNCHANGED <<parts, pc, shared, obj, result, exited>>

RunWaiter(part) ==
  /\ Runs(Waiter(part))
  /\ shared' = shared \ {Waiter(part)}
  /\ heap' = Released(PassesOn(Waiter(part)))
  /\ UNCHANGED <<parts, pc, obj, result, exited>>

\* The awaiter's future is assigned the one with the result, and the coroutine
\* runs to its end inside the continuation.
RunAwait ==
  LET assigned == [F!Started("await") EXCEPT !.future["fut_"].local = heap.cont["await"].state]
  IN  /\ Runs("await")
      /\ heap' = Ended(Finished(assigned), "await", "value")
      /\ pc' = "done"
      /\ UNCHANGED <<parts, shared, obj, result, exited>>

\* OS::exit ends the process.
RunExit ==
  /\ Runs("exit")
  /\ heap' = F!Started("exit")
  /\ exited' = IF heap.cont["exit"].state = "exception" THEN "failed" ELSE "ok"
  /\ UNCHANGED <<parts, pc, shared, obj, result>>

RunTask ==
  \/ Start \/ RunDoWith \/ RunFinally \/ RunFinallyBody
  \/ (\E part \in Part : RunWaiter(part)) \/ RunAwait \/ RunExit

\* set_value or set_exception, and the end of the promise.
Resolve(f) ==
  /\ exited = "no" /\ Outcome(f) = "none"
  /\ \E outcome \in {"value", "exception"} : heap' = Ended(heap, f, outcome)
  /\ UNCHANGED <<parts, pc, shared, obj, result, exited>>

Next == RunTask \/ \E f \in Source : Resolve(f)

Spec == Init /\ [][Next]_vars

-----------------------------------------------------------------------------
(* Properties.                                                             *)

\* What a part comes to: finally waits for its callback, and either may fail.
Expected(part) ==
  IF part = "kept" THEN Outcome("f1")
  ELSE IF "exception" \in {Outcome("f2"), Outcome("f3")} THEN "exception" ELSE Outcome("f2")

\* The vector that when_all delivers has every future of the program with its own
\* result, in its own place (future_util.h:23): no continuation of wait() outlives
\* the state it shares.
AllArrive ==
  pc = "suspended" /\ shared = {} =>
    \A part \in parts : F!FutureState(heap, part) = Expected(part)

\* "the object will not be destructed until the completion of the future returned
\* by the function" (do_with.h:39), and is when the result is read.
KeptUntilDone ==
  pc # "new" /\ "kept" \in parts =>
    /\ obj = "none" => Outcome("f1") # "none"
    /\ heap.cont["wait kept"].stage = "done" => obj = "none"

\* When there is nothing left to run and all that the program waits for is there,
\* it has exited, with a failure if and only if a part of it failed: no wait is
\* lost in the chain through then_wrapped, the moves of promises and the frame of
\* the coroutine.  Every task runs once, so the program gets there.
Awaits(part) == IF part = "kept" THEN {"f1"} ELSE {"f2", "f3"}

AllThere == \A part \in parts : \A f \in Awaits(part) : Outcome(f) # "none"

Failing == \E part \in parts : Expected(part) = "exception"

ExitsInTheEnd ==
  /\ pc # "new" /\ heap.queue = <<>> /\ AllThere => exited # "no"
  /\ exited # "no" => AllThere /\ exited = IF Failing THEN "failed" ELSE "ok"
=============================================================================
