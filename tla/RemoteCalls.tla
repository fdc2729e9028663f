---------------------------- MODULE RemoteCalls ----------------------------
(***************************************************************************)
(* What OS::submit_to promises, with no queues, signals or sleeping in     *)
(* sight: a function submitted to another CPU is run there exactly once,   *)
(* in the order this pair of CPUs submitted its functions; when its future *)
(* is resolved it is answered; then, once, the future handed to the        *)
(* submitter becomes ready.  A runner that may drop calls says which, and  *)
(* how many it may have dropped before it need not run the others.         *)
(***************************************************************************)
EXTENDS Integers, Sequences, FiniteSets

CONSTANTS Cpus, Call, Origin, Target,
          Losable,  \* calls that may be dropped before they are run
          MaxLost   \* a runner that has dropped so many need not run any more

VARIABLES
  stage,   \* how far each call has got
  inbox    \* inbox[o][t]: calls from o that t has still to run, in order

vars == <<stage, inbox>>

Stage == {"new", "submitted", "executing", "answered", "completed", "lost"}

Init ==
  /\ stage = [k \in Call |-> "new"]
  /\ inbox = [o \in Cpus |-> [t \in Cpus |-> <<>>]]

Submit(k) ==
  /\ stage[k] = "new"
  /\ Origin[k] # Target[k]
  /\ stage' = [stage EXCEPT ![k] = "submitted"]
  /\ inbox' = [inbox EXCEPT ![Origin[k]][Target[k]] = Append(@, k)]

\* A call to the CPU one is on is a plain function call.
RunInline(k) ==
  /\ stage[k] = "new"
  /\ Origin[k] = Target[k]
  /\ stage' = [stage EXCEPT ![k] = "completed"]
  /\ UNCHANGED inbox

Run(o, t) ==
  /\ inbox[o][t] # <<>>
  /\ stage' = [stage EXCEPT ![Head(inbox[o][t])] = "executing"]
  /\ inbox' = [inbox EXCEPT ![o][t] = Tail(@)]

\* A dropped call is never run, and holds up nobody.
Lose(k) ==
  /\ k \in Losable /\ stage[k] = "submitted"
  /\ stage' = [stage EXCEPT ![k] = "lost"]
  /\ \E i \in 1 .. Len(inbox[Origin[k]][Target[k]]) :
       /\ inbox[Origin[k]][Target[k]][i] = k
       /\ inbox' = [inbox EXCEPT ![Origin[k]][Target[k]] =
                      SubSeq(@, 1, i - 1) \o SubSeq(@, i + 1, Len(@))]

Answer(k) ==
  /\ stage[k] = "executing"
  /\ stage' = [stage EXCEPT ![k] = "answered"]
  /\ UNCHANGED inbox

\* One poll of the responses may complete several calls.
Complete(done) ==
  /\ \A k \in done : stage[k] = "answered"
  /\ stage' = [k \in Call |-> IF k \in done THEN "completed" ELSE stage[k]]
  /\ UNCHANGED inbox

Next ==
  \/ \E k \in Call : Submit(k) \/ RunInline(k) \/ Answer(k) \/ Lose(k)
  \/ \E o, t \in Cpus : Run(o, t)
  \/ \E done \in (SUBSET Call) \ {{}} : Complete(done)

Safe == Init /\ [][Next]_vars

Lost == {k \in Call : stage[k] = "lost"}

\* Submitting is up to the program; what was submitted moves on, unless too many
\* calls were dropped.
Fairness ==
  /\ \A o, t \in Cpus : WF_vars(Cardinality(Lost) < MaxLost /\ Run(o, t))
  /\ \A k \in Call :
       WF_vars(Answer(k)) /\ WF_vars(\E done \in SUBSET Call : k \in done /\ Complete(done))

Spec == Safe /\ Fairness
=============================================================================
