------------------------------ MODULE SingleUse ----------------------------
(***************************************************************************)
(* What a promise and its future promise: the two sides of a queue for one *)
(* item, used once.  What is read is what was written; a reader that waits *)
(* gets it in the end.                                                     *)
(***************************************************************************)
EXTENDS Integers

CONSTANT Channel

VARIABLES
  written,   \* what each promise was resolved with
  read,      \* what the reader of each future got
  waiting    \* the futures with a continuation that has not run

vars == <<written, read, waiting>>

Init ==
  /\ written = [n \in Channel |-> "none"]
  /\ read = [n \in Channel |-> "none"]
  /\ waiting = {}

Write(n) ==
  /\ written[n] = "none"
  /\ written'[n] \in {"value", "exception"}
  /\ read'[n] = read[n]

Read(n) ==
  /\ written[n] # "none" /\ read[n] = "none"
  /\ read'[n] = written[n]
  /\ written'[n] = written[n]

Keep(n) == written'[n] = written[n] /\ read'[n] = read[n]

\* A reader waits from some moment until it has read.
Next ==
  /\ written' \in [Channel -> {"none", "value", "exception"}]
  /\ read' \in [Channel -> {"none", "value", "exception"}]
  /\ \A n \in Channel : Write(n) \/ Read(n) \/ Keep(n)
  /\ waiting' \subseteq Channel
  /\ \A n \in Channel :
       /\ n \in waiting /\ n \notin waiting' => Read(n)
       /\ n \notin waiting /\ n \in waiting' => read'[n] = "none"

\* A result somebody waits for is read.
Delivery == \A n \in Channel : n \in waiting /\ written[n] # "none" ~> read[n] = written[n]

Spec == Init /\ [][Next]_vars /\ Delivery
=============================================================================
