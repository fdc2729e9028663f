----------------------------- MODULE MCSyscalls ----------------------------
(* Small instances of Syscalls for TLC; the calls are the numbers from one. *)
EXTENDS Syscalls

\* Calls are alike until they are made, so it is enough to make them in one order.
InTurn == \A k \in Call \ {1} : st'[k] # "new" => st'[k - 1] # "new"

MCSpec == Init /\ [][Next /\ InTurn]_vars /\ Fairness
=============================================================================
