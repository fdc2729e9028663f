------------------------------ MODULE MCTimers -----------------------------
(* Small instances of Timers for TLC.                                       *)
EXTENDS Timers

CONSTANTS t1, t2, t3
=============================================================================
