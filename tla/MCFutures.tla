------------------------------ MODULE MCFutures ----------------------------
(* Small instances of Futures for TLC.                                     *)
EXTENDS Futures

CONSTANTS p1, p2, f1, f2, f3, k1, k2
=============================================================================
