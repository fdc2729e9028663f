------------------------------- MODULE MCFiles ------------------------------
(* Small instances of Files for TLC.                                       *)
EXTENDS Files

CONSTANTS o1, o2, h1, h2, m1, q1, q2
=============================================================================
