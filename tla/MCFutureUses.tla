---------------------------- MODULE MCFutureUses ----------------------------
(* FutureUses for TLC: the program is fixed, what it awaits is not.        *)
EXTENDS FutureUses
=============================================================================
