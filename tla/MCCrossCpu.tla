---------------------------- MODULE MCCrossCpu ----------------------------
(***************************************************************************)
(* Small instances of CrossCpu for TLC: which calls there are and between  *)
(* which CPUs.                                                             *)
(***************************************************************************)
EXTENDS CrossCpu, TLC

CONSTANTS a, b, d, e

\* Two calls to CPU 1, one back from it (nested in one of them or on its own).
CrossOrigin == (a :> 0) @@ (b :> 0) @@ (d :> 1)
CrossTarget == (a :> 1) @@ (b :> 1) @@ (d :> 0)

\* Two calls to CPU 1, one that CPU 1 makes to itself.
MixOrigin == (a :> 0) @@ (b :> 0) @@ (e :> 1)
MixTarget == (a :> 1) @@ (b :> 1) @@ (e :> 1)

\* Two calls the same way.
PairOrigin == (a :> 0) @@ (b :> 0)
PairTarget == (a :> 1) @@ (b :> 1)
=============================================================================
