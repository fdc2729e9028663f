----------------------------- MODULE Flattening ----------------------------
(* A sequence of sequences, read as one: Seqs!FlattenSeq.                   *)

Seqs == INSTANCE SequencesExt
=============================================================================
