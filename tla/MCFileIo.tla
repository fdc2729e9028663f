------------------------------ MODULE MCFileIo -----------------------------
(* Small instances of FileIo for TLC.                                      *)
EXTENDS FileIo

CONSTANTS r1, r2, r3
=============================================================================
