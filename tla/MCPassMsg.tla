------------------------------ MODULE MCPassMsg ----------------------------
(* Small instances of PassMsg for TLC.                                      *)
EXTENDS PassMsg, TLC

Symmetric == Permutations(Tasks)
=============================================================================
