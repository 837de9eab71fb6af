----------------------------- MODULE MCDeletion -----------------------------
(* Small instances of Deletion. *)
EXTENDS Deletion, TLC

OneWriter == {1}

ExecutorSymmetry == Permutations(Executors)
=============================================================================
