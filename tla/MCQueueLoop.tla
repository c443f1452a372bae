---------------------------- MODULE MCQueueLoop ----------------------------
(* QueueLoop on small instances. *)
EXTENDS QueueLoop, TLC
CONSTANTS j1, j2, r1, r2, r3
Symmetry == Permutations(Jobs) \union Permutations(RunIds)
=============================================================================
