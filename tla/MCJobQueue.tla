----------------------------- MODULE MCJobQueue -----------------------------
(* JobQueue on small instances: which class each process has registered. *)
EXTENDS JobQueue, TLC

CONSTANTS p1, p2, j1, j2

KnowAll == [p \in Procs |-> Jobs]

(* A rolling deploy: only p2 runs the release that added the class of j1,  *)
(* and that of j2 is gone. *)
KnowSome == [p \in Procs |-> IF p = p2 THEN {j1} ELSE {}]

(* Processes that know the same classes are alike. *)
Alike == Permutations(Procs)
=============================================================================
