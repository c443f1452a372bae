------------------------------ MODULE MCWorkflow ------------------------------
(* Workflow on small instances. *)
EXTENDS Workflow, TLC
CONSTANTS p1, p2

Runs(kind) == [mode |-> "run", kind |-> kind]
Undoes(kind) == [mode |-> "cancel", kind |-> kind]

(* Each is advanced by ticks of several kinds at once. *)
Overlapping ==
  {<<Runs("timed"), Runs("sleep")>>, <<Runs("batch"), Runs("run")>>,
   <<Runs("sleep"), Undoes("run")>>}

(* Each waits for somebody, or for a while, and goes on. *)
Suspending ==
  {<<Runs("run"), Runs("wait")>>, <<Runs("batch"), Runs("sleep")>>,
   <<Runs("wait"), Undoes("sleep")>>}

JustSleeps == {<<Runs("sleep"), Runs("run")>>}

InStep == [p \in Procs |-> 0]
Ahead == [p \in Procs |-> IF p = p1 THEN 1 ELSE 0]
Places == Permutations(Procs)
=============================================================================
