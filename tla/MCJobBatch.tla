----------------------------- MODULE MCJobBatch -----------------------------
(* JobBatch on small instances. *)
EXTENDS JobBatch
CONSTANTS j1, j2
=============================================================================
