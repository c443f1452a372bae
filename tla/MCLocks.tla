------------------------------ MODULE MCLocks ------------------------------
(* Locks on small instances. *)
EXTENDS Locks
CONSTANTS o1, o2
=============================================================================
