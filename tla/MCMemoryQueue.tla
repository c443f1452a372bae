---------------------------- MODULE MCMemoryQueue ----------------------------
(* MemoryQueue on small instances. *)
EXTENDS MemoryQueue
CONSTANTS j1, j2
=============================================================================
