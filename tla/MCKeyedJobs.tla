------------------------------ MODULE MCKeyedJobs ------------------------------
(* KeyedJobs on small instances. *)
EXTENDS KeyedJobs

Kind(unique, slots, windows) == [unique |-> unique, slots |-> slots, windows |-> windows]

(* A unique job, and one with a slot and two throttles. *)
UniqueOrLimited == {Kind(TRUE, 0, <<>>), Kind(FALSE, 1, <<1, 1>>)}
=============================================================================
