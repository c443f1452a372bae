-------------------------------- MODULE MCRuns --------------------------------
(* Runs on small instances. *)
EXTENDS Runs
CONSTANTS w, f, x, c, e

(* Each kind of listener beside those who change the run. *)
Scenes == {{w, e}, {f, c, e}, {x, e}}
Versions == [a \in {c, e, x} |-> IF a = e THEN 0 ELSE IF a = x THEN 2 ELSE 3]
=============================================================================
