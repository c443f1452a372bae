--------------------------- MODULE WorkflowContract ---------------------------
(***************************************************************************)
(* What a workflow promises, with nothing of ticks, holds and passes: the  *)
(* steps of run() are done one after the other and each once, it completes *)
(* when all are, and from the moment it is cancelled only those of         *)
(* onCancel() are done.                                                    *)
(***************************************************************************)
EXTENDS Naturals

CONSTANT Steps      \* how many steps a workflow may have

VARIABLES
  phase,      \* "open", "cancelling", or how it ended
  todo,       \* how many steps of run() are left
  undo        \* how many steps of onCancel() are left

vars == <<phase, todo, undo>>

Init == phase = "open" /\ todo \in 0 .. Steps /\ undo \in 0 .. Steps

Advance ==
  /\ phase = "open" /\ todo > 0
  /\ todo' = todo - 1
  /\ UNCHANGED <<phase, undo>>

Cancel ==
  /\ phase = "open"
  /\ phase' = "cancelling"
  /\ UNCHANGED <<todo, undo>>

CleanUp ==
  /\ phase = "cancelling" /\ undo > 0
  /\ undo' = undo - 1
  /\ UNCHANGED <<phase, todo>>

Complete ==
  /\ phase = "open" /\ todo = 0
  /\ phase' = "completed"
  /\ UNCHANGED <<todo, undo>>

(* A step that failed, or a tick that ran out of attempts. *)
Fail ==
  /\ phase \in {"open", "cancelling"}
  /\ phase' = "failed"
  /\ UNCHANGED <<todo, undo>>

(* With its clean-up done, or given up. *)
EndCancelled ==
  /\ phase = "cancelling"
  /\ phase' = "cancelled"
  /\ UNCHANGED <<todo, undo>>

Next == Advance \/ Cancel \/ CleanUp \/ Complete \/ Fail \/ EndCancelled

Spec == Init /\ [][Next]_vars

=============================================================================
