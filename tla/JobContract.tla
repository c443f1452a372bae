---------------------------- MODULE JobContract ----------------------------
(***************************************************************************)
(* What the queue promises of a dispatched job, with no table, lease or    *)
(* clock: it is held by at most one process at a time, only its holder     *)
(* decides what becomes of it, and it is run at most Attempts times.       *)
(***************************************************************************)
EXTENDS Naturals

CONSTANTS Jobs, Procs, Nobody, Attempts

VARIABLES
  phase,    \* "none", "waiting", "held", "dead" or "gone"
  holder,   \* the process that may decide, or Nobody
  spent     \* runs begun and not refunded

Is(j, ph, h, n) == phase[j] = ph /\ holder[j] = h /\ spent[j] = n
Becomes(j, ph, h, n) == phase'[j] = ph /\ holder'[j] = h /\ spent'[j] = n

Start(j) == Is(j, "none", Nobody, 0)

Dispatch(j) == phase[j] = "none" /\ Becomes(j, "waiting", Nobody, 0)

(* A waiting job, or one whose holder was given up on, is handed out. *)
Take(j) ==
  /\ phase[j] \in {"waiting", "held"}
  /\ \E p \in Procs : Becomes(j, "held", p, spent[j])

Run(j) ==
  /\ phase[j] # "none" /\ spent[j] < Attempts
  /\ Becomes(j, phase[j], holder[j], spent[j] + 1)

(* The holder dies, or what it says is lost. *)
Abandon(j) ==
  /\ phase[j] = "held"
  /\ Becomes(j, "held", Nobody, spent[j])

Decide(j) ==
  /\ phase[j] = "held" /\ holder[j] \in Procs
  /\ \/ \E ph \in {"waiting", "dead", "gone"} : Becomes(j, ph, Nobody, spent[j])
     \/ spent[j] > 0 /\ Becomes(j, "waiting", Nobody, spent[j] - 1)

Discard(j) == phase[j] = "dead" /\ Becomes(j, "gone", Nobody, spent[j])

Step(j) == Dispatch(j) \/ Take(j) \/ Run(j) \/ Abandon(j) \/ Decide(j) \/ Discard(j)

Init == \A j \in Jobs : Start(j)

(* Each job moves on its own, so a step of the queue may move several. *)
Next == \A j \in Jobs : Step(j) \/ Becomes(j, phase[j], holder[j], spent[j])

Spec == Init /\ [][Next]_<<phase, holder, spent>>

=============================================================================
