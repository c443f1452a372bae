------------------------------ MODULE KeyedJobs ------------------------------
(***************************************************************************)
(* Jobs that share keys: the unique key a dispatch takes in the LockStore  *)
(* and a job's end frees, and the limits an attempt is admitted under, the *)
(* slots of its concurrency and the windows of its throttles.              *)
(*                                                                         *)
(* Each call of the store or of the driver is a step of its own, and may   *)
(* reject with or without its effect.  No clock is kept: a lease or a      *)
(* window runs out at any moment at which nobody renews it.                *)
(***************************************************************************)
EXTENDS Integers, Sequences, FiniteSets

CONSTANTS
  Jobs,          \* ids of the dispatches, all under one key
  Procs,         \* processes, each with a place for one run
  Nobody,        \* no job, no process
  Kinds,         \* what the job's class declares
  MaxAttempts,   \* Job.maxAttempts
  Rounds,        \* the rounds recordUnique makes
  MaxMishaps     \* bound: faults, lapses, retryDead calls and releases by run()

ASSUME KeyedAssumption ==
  /\ Nobody \notin Jobs /\ Nobody \notin Procs
  /\ Kinds \subseteq [unique : BOOLEAN, slots : Nat, windows : Seq(Nat)]
  /\ MaxAttempts \in Int
  /\ Rounds \in Nat /\ MaxMishaps \in Nat

VARIABLES
  kind,      \* what the class declares: never changes
  push,      \* push[j]: where the dispatch of j is
  row,       \* row[j]: j in the driver
  run,       \* run[p]: the attempt p is making
  key,       \* who owns the unique key
  slot,      \* slot[i]: the i-th lock of the concurrency key
  window,    \* window[k]: the current window of the k-th throttle
  trouble,   \* history: trouble[j]: what befell j
  mishaps    \* how much of the bound is used

vars == <<kind, push, row, run, key, slot, window, trouble, mishaps>>

Push(stage, round) == [stage |-> stage, round |-> round]
Row(status, attempts) == [status |-> status, attempts |-> attempts]

(* at: the slot or throttle that is next.  slot: the slot taken, or 0.     *)
(* lost: its lease ran out under the run.  counted: the throttles to be    *)
(* refunded should a later one refuse; past: those whose window has ended. *)
Run(stage, job, attempt, outcome) ==
  [stage |-> stage, job |-> job, attempt |-> attempt, outcome |-> outcome,
   at |-> 1, slot |-> 0, lost |-> FALSE, counted |-> {}, past |-> {}]
Idle == Run("idle", Nobody, 0, "none")

(* "held" by a run; "leaked": renewed though no run will release it;       *)
(* "lapsing": not renewed any more. *)
Slot(state, by) == [state |-> state, by |-> by]
Free == Slot("free", Nobody)

(* hits and late are history: the hits that were not taken back in this    *)
(* window, and the refunds of hits of an earlier one. *)
Window(count, hits, late) == [count |-> count, hits |-> hits, late |-> late]
Fresh == Window(0, 0, 0)

PushStages == {"idle", "ask", "look", "record", "undo", "done", "failed"}
Statuses == {"none", "pending", "claimed", "dead", "gone"}
Stages == {"idle", "check", "slot", "hit", "refund", "run", "unslot", "report", "unkey"}
Outcomes == {"none", "complete", "retry", "dead", "dropped", "release", "refused"}
Troubles == {"failed", "unanswered", "died", "unbuilt", "doubled", "expired", "revived"}

Runs ==
  [stage : Stages, job : Jobs \union {Nobody}, attempt : Int, outcome : Outcomes,
   at : Nat, slot : Nat, lost : BOOLEAN, counted : SUBSET Nat, past : SUBSET Nat]

TypeOK ==
  /\ kind \in Kinds
  /\ push \in [Jobs -> [stage : PushStages, round : Nat]]
  /\ row \in [Jobs -> [status : Statuses, attempts : Int]]
  /\ run \in [Procs -> Runs]
  /\ \A p \in Procs : run[p].stage # "idle" => run[p].job \in Jobs
  /\ key \in Jobs \union {Nobody}
  /\ slot \in [1 .. kind.slots -> [state : {"free", "held", "leaked", "lapsing"},
                                   by : Procs \union {Nobody}]]
  /\ window \in [DOMAIN kind.windows -> [count : Int, hits : Int, late : Nat]]
  /\ trouble \in [Jobs -> SUBSET Troubles]
  /\ mishaps \in Nat

Init ==
  /\ kind \in Kinds
  /\ push = [j \in Jobs |-> Push("idle", 0)]
  /\ row = [j \in Jobs |-> Row("none", 0)]
  /\ run = [p \in Procs |-> Idle]
  /\ key = Nobody
  /\ slot = [i \in 1 .. kind.slots |-> Free]
  /\ window = [k \in DOMAIN kind.windows |-> Fresh]
  /\ trouble = [j \in Jobs |-> {}]
  /\ mishaps = 0

Befalls(j, what) == trouble' = [trouble EXCEPT ![j] = @ \union {what}]
Spends == mishaps < MaxMishaps /\ mishaps' = mishaps + 1

-----------------------------------------------------------------------------
(* A dispatch.                                                             *)

PushTo(j, stage) == push' = [push EXCEPT ![j].stage = stage]

(* What store.release(key, j) leaves of the key: only its owner frees it. *)
keyFreedBy(j) == IF key = j THEN Nobody ELSE key

(* What store.acquire(key, j) leaves of it. *)
keyTakenBy(j) == IF key = Nobody THEN j ELSE key

(* Variant: a record that failed leaves the key to its expiry. *)
AfterFailedRecordKept == "failed"

(* A unique job that could not be recorded gives its key back. *)
AfterFailedRecord == IF kind.unique THEN "undo" ELSE "failed"

dispatch(j) ==
  /\ push[j].stage = "idle"
  /\ PushTo(j, IF kind.unique THEN "ask" ELSE "record")
  /\ UNCHANGED <<kind, row, run, key, slot, window, trouble, mishaps>>

acquireKey(j) ==
  /\ push[j].stage = "ask"
  /\ key' = keyTakenBy(j)
  /\ PushTo(j, IF key = Nobody THEN "record" ELSE "look")
  /\ UNCHANGED <<kind, row, run, slot, window, trouble, mishaps>>

(* A duplicate resolves to the holder's id; if the key was freed since,    *)
(* there is another round. *)
readHolder(j) ==
  /\ push[j].stage = "look"
  /\ push' = [push EXCEPT ![j] =
                IF key # Nobody THEN Push("done", @.round)
                ELSE Push(IF @.round + 1 < Rounds THEN "ask" ELSE "failed", @.round + 1)]
  /\ UNCHANGED <<kind, row, run, key, slot, window, trouble, mishaps>>

record(j) ==
  /\ push[j].stage = "record"
  /\ row' = [row EXCEPT ![j] = Row("pending", 0)]
  /\ PushTo(j, "done")
  /\ UNCHANGED <<kind, run, key, slot, window, trouble, mishaps>>

undo(j) ==
  /\ push[j].stage = "undo"
  /\ key' = keyFreedBy(j)
  /\ PushTo(j, "failed")
  /\ UNCHANGED <<kind, row, run, slot, window, trouble, mishaps>>

(* A call of the dispatch rejects, its statement carried out or not.  Only *)
(* a record that fails is followed by a release of the key. *)
pushRejects(j) ==
  /\ Spends
  /\ \/ /\ push[j].stage \in {"ask", "look"}
        /\ key' \in IF push[j].stage = "ask" THEN {key, keyTakenBy(j)} ELSE {key}
        /\ PushTo(j, "failed")
        /\ Befalls(j, "failed")
        /\ UNCHANGED row
     \/ /\ push[j].stage = "record"
        /\ PushTo(j, AfterFailedRecord)
        /\ \/ row' = [row EXCEPT ![j] = Row("pending", 0)] /\ Befalls(j, "unanswered")
           \/ UNCHANGED <<row, trouble>>
        /\ UNCHANGED key
     \/ /\ push[j].stage = "undo"
        /\ key' \in {key, keyFreedBy(j)}
        /\ PushTo(j, "failed")
        /\ Befalls(j, "failed")
        /\ UNCHANGED row
  /\ UNCHANGED <<kind, run, slot, window>>

(* The process that dispatches is killed. *)
pushDies(j) ==
  /\ push[j].stage \in {"ask", "look", "record", "undo"}
  /\ Spends
  /\ PushTo(j, "failed")
  /\ Befalls(j, "died")
  /\ UNCHANGED <<kind, row, run, key, slot, window>>

(* uniqueFor is over. *)
keyRunsOut ==
  /\ key # Nobody
  /\ key' = Nobody
  /\ Befalls(key, "expired")
  /\ UNCHANGED <<kind, push, row, run, slot, window, mishaps>>

-----------------------------------------------------------------------------
(* A claim, and what comes before the job's own code.                      *)

Held(j) ==
  \E p \in Procs : run[p].stage # "idle" /\ run[p].job = j /\ run[p].attempt = row[j].attempts

Claims(p, j) ==
  /\ run[p] = Idle
  /\ row' = [row EXCEPT ![j] = Row("claimed", @.attempts + 1)]
  /\ run' = [run EXCEPT ![p] = Run("check", j, row[j].attempts + 1, "none")]
  /\ UNCHANGED <<kind, push, key, slot, window>>

(* A waiting job, or one whose run is no more and whose lease ran out. *)
claim(p, j) ==
  /\ \/ row[j].status = "pending"
     \/ row[j].status = "claimed" /\ ~Held(j)
  /\ Claims(p, j)
  /\ UNCHANGED <<trouble, mishaps>>

(* One whose run goes on, without its heartbeats. *)
claimAgain(p, j) ==
  /\ row[j].status = "claimed" /\ Held(j)
  /\ Claims(p, j)
  /\ Spends /\ Befalls(j, "doubled")

RunTo(p, r) == run' = [run EXCEPT ![p] = r]

Ends(r, outcome) == [r EXCEPT !.stage = "report", !.outcome = outcome]

Enters(r) == [r EXCEPT !.stage = "run", !.at = 1, !.counted = {}, !.past = {}]
AfterSlot(r) ==
  IF kind.windows = <<>> THEN Enters(r) ELSE [r EXCEPT !.stage = "hit", !.at = 1]

(* An attempt past the last is ended unrun. *)
check(p) ==
  /\ run[p].stage = "check"
  /\ RunTo(p, IF run[p].attempt > 1 /\ run[p].attempt > MaxAttempts THEN Ends(run[p], "dead")
              ELSE IF kind.slots > 0 THEN [run[p] EXCEPT !.stage = "slot"]
              ELSE AfterSlot(run[p]))
  /\ UNCHANGED <<kind, push, row, key, slot, window, trouble, mishaps>>

(* No class under the name, no instance, or no arguments: the key is not   *)
(* known then, and stays. *)
drop(p) ==
  /\ run[p].stage = "check"
  /\ Spends /\ Befalls(run[p].job, "unbuilt")
  /\ RunTo(p, Ends(run[p], "dropped"))
  /\ UNCHANGED <<kind, push, row, key, slot, window>>

-----------------------------------------------------------------------------
(* admit().                                                                *)

takeSlot(p) ==
  /\ run[p].stage = "slot"
  /\ LET i == run[p].at IN
     IF slot[i] = Free
     THEN /\ slot' = [slot EXCEPT ![i] = Slot("held", p)]
          /\ RunTo(p, AfterSlot([run[p] EXCEPT !.slot = i]))
     ELSE /\ RunTo(p, IF i < kind.slots THEN [run[p] EXCEPT !.at = i + 1]
                      ELSE Ends(run[p], "refused"))
          /\ UNCHANGED slot
  /\ UNCHANGED <<kind, push, row, key, window, trouble, mishaps>>

(* Variant: a window takes one hit more. *)
RoomIncluding(k) == window[k].count <= kind.windows[k]

Room(k) == window[k].count < kind.windows[k]

Hits(k) == [window EXCEPT ![k] = Window(@.count + 1, @.hits + 1, @.late)]

hit(p) ==
  /\ run[p].stage = "hit"
  /\ LET k == run[p].at
         r == [run[p] EXCEPT !.counted = @ \union {k}, !.at = k + 1]
     IN IF Room(k)
        THEN /\ window' = Hits(k)
             /\ RunTo(p, IF k < Len(kind.windows) THEN r ELSE Enters(r))
        ELSE /\ RunTo(p, [run[p] EXCEPT !.stage = "refund", !.outcome = "refused"])
             /\ UNCHANGED window
  /\ UNCHANGED <<kind, push, row, key, slot, trouble, mishaps>>

(* A refund does not ask in which window the hit was. *)
Refunds(p, ks) ==
  [k \in DOMAIN window |->
     LET w == window[k] IN
     CASE k \notin ks -> w
       [] k \in ks /\ k \in run[p].past ->
            IF w.count > 0 THEN Window(w.count - 1, w.hits, w.late + 1) ELSE w
       [] OTHER -> Window(IF w.count > 0 THEN w.count - 1 ELSE w.count, w.hits - 1, w.late)]

refund(p, k) ==
  /\ run[p].stage = "refund" /\ k \in run[p].counted
  /\ window' = Refunds(p, {k})
  /\ RunTo(p, [run[p] EXCEPT !.counted = @ \ {k}, !.past = @ \ {k}])
  /\ UNCHANGED <<kind, push, row, key, slot, trouble, mishaps>>

(* Variant: a job refused by a throttle keeps its slot. *)
slotKept(p) == slot

(* What HeldLock.release() leaves of the slots: p's own is free, unless it *)
(* was lost. *)
slotFreed(p) ==
  [i \in DOMAIN slot |->
     IF i = run[p].slot /\ slot[i] = Slot("held", p) THEN Free ELSE slot[i]]

(* The slot of p, of which p knows no more.  Its HeldLock renews it until  *)
(* it is released. *)
slotLeft(p, state) ==
  [i \in DOMAIN slot |->
     IF i = run[p].slot /\ slot[i] = Slot("held", p) THEN Slot(state, p) ELSE slot[i]]

(* release() after the run, or after the refunds of one that was refused. *)
unslot(p) ==
  /\ \/ run[p].stage = "unslot"
     \/ run[p].stage = "refund" /\ run[p].counted = {}
  /\ slot' = slotFreed(p)
  /\ RunTo(p, Ends(run[p], run[p].outcome))
  /\ UNCHANGED <<kind, push, row, key, window, trouble, mishaps>>

-----------------------------------------------------------------------------
(* The job's code, and what is reported of it.                             *)

Settles(p, outcome) ==
  /\ run[p].stage = "run"
  /\ RunTo(p, IF run[p].slot = 0 THEN Ends(run[p], outcome)
              ELSE [run[p] EXCEPT !.stage = "unslot", !.outcome = outcome])
  /\ UNCHANGED <<kind, push, row, key, slot, window, trouble>>

succeeds(p) == Settles(p, "complete") /\ UNCHANGED mishaps

(* A throw, or this.fail(), with and without retry. *)
fails(p, retry) ==
  /\ Settles(p, IF retry /\ run[p].attempt < MaxAttempts THEN "retry" ELSE "dead")
  /\ UNCHANGED mishaps

(* this.release(). *)
releases(p) == Settles(p, "release") /\ Spends

(* The driver's guard. *)
Current(r) == row[r.job] = Row("claimed", r.attempt)

(* What the driver makes of the report: nothing, when it is not current.   *)
Reported(p) ==
  LET r == run[p] IN
  [row EXCEPT ![r.job] =
     IF ~Current(r) THEN @
     ELSE CASE r.outcome = "complete" -> Row("gone", 0)
            [] r.outcome \in {"dead", "dropped"} -> Row("dead", @.attempts)
            [] r.outcome = "retry" -> Row("pending", @.attempts)
            [] OTHER -> Row("pending", @.attempts - 1)]

(* Variant: the key is freed between retries, too. *)
FreesAfterAny == {"complete", "dead", "retry"}

FreesKeyAfter == {"complete", "dead"}

(* Whatever the driver made of it, the key is freed after a job's end. *)
AfterReport(p) ==
  IF kind.unique /\ run[p].outcome \in FreesKeyAfter
  THEN [run[p] EXCEPT !.stage = "unkey"] ELSE Idle

report(p) ==
  /\ run[p].stage = "report"
  /\ row' = Reported(p)
  /\ RunTo(p, AfterReport(p))
  /\ UNCHANGED <<kind, push, key, slot, window, trouble, mishaps>>

releaseUnique(p) ==
  /\ run[p].stage = "unkey"
  /\ key' = keyFreedBy(run[p].job)
  /\ RunTo(p, Idle)
  /\ UNCHANGED <<kind, push, row, slot, window, trouble, mishaps>>

-----------------------------------------------------------------------------
(* What goes wrong.                                                        *)

(* A call rejects, its statement carried out or not.  After the run a slot *)
(* that could not be released, and a key, are left to run out; elsewhere   *)
(* the attempt is given up, and the claim with it.  All refunds are asked  *)
(* for at once: when one rejects, each of the others may be made or not.   *)
rejects(p) ==
  /\ run[p].stage \notin {"idle", "check", "run"}
  /\ Spends /\ Befalls(run[p].job, "failed")
  /\ \/ /\ run[p].stage = "slot"
        /\ slot' \in {slot} \union
             {[slot EXCEPT ![i] = Slot("lapsing", p)] : i \in {n \in {run[p].at} : slot[n] = Free}}
        /\ RunTo(p, Idle)
        /\ UNCHANGED <<row, key, window>>
     \/ /\ run[p].stage = "hit"
        /\ window' \in {window} \union
             {Hits(k) : k \in {n \in {run[p].at} : Room(n)}}
        /\ slot' = slotLeft(p, "leaked")
        /\ RunTo(p, Idle)
        /\ UNCHANGED <<row, key>>
     \/ /\ run[p].stage = "refund"
        /\ run[p].counted # {}
        /\ \E ks \in SUBSET run[p].counted : window' = Refunds(p, ks)
        /\ slot' = slotLeft(p, "leaked")
        /\ RunTo(p, Idle)
        /\ UNCHANGED <<row, key>>
     \/ /\ \/ run[p].stage = "unslot"
           \/ run[p].stage = "refund" /\ run[p].counted = {}
        /\ run[p].slot # 0 /\ ~run[p].lost
        /\ slot' \in {slotFreed(p), slotLeft(p, "lapsing")}
        /\ RunTo(p, IF run[p].stage = "unslot" THEN Ends(run[p], run[p].outcome) ELSE Idle)
        /\ UNCHANGED <<row, key, window>>
     \/ /\ run[p].stage = "report"
        /\ row' \in {row, Reported(p)}
        /\ RunTo(p, Idle)
        /\ UNCHANGED <<key, slot, window>>
     \/ /\ run[p].stage = "unkey"
        /\ key' \in {key, keyFreedBy(run[p].job)}
        /\ RunTo(p, Idle)
        /\ UNCHANGED <<row, slot, window>>
  /\ UNCHANGED <<kind, push>>

(* The process is killed: nothing of it is renewed any more. *)
crash(p) ==
  /\ run[p].stage # "idle"
  /\ Spends /\ Befalls(run[p].job, "died")
  /\ RunTo(p, Idle)
  /\ slot' = [i \in DOMAIN slot |->
                IF slot[i].by = p THEN Slot("lapsing", p) ELSE slot[i]]
  /\ UNCHANGED <<kind, push, row, key, window>>

slotRunsOut(i) ==
  /\ slot[i].state = "lapsing"
  /\ slot' = [slot EXCEPT ![i] = Free]
  /\ UNCHANGED <<kind, push, row, run, key, window, trouble, mishaps>>

(* The renewals of a live run fail for as long as the lease. *)
slotLost(i) ==
  /\ slot[i].state = "held"
  /\ Spends
  /\ slot' = [slot EXCEPT ![i] = Free]
  /\ run' = [run EXCEPT ![slot[i].by].lost = TRUE]
  /\ UNCHANGED <<kind, push, row, key, window, trouble>>

windowEnds(k) ==
  /\ window[k] # Fresh
  /\ window' = [window EXCEPT ![k] = Fresh]
  /\ run' = [p \in Procs |-> [run[p] EXCEPT !.past = @ \union ({k} \intersect run[p].counted)]]
  /\ UNCHANGED <<kind, push, row, key, slot, trouble, mishaps>>

(* retryDead brings a job back, and takes no key for it. *)
retryDead(j) ==
  /\ row[j].status = "dead"
  /\ Spends /\ Befalls(j, "revived")
  /\ row' = [row EXCEPT ![j] = Row("pending", 0)]
  /\ UNCHANGED <<kind, push, run, key, slot, window>>

-----------------------------------------------------------------------------

PushStep(j) ==
  dispatch(j) \/ acquireKey(j) \/ readHolder(j) \/ record(j) \/ undo(j)

RunStep(p) ==
  \/ check(p) \/ takeSlot(p) \/ hit(p) \/ unslot(p)
  \/ \E k \in run[p].counted : refund(p, k)
  \/ succeeds(p) \/ \E retry \in BOOLEAN : fails(p, retry)
  \/ report(p) \/ releaseUnique(p)

Fault ==
  \/ \E j \in Jobs : pushRejects(j) \/ pushDies(j) \/ retryDead(j)
  \/ \E p \in Procs : drop(p) \/ rejects(p) \/ crash(p) \/ releases(p)
  \/ \E p \in Procs, j \in Jobs : claimAgain(p, j)
  \/ \E i \in DOMAIN slot : slotLost(i)

Next ==
  \/ \E j \in Jobs : PushStep(j)
  \/ \E p \in Procs : RunStep(p)
  \/ \E p \in Procs, j \in Jobs : claim(p, j)
  \/ keyRunsOut
  \/ \E i \in DOMAIN slot : slotRunsOut(i)
  \/ \E k \in DOMAIN window : windowEnds(k)
  \/ Fault

Spec == Init /\ [][Next]_vars

WindowIds == UNION {DOMAIN k.windows : k \in Kinds}

(* Each waiting job is claimed while a place is free, attempts go on, and  *)
(* what nobody renews runs out. *)
FairSpec ==
  /\ Spec
  /\ \A j \in Jobs : WF_vars(\E p \in Procs : claim(p, j))
  /\ \A p \in Procs : WF_vars(RunStep(p))
  /\ WF_vars(\E i \in DOMAIN slot : slotRunsOut(i))
  /\ \A k \in WindowIds : WF_vars(k \in DOMAIN window /\ windowEnds(k))

-----------------------------------------------------------------------------
(* Properties.                                                             *)

Live(j) == row[j].status \in {"pending", "claimed"}

(* What takes a live job's key from it. *)
Bares == {"unanswered", "doubled", "expired", "revived"}

(* Of two jobs under one unique key that wait or run at once, one outlived *)
(* uniqueFor, or was brought back, or was run twice, or its dispatch was   *)
(* answered with a failure.  Crashes, retries, duplicates and other calls  *)
(* that fail never make a key two jobs'. *)
OnePerKey ==
  kind.unique =>
    \A i, j \in Jobs :
      Live(i) /\ Live(j) /\ i # j => (trouble[i] \union trouble[j]) \intersect Bares # {}

(* A key is not held for nothing: its owner is being recorded, waits or    *)
(* runs, or is about to free it, unless a process died or a call failed at *)
(* it, or nobody could build the job. *)
KeyHeldForAJob ==
  \A j \in Jobs :
    key = j => \/ Live(j) \/ push[j].stage \in {"record", "undo"}
               \/ \E p \in Procs : run[p].stage = "unkey" /\ run[p].job = j
               \/ trouble[j] \intersect {"failed", "died", "unbuilt"} # {}

(* No more run at once than the concurrency limit, but for runs that lost  *)
(* their slot; and no window counts more than its throttle allows, but for *)
(* refunds that came when the window of their hit had ended. *)
SlotsKept ==
  kind.slots > 0 =>
    Cardinality({p \in Procs : run[p].stage = "run" /\ ~run[p].lost}) <= kind.slots

WindowsKept ==
  \A k \in DOMAIN window : window[k].hits <= kind.windows[k] + window[k].late

LimitsHold == SlotsKept /\ WindowsKept

AllLeaked == kind.slots > 0 /\ \A i \in DOMAIN slot : slot[i].state = "leaked"

(* A job over its limits is only put off: every job that waits ends, as    *)
(* long as not every slot was leaked. *)
EveryJobEnds ==
  \A j \in Jobs : row[j].status = "pending" ~> ~Live(j) \/ AllLeaked

=============================================================================
