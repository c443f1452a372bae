------------------------------- MODULE Workflow -------------------------------
(***************************************************************************)
(* One workflow: its row and the rows of its steps in the WorkflowStore,   *)
(* the tick jobs in the queue that run its passes, and the passes.  A pass *)
(* runs run() (or onCancel(), once cancelled) from the top: a step with a  *)
(* result is skipped, the first one without is run and recorded, and a     *)
(* step that cannot go on now ends the pass.                               *)
(*                                                                         *)
(* An update() of the store is one atomic step, with the tick jobs and the *)
(* batch it schedules.  Moments are relative to the database's clock: a    *)
(* moment is past once it is 0 or less, and none before -Horizon is told   *)
(* apart.  Date.now() of the process p is Skew[p].                         *)
(***************************************************************************)
EXTENDS Integers, FiniteSets

CONSTANTS
  Procs,          \* places a tick can run: one process has several
  Jobs,           \* bound: names for the tick jobs there are at once
  NoJob,          \* no tick job
  Last,           \* how many steps there are
  Programs,       \* the workflows looked at: of each step, whether run() or
                  \* onCancel() has it, and the method of Step it calls
  Attempts,       \* StepRunOptions.attempts
  Backoff,        \* StepRunOptions.backoff, in ticks
  Duration,       \* how long a sleep, or the timeout of a wait, is
  TickAttempts,   \* maxAttempts of a tick job
  TickBackoff,    \* its backoff
  Skew,           \* Skew[p]: p's clock less the database's
  Horizon,        \* bound: how far in the past a moment is told apart
  May,            \* bound: the kinds of mishap that may happen
  MaxMishaps      \* bound: how many of them, before the workflow has ended

Keys == 1 .. Last
Modes == {"run", "cancel"}
Kinds == {"run", "sleep", "wait", "timed", "batch"}

ASSUME WorkflowAssumption ==
  /\ Jobs \subseteq Nat /\ NoJob \notin Jobs
  /\ Last \in Nat
  /\ Programs \subseteq [Keys -> [mode : Modes, kind : Kinds]]
  /\ Attempts \in Nat \ {0} /\ TickAttempts \in Nat \ {0}
  /\ Backoff \in Nat /\ Duration \in Nat \ {0} /\ TickBackoff \in Nat
  /\ Skew \in [Procs -> Int]
  /\ Horizon \in Nat
  /\ MaxMishaps \in Nat
  /\ May \subseteq {"crashes", "stalls", "faults"}

VARIABLES
  wf,       \* the workflow's row
  step,     \* the rows of its steps
  batch,    \* the batch a step dispatched
  tick,     \* the tick jobs
  pass,     \* pass[p]: the pass p is in
  calls,    \* history: how often a step's function was called, or its batch dispatched
  outdated, \* history: tick jobs of which an attempt took the workflow that was given up on
  mishaps   \* history: how many there were of each kind

vars == <<wf, step, batch, tick, pass, calls, outdated, mishaps>>

Ended == {"completed", "failed", "cancelled"}

(* Of a step, wakeAt says when its sleep or wait or delay ends.  Of the    *)
(* workflow, when the tick it last scheduled for a wake-up is due; a       *)
(* moment that is past stands for none. *)
Past == -Horizon
Workflow(status, wakeAt, job, attempt, lease, retick) ==
  [status |-> status, wakeAt |-> wakeAt, job |-> job, attempt |-> attempt,
   lease |-> lease, retick |-> retick]
Step(mode, kind, status, attempt, wakeAt) ==
  [mode |-> mode, kind |-> kind, status |-> status, attempt |-> attempt, wakeAt |-> wakeAt]
Tick(at, attempt, due, lease) ==
  [at |-> at, attempt |-> attempt, due |-> due, lease |-> lease]

(* cached: the steps' statuses as the pass found them when it began.       *)
Pass(job, attempt, stage, mode, key, cached, outcome) ==
  [job |-> job, attempt |-> attempt, stage |-> stage, mode |-> mode, key |-> key,
   cached |-> cached, outcome |-> outcome]

NoTick == Tick("none", 0, 0, "live")
Idle == Pass(NoJob, 0, "idle", "run", 0, [k \in Keys |-> "none"], "none")

WorkflowStatuses == Ended \union {"running", "sleeping", "waiting", "cancelling"}
StepStatuses == {"none", "running", "retrying", "completed", "failed", "sleeping",
                 "waiting", "signalled", "timed_out", "batching"}
Stages == {"idle", "take", "steps", "exec", "look", "record", "finish", "letgo",
           "report", "retry", "bury", "dead", "late"}

Workflows ==
  [status : WorkflowStatuses, wakeAt : Int, job : Jobs \union {NoJob}, attempt : Nat,
   lease : {"live", "lapsed"}, retick : {"no", "yes"}]
StepRows ==
  [mode : Modes, kind : Kinds, status : StepStatuses, attempt : 0 .. Attempts, wakeAt : Int]
Ticks ==
  [at : {"none", "pending", "claimed", "dead"}, attempt : Nat, due : Int,
   lease : {"live", "lapsed"}]
Passes ==
  [job : Jobs \union {NoJob}, attempt : Nat, stage : Stages, mode : Modes, key : Nat,
   cached : [Keys -> StepStatuses],
   outcome : {"none", "completed", "failed", "sleeping", "waiting"}]

TypeOK ==
  /\ wf \in Workflows
  /\ step \in [Keys -> StepRows]
  /\ batch \in [Keys -> {"none", "going", "cancelled", "succeeded", "failed"}]
  /\ tick \in [Jobs -> Ticks]
  /\ pass \in [Procs -> Passes]
  /\ calls \in [Keys -> Nat] /\ outdated \subseteq Jobs
  /\ mishaps \in [crashes : Nat, stalls : Nat, faults : Nat]

-----------------------------------------------------------------------------
(* The queue.                                                              *)

Spare(T) ==
  {j \in Jobs : T[j].at = "none" /\ wf.job # j /\ \A p \in Procs : pass[p].job # j}

(* insertJob: one more tick job, due after the delay. *)
Plus(T, delay) ==
  IF Spare(T) = {} THEN T
  ELSE LET j == CHOOSE i \in Spare(T) : \A h \in Spare(T) : i <= h
       IN  [T EXCEPT ![j] = Tick("pending", 0, IF delay > 0 THEN delay ELSE 0, "live")]

(* Callers come while enough names are left for what the passes schedule.  *)
NamesLeft == \E S \in SUBSET Spare(tick) : Cardinality(S) = 3

(* create(): the row and the first tick job, in one step. *)
Init ==
  /\ wf = Workflow("running", Past, NoJob, 0, "live", "no")
  /\ \E program \in Programs :
       step = [k \in Keys |-> Step(program[k].mode, program[k].kind, "none", 0, Past)]
  /\ batch = [k \in Keys |-> "none"]
  /\ pass = [p \in Procs |-> Idle]
  /\ \E first \in Jobs :
       /\ \A j \in Jobs : first <= j
       /\ tick = [j \in Jobs |-> IF j = first THEN Tick("pending", 0, 0, "live") ELSE NoTick]
  /\ calls = [k \in Keys |-> 0] /\ outdated = {}
  /\ mishaps = [crashes |-> 0, stalls |-> 0, faults |-> 0]

Mishap(b) ==
  /\ b \in May /\ wf.status \notin Ended
  /\ mishaps.crashes + mishaps.stalls + mishaps.faults < MaxMishaps
  /\ mishaps' = [mishaps EXCEPT ![b] = @ + 1]

To(p, stage) == pass' = [pass EXCEPT ![p] = Pass(@.job, @.attempt, stage, @.mode, @.key,
                                                 @.cached, @.outcome)]

(* Nothing more is done for the workflow, but for its tick job. *)
Leaves(p, stage) == pass' = [pass EXCEPT ![p] = Pass(@.job, @.attempt, stage, Idle.mode, 0,
                                                     Idle.cached, "none")]

Extended(j) == \E p \in Procs : pass[p].job = j /\ pass[p].attempt = tick[j].attempt

(* Variant: a job of a process that died is nobody's. *)
ClaimablePending(j) == tick[j].at = "pending" /\ tick[j].due <= 0

(* Due, or claimed under a lease that ran out: a claim may come at any     *)
(* time after, so a lease that nobody extends counts as run out. *)
Claimable(j) ==
  \/ tick[j].at = "pending" /\ tick[j].due <= 0
  \/ tick[j].at = "claimed" /\ (tick[j].lease = "lapsed" \/ ~Extended(j))

(* A tick job is handed out; past its last attempt, only to be dead-lettered. *)
claim(p, j) ==
  /\ pass[p].stage = "idle" /\ Claimable(j)
  /\ LET attempt == tick[j].attempt + 1 IN
       /\ tick' = [tick EXCEPT ![j] = Tick("claimed", attempt, 0, "live")]
       /\ pass' = [pass EXCEPT ![p] =
                     Pass(j, attempt, IF attempt > TickAttempts THEN "bury" ELSE "take",
                          "run", 0, Idle.cached, "none")]
  /\ UNCHANGED <<wf, step, batch, calls, outdated, mishaps>>

Current(p) == tick[pass[p].job].at = "claimed" /\ tick[pass[p].job].attempt = pass[p].attempt

(* The job's outcome is recorded, unless a later claim has it. *)
Reports(p, row) ==
  /\ tick' = IF Current(p) THEN [tick EXCEPT ![pass[p].job] = row] ELSE tick
  /\ pass' = [pass EXCEPT ![p] = Idle]
  /\ UNCHANGED <<wf, step, batch, calls, outdated, mishaps>>

complete(p) == pass[p].stage = "report" /\ Reports(p, NoTick)

fail(p) ==
  /\ pass[p].stage = "retry"
  /\ IF pass[p].attempt < TickAttempts
     THEN Reports(p, Tick("pending", pass[p].attempt, TickBackoff, "live"))
     ELSE To(p, "bury") /\ UNCHANGED <<wf, step, batch, tick, calls, outdated, mishaps>>

(* Not awaited, the hook that fails the workflow may come after this. *)
deadLetter(p) ==
  /\ pass[p].stage \in {"bury", "dead"}
  /\ tick' = IF Current(p) THEN [tick EXCEPT ![pass[p].job] = Tick("dead", @.attempt, 0, "live")]
                           ELSE tick
  /\ IF pass[p].stage = "bury" THEN Leaves(p, "late") ELSE pass' = [pass EXCEPT ![p] = Idle]
  /\ UNCHANGED <<wf, step, batch, calls, outdated, mishaps>>

(* Its lease runs out under a pass that stalls. *)
LapseJob(j) ==
  /\ tick[j].at = "claimed" /\ tick[j].lease = "live" /\ Extended(j)
  /\ Mishap("stalls")
  /\ tick' = [tick EXCEPT ![j] = Tick("claimed", @.attempt, 0, "lapsed")]
  /\ UNCHANGED <<wf, step, batch, pass, calls, outdated>>

-----------------------------------------------------------------------------
(* The hold.                                                               *)

Holds(p) == wf.job = pass[p].job /\ wf.attempt = pass[p].attempt

Inside == {"steps", "exec", "look", "record", "finish", "letgo"}

Now(p) == Skew[p]

Resolved == {"completed", "timed_out"}

StepsOf(mode) == {k \in Keys : step[k].mode = mode}

(* The pass q goes on from a step: those with a result are skipped, one    *)
(* that failed throws, and past the last one run() has returned. *)
Arrived(q, from) ==
  LET left == {k \in StepsOf(q.mode) : k >= from /\ q.cached[k] \notin Resolved}
      next == CHOOSE k \in left : \A i \in left : k <= i
      At(stage, key, outcome) ==
        Pass(q.job, q.attempt, stage, q.mode, key, q.cached, outcome)
  IN  IF left = {} THEN Pass(q.job, q.attempt, "finish", q.mode, q.key, Idle.cached, "completed")
      ELSE IF q.cached[next] = "failed" THEN Pass(q.job, q.attempt, "finish", q.mode, next, Idle.cached, "failed")
      ELSE IF q.cached[next] = "batching" THEN At("look", next, "none")
      ELSE At("steps", next, "none")

(* Variant: a cancellation does not wait for the pass of run(). *)
BusyUnlessCancelled(p) ==
  wf.job \notin {NoJob, pass[p].job} /\ wf.lease = "live" /\ wf.status # "cancelling"

(* Held by another tick job under a live lease. *)
Busy(p) == wf.job \notin {NoJob, pass[p].job} /\ wf.lease = "live"

(* acquire(): takes the workflow, from a lapsed hold and from an earlier   *)
(* attempt of the same tick job too; or marks it for its holder and ends. *)
acquire(p) ==
  /\ pass[p].stage = "take"
  /\ IF Busy(p)
     THEN /\ wf' = Workflow(wf.status, wf.wakeAt, wf.job, wf.attempt, wf.lease, "yes")
          /\ Leaves(p, "report")
     ELSE /\ wf' = Workflow(wf.status, wf.wakeAt, pass[p].job, pass[p].attempt, "live", "no")
          /\ LET q == Pass(pass[p].job, pass[p].attempt, "letgo",
                           IF wf.status = "cancelling" THEN "cancel" ELSE "run", 0,
                           [k \in Keys |-> step[k].status], "none")
             IN  IF wf.status \in Ended THEN Leaves(p, "letgo")
                                        ELSE pass' = [pass EXCEPT ![p] = Arrived(q, 1)]
  /\ outdated' = IF Busy(p) \/ Current(p) THEN outdated ELSE outdated \union {pass[p].job}
  /\ UNCHANGED <<step, batch, tick, calls, mishaps>>

(* renew(): asks only whose the hold is. *)
renew(p) ==
  /\ pass[p].stage \in Inside /\ Holds(p) /\ wf.lease = "lapsed"
  /\ wf' = Workflow(wf.status, wf.wakeAt, wf.job, wf.attempt, "live", wf.retick)
  /\ UNCHANGED <<step, batch, tick, pass, calls, outdated, mishaps>>

LapseHold ==
  /\ wf.job # NoJob /\ wf.lease = "live"
  /\ IF \E p \in Procs : pass[p].stage \in Inside /\ Holds(p)
     THEN Mishap("stalls")
     ELSE UNCHANGED mishaps
  /\ wf' = Workflow(wf.status, wf.wakeAt, wf.job, wf.attempt, "lapsed", wf.retick)
  /\ UNCHANGED <<step, batch, tick, pass, calls, outdated>>

(* Variant: a tick that came by is dropped. *)
RetickedNever(T) == T

Reticked(T) == IF wf.retick = "yes" THEN Plus(T, 0) ELSE T

(* An update that lets go: with it the ticks it schedules, and one more if *)
(* a tick came by meanwhile. *)
LetsGo(p, status, wakeAt, scheduled) ==
  /\ wf' = Workflow(status, wakeAt, NoJob, 0, "live", "no")
  /\ tick' = Reticked(scheduled)
  /\ Leaves(p, "report")
  /\ UNCHANGED <<step, batch, calls, outdated, mishaps>>

letGo(p) ==
  /\ pass[p].stage = "letgo" /\ Holds(p)
  /\ LetsGo(p, wf.status, wf.wakeAt, tick)

-----------------------------------------------------------------------------
(* The steps.                                                              *)

(* Variant: a write does not look whether the workflow was cancelled. *)
StoppedNever(p) == FALSE

(* write(): from run() nothing is written once the workflow is cancelled. *)
Stopped(p) == wf.status = "cancelling" /\ pass[p].mode = "run"
Writes(p) == Holds(p) /\ ~Stopped(p)

Finishes(p, outcome) ==
  pass' = [pass EXCEPT ![p] = Pass(@.job, @.attempt, "finish", @.mode, @.key,
                                   Idle.cached, outcome)]

GoesOn(p) == pass' = [pass EXCEPT ![p] = Arrived(@, @.key + 1)]

Records(k, status, attempt, wakeAt) ==
  step' = [step EXCEPT ![k] = Step(@.mode, @.kind, status, attempt, wakeAt)]

(* What the pass found is enough to suspend it: a moment still to come, or *)
(* a wait without one.  While the pass holds the workflow only a signal    *)
(* changes such a step, and keeps its moment. *)
Pending(p) ==
  LET k == pass[p].key
      found == pass[p].cached[k]
  IN  \/ step[k].kind = "wait" /\ found = "waiting"
      \/ /\ \/ step[k].kind = "run" /\ found = "retrying"
            \/ step[k].kind = "sleep" /\ found = "sleeping"
            \/ step[k].kind = "timed" /\ found = "waiting"
         /\ step[k].wakeAt > Now(p)

Reaches(p, kinds) ==
  pass[p].stage = "steps" /\ step[pass[p].key].kind \in kinds /\ ~Pending(p)

suspend(p) ==
  /\ pass[p].stage = "steps" /\ Pending(p)
  /\ Finishes(p, IF step[pass[p].key].kind \in {"wait", "timed"} THEN "waiting" ELSE "sleeping")
  /\ UNCHANGED <<wf, step, batch, tick, calls, outdated, mishaps>>

AtWrite(p) == pass[p].stage \in {"exec", "record"} \/ Reaches(p, {"run", "sleep", "wait", "timed", "batch"})

(* The write is refused, or, cancelled, not made; a running step finds out *)
(* about a cancellation itself. *)
loseLease(p) ==
  /\ AtWrite(p) \/ pass[p].stage \in {"finish", "letgo"}
  /\ ~Holds(p)
  /\ Leaves(p, "report")
  /\ UNCHANGED <<wf, step, batch, tick, calls, outdated, mishaps>>

seeCancelled(p) ==
  /\ AtWrite(p) /\ Holds(p) /\ Stopped(p)
  /\ Finishes(p, "waiting")
  /\ UNCHANGED <<wf, step, batch, tick, calls, outdated, mishaps>>

MayRun(k) == step[k].attempt < Attempts

(* Variant: an attempt is counted when it ends. *)
beganUncounted(k) == Step(step[k].mode, "run", "running", step[k].attempt, Past)

began(k) == Step(step[k].mode, "run", "running", step[k].attempt + 1, Past)

(* Step.run: the attempt is recorded, then the function called. *)
runStep(p) ==
  /\ Reaches(p, {"run"}) /\ Writes(p)
  /\ LET k == pass[p].key IN
       IF MayRun(k)
       THEN /\ step' = [step EXCEPT ![k] = began(k)]
            /\ wf' = Workflow(IF wf.status = "cancelling" THEN wf.status ELSE "running",
                              wf.wakeAt, wf.job, wf.attempt, wf.lease, wf.retick)
            /\ calls' = [calls EXCEPT ![k] = @ + 1]
            /\ To(p, "exec")
       ELSE /\ Records(k, "failed", step[k].attempt, Past)
            /\ Finishes(p, "failed")
            /\ UNCHANGED <<wf, calls>>
  /\ UNCHANGED <<batch, tick, outdated, mishaps>>

(* The function has returned. *)
returns(p) ==
  /\ pass[p].stage = "exec" /\ Writes(p)
  /\ Records(pass[p].key, "completed", step[pass[p].key].attempt, Past)
  /\ GoesOn(p)
  /\ UNCHANGED <<wf, batch, tick, calls, outdated, mishaps>>

(* It threw, or its timeout passed: again, now or later, or for good. *)
throws(p) ==
  /\ pass[p].stage = "exec" /\ Writes(p)
  /\ LET k == pass[p].key
         attempt == step[k].attempt
     IN  IF attempt >= Attempts
         THEN Records(k, "failed", attempt, Past) /\ Finishes(p, "failed")
         ELSE IF Backoff > 0
         THEN Records(k, "retrying", attempt, Now(p) + Backoff) /\ Finishes(p, "sleeping")
         ELSE Records(k, "retrying", attempt, Past) /\ To(p, "steps")
  /\ UNCHANGED <<wf, batch, tick, calls, outdated, mishaps>>

sleepStep(p) ==
  /\ Reaches(p, {"sleep"}) /\ Writes(p)
  /\ LET k == pass[p].key IN
       IF step[k].status = "none"
       THEN Records(k, "sleeping", 0, Now(p) + Duration) /\ Finishes(p, "sleeping")
       ELSE Records(k, "completed", 0, step[k].wakeAt) /\ GoesOn(p)
  /\ UNCHANGED <<wf, batch, tick, calls, outdated, mishaps>>

timedOut(p, k) == step[k].kind = "timed" /\ step[k].wakeAt <= Now(p) /\ step[k].status = "waiting"

(* Step.waitFor: a signal counts however late it came.  The program goes   *)
(* on after a timeout. *)
waitStep(p) ==
  /\ Reaches(p, {"wait", "timed"}) /\ Writes(p)
  /\ LET k == pass[p].key IN
       IF timedOut(p, k)
       THEN Records(k, "timed_out", 0, step[k].wakeAt) /\ GoesOn(p)
       ELSE IF step[k].status = "signalled"
       THEN Records(k, "completed", 0, Past) /\ GoesOn(p)
       ELSE /\ Finishes(p, "waiting")
            /\ IF step[k].status = "none"
               THEN Records(k, "waiting", 0, IF step[k].kind = "timed" THEN Now(p) + Duration ELSE Past)
               ELSE UNCHANGED step
  /\ UNCHANGED <<wf, batch, tick, calls, outdated, mishaps>>

(* Step.batch: recorded and dispatched in one write, then looked at. *)
batchStep(p) ==
  /\ Reaches(p, {"batch"}) /\ Writes(p)
  /\ LET k == pass[p].key IN
       /\ Records(k, "batching", 0, Past)
       /\ batch' = [batch EXCEPT ![k] = "going"]
       /\ calls' = [calls EXCEPT ![k] = @ + 1]
  /\ To(p, "look")
  /\ UNCHANGED <<wf, tick, outdated, mishaps>>

findBatch(p) ==
  /\ pass[p].stage = "look"
  /\ IF batch[pass[p].key] \in {"succeeded", "failed"} THEN To(p, "record")
                                                       ELSE Finishes(p, "waiting")
  /\ UNCHANGED <<wf, step, batch, tick, calls, outdated, mishaps>>

recordBatch(p) ==
  /\ pass[p].stage = "record" /\ Writes(p)
  /\ LET k == pass[p].key IN
       IF batch[k] = "succeeded"
       THEN Records(k, "completed", 0, Past) /\ GoesOn(p)
       ELSE Records(k, "failed", 0, Past) /\ Finishes(p, "failed")
  /\ UNCHANGED <<wf, batch, tick, calls, outdated, mishaps>>

-----------------------------------------------------------------------------
(* The end of a pass.                                                      *)

(* The moment the workflow was suspended until, if there is one. *)
HasWake(p) ==
  \/ pass[p].outcome = "sleeping"
  \/ pass[p].outcome = "waiting" /\ step[pass[p].key].kind = "timed"

WakeAt(p) == step[pass[p].key].wakeAt

(* Variant: also a tick that is gone. *)
scheduledOnce(p) == wf.wakeAt <= WakeAt(p)

(* A tick that was scheduled no later. *)
scheduled(p) == wf.wakeAt > Now(p) /\ wf.wakeAt <= WakeAt(p)

finish(p) ==
  /\ pass[p].stage = "finish" /\ Holds(p)
  /\ LET cancelling == pass[p].mode = "cancel"
         outcome == pass[p].outcome
     IN  IF Stopped(p) THEN LetsGo(p, wf.status, wf.wakeAt, Plus(tick, 0))
         ELSE IF outcome \in {"completed", "failed"}
         THEN LetsGo(p, IF cancelling THEN "cancelled" ELSE outcome, Past, tick)
         ELSE IF HasWake(p) /\ ~scheduled(p)
         THEN LetsGo(p, IF cancelling THEN "cancelling" ELSE outcome, WakeAt(p),
                     Plus(tick, WakeAt(p) - Now(p)))
         ELSE LetsGo(p, IF cancelling THEN "cancelling" ELSE outcome, wf.wakeAt, tick)

(* onDeadletter: the workflow fails if it still can, whoever holds it. *)
Buries(p) == IF pass[p].stage = "bury" THEN To(p, "dead") ELSE pass' = [pass EXCEPT ![p] = Idle]

tickDeadLettered(p) ==
  /\ pass[p].stage \in {"bury", "late"}
  /\ wf' = IF wf.status \in Ended THEN wf
           ELSE Workflow("failed", wf.wakeAt, NoJob, 0, "live", "no")
  /\ tick' = IF wf.status \in Ended THEN tick ELSE Reticked(tick)
  /\ Buries(p)
  /\ UNCHANGED <<step, batch, calls, outdated, mishaps>>

(* A call of the store rejects.  Out of a step it is thrown through run(), *)
(* which fails the pass; else it is thrown out of the tick. *)
storeRejects(p) ==
  /\ Mishap("faults")
  /\ \/ (AtWrite(p) \/ pass[p].stage = "look") /\ Finishes(p, "failed")
     \/ pass[p].stage \in {"take", "finish", "letgo"} /\ Leaves(p, "retry")
     \/ pass[p].stage \in {"bury", "late"} /\ Buries(p)
  /\ UNCHANGED <<wf, step, batch, tick, calls, outdated>>

crash(p) ==
  /\ pass[p].stage # "idle"
  /\ Mishap("crashes")
  /\ pass' = [pass EXCEPT ![p] = Idle]
  /\ UNCHANGED <<wf, step, batch, tick, calls, outdated>>

-----------------------------------------------------------------------------
(* Its callers, and the world.                                             *)

Accepts == wf.status \notin Ended \union {"cancelling"} /\ NamesLeft

(* signal(): kept for a wait that is still to come, or one it wakes. *)
signal(k) ==
  /\ Accepts /\ step[k].kind \in {"wait", "timed"}
  /\ \/ step[k].status = "none" /\ UNCHANGED tick
     \/ step[k].status = "waiting" /\ tick' = Plus(tick, 0)
  /\ Records(k, "signalled", 0, step[k].wakeAt)
  /\ UNCHANGED <<wf, batch, pass, calls, outdated, mishaps>>

(* Variant: only the workflow is cancelled. *)
batchLeft(k) == batch[k]

batchCancelled(k) ==
  IF step[k].status = "batching" /\ batch[k] = "going" THEN "cancelled" ELSE batch[k]

cancel ==
  /\ Accepts
  /\ wf' = Workflow("cancelling", wf.wakeAt, wf.job, wf.attempt, wf.lease, wf.retick)
  /\ batch' = [k \in Keys |-> batchCancelled(k)]
  /\ tick' = Plus(tick, 0)
  /\ UNCHANGED <<step, pass, calls, outdated, mishaps>>

(* A batch's last job ends, and finally enqueues a tick. *)
BatchEnds(k, how) ==
  /\ NamesLeft
  /\ \/ batch[k] = "going"
     \/ batch[k] = "cancelled" /\ how = "failed"
  /\ batch' = [batch EXCEPT ![k] = how]
  /\ tick' = Plus(tick, 0)
  /\ UNCHANGED <<wf, step, pass, calls, outdated, mishaps>>

Earlier(m, floor) == IF m > floor THEN m - 1 ELSE floor

Elapse ==
  /\ wf' = Workflow(wf.status, Earlier(wf.wakeAt, Past), wf.job, wf.attempt, wf.lease, wf.retick)
  /\ step' = [k \in Keys |-> Step(step[k].mode, step[k].kind, step[k].status,
                                       step[k].attempt, Earlier(step[k].wakeAt, Past))]
  /\ tick' = [j \in Jobs |-> Tick(tick[j].at, tick[j].attempt, Earlier(tick[j].due, 0), tick[j].lease)]
  /\ UNCHANGED <<batch, pass, calls, outdated, mishaps>>

-----------------------------------------------------------------------------

PassStep(p) ==
  \/ acquire(p) \/ letGo(p) \/ suspend(p) \/ loseLease(p) \/ seeCancelled(p)
  \/ runStep(p) \/ returns(p) \/ throws(p) \/ sleepStep(p) \/ waitStep(p)
  \/ batchStep(p) \/ findBatch(p) \/ recordBatch(p) \/ finish(p)
  \/ tickDeadLettered(p) \/ complete(p) \/ fail(p) \/ deadLetter(p)

Next ==
  \/ \E p \in Procs :
       PassStep(p) \/ renew(p) \/ storeRejects(p) \/ crash(p) \/ \E j \in Jobs : claim(p, j)
  \/ \E j \in Jobs : LapseJob(j)
  \/ LapseHold
  \/ \E k \in Keys : signal(k) \/ BatchEnds(k, "succeeded") \/ BatchEnds(k, "failed")
  \/ cancel
  \/ Elapse

Spec == Init /\ [][Next]_vars

(* Time passes, the queue claims, what runs goes on, batches end, and a    *)
(* lease nobody extends runs out.  Nobody has to signal or cancel. *)
FairSpec ==
  /\ Spec
  /\ WF_vars(Elapse) /\ WF_vars(LapseHold)
  /\ \A p \in Procs : WF_vars(PassStep(p))
  /\ \A j \in Jobs : WF_vars(\E p \in Procs : claim(p, j))
  /\ \A k \in Keys : WF_vars(BatchEnds(k, "failed"))

-----------------------------------------------------------------------------
(* Properties.                                                             *)

Mode == IF wf.status = "cancelling" THEN "cancel" ELSE "run"

Comes(j) == tick[j].at \in {"pending", "claimed"}

(* It waits for a signal or a batch, and neither wakes it by itself. *)
Parked ==
  \E k \in StepsOf(Mode) :
    \/ step[k].kind = "wait" /\ step[k].status = "waiting"
    \/ step[k].status = "batching" /\ batch[k] \in {"going", "cancelled"}

Buried == \E j \in Jobs : tick[j].at = "dead"

(* A workflow that has not ended is never left with nothing to advance it, *)
(* whatever its passes, its signals, its cancellation and its batch came   *)
(* to at once (finish's scheduled, retick, unlock): a tick is queued or    *)
(* running, or what it waits for has not come. *)
NeverStranded ==
  outdated = {} =>
    wf.status \in Ended \/ Buried \/ Parked \/ \E j \in Jobs : Comes(j)

Latest(m) == IF m > 0 THEN m ELSE 0

(* A sleep, a timeout or the delay of a retry ends on time: with no fault  *)
(* to delay it, a tick is due by then, though most suspensions schedule    *)
(* none and rely on one that is there. *)
WokenInTime ==
  outdated = {} /\ mishaps.faults = 0 /\ wf.status \notin Ended =>
    \A k \in StepsOf(Mode) :
      (\/ step[k].status \in {"sleeping", "retrying"}
       \/ step[k].status = "waiting" /\ step[k].kind = "timed") =>
        \E j \in Jobs : \/ tick[j].at = "claimed"
                        \/ tick[j].at = "pending" /\ tick[j].due <= Latest(step[k].wakeAt)

(* Whoever dies, stalls or takes over, a step's function is called at most *)
(* as often as it has attempts, and its batch dispatched once. *)
EffectsBounded ==
  \A k \in Keys : calls[k] <= IF step[k].kind = "batch" THEN 1 ELSE Attempts

(* Two passes of one workflow never overlap, unless one of them stalled    *)
(* past its lease. *)
OnePass ==
  mishaps.stalls = 0 =>
    \A p, q \in Procs :
      pass[p].stage \in Inside \ {"letgo"} /\ pass[q].stage \in Inside \ {"letgo"} => p = q

(* A workflow that was cancelled has no batch of run() going on, also when *)
(* a pass was about to dispatch one. *)
CancelLeavesNoBatch ==
  wf.status \in {"cancelling", "cancelled"} =>
    \A k \in StepsOf("run") : batch[k] # "going"

(* The steps of the mode from the first that has no result on. *)
Left(mode) ==
  Cardinality({k \in StepsOf(mode) :
                 \E i \in StepsOf(mode) : i <= k /\ step[i].status \notin Resolved})

Contract == INSTANCE WorkflowContract WITH
  Steps <- Last,
  phase <- IF wf.status \in {"running", "sleeping", "waiting"} THEN "open" ELSE wf.status,
  todo <- Left("run"),
  undo <- Left("cancel")

(* With its passes run again from the top, in any process, beside signals  *)
(* and a cancellation, it is still the workflow the program says. *)
KeepsContract == Contract!Spec

Mishaps == mishaps.crashes + mishaps.stalls + mishaps.faults

(* A workflow that waits for nobody goes on until it ends or waits again,  *)
(* or fails with its tick job: more mishaps than the tick has attempts may *)
(* lose that too. *)
Settles ==
  (wf.status \notin Ended /\ ~Parked) ~>
    (wf.status \in Ended \/ Parked \/ outdated # {} \/ Mishaps > TickAttempts)

=============================================================================
