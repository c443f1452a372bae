---------------------------- MODULE WorkflowProofs ----------------------------
(***************************************************************************)
(* Of a workflow with any number of steps, places, ticks and mishaps: two  *)
(* passes never overlap unless one stalled past its lease, a step's        *)
(* function is called no more often than it has attempts, its batch is     *)
(* dispatched once, a cancellation leaves no batch of run() going, the     *)
(* steps are done one after the other, as WorkflowContract says, and the   *)
(* workflow is never left with nothing to advance it, nor woken too late.  *)
(*                                                                         *)
(* The argument is about the hold.  No two passes have the same tick job   *)
(* and attempt, so at most one holds the workflow; what it found when it   *)
(* took it is therefore still true of the steps that it has not reached,   *)
(* and the first of them without a result is the one it is at.  The job    *)
(* that has the hold is in the queue, and whoever lets go of it leaves a   *)
(* tick that has yet to come, or a step that waits for somebody.  Of the   *)
(* steps only the one it was suspended at has a moment to be woken at.     *)
(***************************************************************************)
EXTENDS Workflow, FiniteSetTheorems, WellFoundedInduction, TLAPS

(* Some element of a set of natural numbers is the least. *)
LEMMA Least ==
  ASSUME NEW S \in SUBSET Nat, S # {}
  PROVE  \E n \in S : \A m \in S : n <= m
<1>1. PICK n \in S : \A m \in S : ~(<<m, n>> \in OpToRel(<, Nat))
  BY NatLessThanWellFounded, WFMin
<1>2. \A m \in S : ~(m < n)
  BY <1>1 DEF OpToRel
<1> QED
  BY <1>2

-----------------------------------------------------------------------------
(* Types.                                                                  *)

(* The rows and the passes the actions build are rows and passes. *)
LEMMA WorkflowType ==
  ASSUME NEW status \in WorkflowStatuses, NEW wakeAt \in Int, NEW job \in Jobs \union {NoJob},
         NEW attempt \in Nat, NEW lease \in {"live", "lapsed"}, NEW retick \in {"no", "yes"}
  PROVE  Workflow(status, wakeAt, job, attempt, lease, retick) \in Workflows
BY DEF Workflow, Workflows

(* A row of a step. *)
LEMMA StepType ==
  ASSUME NEW mode \in Modes, NEW kind \in Kinds, NEW status \in StepStatuses,
         NEW attempt \in 0 .. Attempts, NEW wakeAt \in Int
  PROVE  Step(mode, kind, status, attempt, wakeAt) \in StepRows
BY DEF Step, StepRows

(* A tick job. *)
LEMMA TickType ==
  ASSUME NEW at \in {"none", "pending", "claimed", "dead"}, NEW attempt \in Nat, NEW due \in Int,
         NEW lease \in {"live", "lapsed"}
  PROVE  Tick(at, attempt, due, lease) \in Ticks
BY DEF Tick, Ticks

(* A pass. *)
LEMMA PassType ==
  ASSUME NEW job \in Jobs \union {NoJob}, NEW attempt \in Nat, NEW stage \in Stages,
         NEW mode \in Modes, NEW key \in Nat, NEW cached \in [Keys -> StepStatuses],
         NEW outcome \in {"none", "completed", "failed", "sleeping", "waiting"}
  PROVE  Pass(job, attempt, stage, mode, key, cached, outcome) \in Passes
BY DEF Pass, Passes

(* And they have the fields their types say. *)
LEMMA RowFields ==
  /\ \A w \in Workflows :
       /\ w.status \in WorkflowStatuses /\ w.wakeAt \in Int /\ w.job \in Jobs \union {NoJob}
       /\ w.attempt \in Nat /\ w.lease \in {"live", "lapsed"} /\ w.retick \in {"no", "yes"}
  /\ \A s \in StepRows :
       /\ s.mode \in Modes /\ s.kind \in Kinds /\ s.status \in StepStatuses
       /\ s.attempt \in 0 .. Attempts /\ s.wakeAt \in Int
  /\ \A t \in Ticks :
       /\ t.at \in {"none", "pending", "claimed", "dead"} /\ t.attempt \in Nat
       /\ t.due \in Int /\ t.lease \in {"live", "lapsed"}
BY DEF Workflows, StepRows, Ticks

(* A pass too. *)
LEMMA PassFields ==
  \A q \in Passes :
    /\ q.job \in Jobs \union {NoJob} /\ q.attempt \in Nat /\ q.stage \in Stages
    /\ q.mode \in Modes /\ q.key \in Nat /\ q.cached \in [Keys -> StepStatuses]
    /\ q.outcome \in {"none", "completed", "failed", "sleeping", "waiting"}
BY DEF Passes

(* The pass that is none. *)
LEMMA IdleType == Idle \in Passes /\ Idle.cached \in [Keys -> StepStatuses]
<1>1. [k \in Keys |-> "none"] \in [Keys -> StepStatuses]
  BY DEF StepStatuses
<1>2. NoJob \in Jobs \union {NoJob} /\ 0 \in Nat /\ "idle" \in Stages /\ "run" \in Modes
  BY DEF Stages, Modes
<1>3. Idle \in Passes
  BY <1>1, <1>2, PassType DEF Idle
<1> QED
  BY <1>3, PassFields

(* A tick job more: the others stay as they are, and it is one that nobody *)
(* has. *)
LEMMA PlusType ==
  ASSUME NEW T \in [Jobs -> Ticks], NEW delay \in Int
  PROVE  /\ Plus(T, delay) \in [Jobs -> Ticks]
         /\ \A j \in Jobs :
              \/ Plus(T, delay)[j] = T[j]
              \/ /\ T[j].at = "none" /\ wf.job # j /\ \A p \in Procs : pass[p].job # j
                 /\ Plus(T, delay)[j].at = "pending" /\ Plus(T, delay)[j].attempt = 0
<1> DEFINE j == CHOOSE i \in Spare(T) : \A h \in Spare(T) : i <= h
           row == Tick("pending", 0, IF delay > 0 THEN delay ELSE 0, "live")
<1>1. CASE Spare(T) = {}
  BY <1>1 DEF Plus
<1>2. CASE Spare(T) # {}
  <2>1. Spare(T) \in SUBSET Nat
    BY WorkflowAssumption DEF Spare
  <2>2. \E i \in Spare(T) : \A h \in Spare(T) : i <= h
    BY <1>2, <2>1, Least
  <2>3. j \in Spare(T)
    BY <2>2
  <2>4. row \in Ticks /\ row.at = "pending" /\ row.attempt = 0
    <3>1. (IF delay > 0 THEN delay ELSE 0) \in Int
      OBVIOUS
    <3> HIDE DEF row
    <3>2. \A due \in Int : Tick("pending", 0, due, "live") \in Ticks
      BY TickType
    <3>3. \A due \in Int : Tick("pending", 0, due, "live").at = "pending"
                          /\ Tick("pending", 0, due, "live").attempt = 0
      BY DEF Tick
    <3> QED
      BY <3>1, <3>2, <3>3 DEF row
  <2>5. Plus(T, delay) = [T EXCEPT ![j] = row]
    BY <1>2 DEF Plus
  <2>6. j \in Jobs /\ T[j].at = "none" /\ wf.job # j /\ \A p \in Procs : pass[p].job # j
    BY <2>3 DEF Spare
  <2> HIDE DEF j, row
  <2>7. Plus(T, delay) \in [Jobs -> Ticks] /\ Plus(T, delay)[j] = row
    BY <2>4, <2>5, <2>6
  <2>8. \A i \in Jobs : i # j => Plus(T, delay)[i] = T[i]
    BY <2>5
  <2> QED
    BY <2>4, <2>6, <2>7, <2>8
<1> QED
  BY <1>1, <1>2
-----------------------------------------------------------------------------
(* What a pass and a step are, apart from their types.                     *)

Stepping == {"steps", "exec", "look", "record"}

(* A step that dispatches a batch has no status but these, and only it     *)
(* waits for one. *)
SoundStatus(kind, status) ==
  /\ status = "batching" => kind = "batch"
  /\ kind = "batch" => status \in {"none", "batching", "completed", "failed"}

Undecided == {"none", "running", "retrying", "sleeping", "waiting", "signalled"}

(* The pass q is at a step of its program, and at a stage of that step's   *)
(* method. *)
SoundPass(q, S) ==
  /\ q \in Passes
  /\ q.stage # "idle" => q.job \in Jobs
  /\ q.stage \in Stepping => q.key \in Keys /\ S[q.key].mode = q.mode
  /\ q.stage = "finish" => q.outcome # "none"
  /\ q.stage = "finish" /\ q.outcome \in {"sleeping", "waiting"} => q.key \in Keys
  /\ q.stage \in {"steps", "exec"} => q.cached[q.key] \in Undecided
  /\ q.stage = "exec" => S[q.key].kind = "run"
  /\ q.stage \in {"look", "record"} => S[q.key].kind = "batch"
  /\ \A k \in Keys : SoundStatus(S[k].kind, q.cached[k])

(* The calls of a step's function are counted by its attempt; a batch is   *)
(* there, and dispatched, once the step has a status. *)
SoundStep(k) ==
  /\ SoundStatus(step[k].kind, step[k].status)
  /\ step[k].kind = "run" => calls[k] <= step[k].attempt
  /\ step[k].kind = "batch" => calls[k] <= 1
  /\ step[k].kind = "batch" /\ step[k].status = "none" => calls[k] = 0 /\ batch[k] = "none"
  /\ step[k].kind \notin {"run", "batch"} => calls[k] = 0
  /\ batch[k] = "going" => step[k].status = "batching"

SoundPasses == \A p \in Procs : SoundPass(pass[p], step)
SoundSteps == \A k \in Keys : SoundStep(k)

(* A step is of one kind and in one method for ever. *)
SameKinds(S, T) == \A k \in Keys : S[k].kind = T[k].kind /\ S[k].mode = T[k].mode

(* Which is all that a pass knows of it. *)
LEMMA KindsSuffice ==
  ASSUME NEW q, NEW S, NEW T, SameKinds(S, T), SoundPass(q, S)
  PROVE  SoundPass(q, T)
<1>1. q.stage \in {"exec", "look", "record"} => q.stage \in Stepping
  BY DEF Stepping
<1> QED
  BY <1>1 DEF SoundPass, SameKinds

(* No action changes it. *)
LEMMA KindsStay ==
  ASSUME TypeOK, SoundPasses, [Next]_vars
  PROVE  SameKinds(step, step') /\ step' \in [Keys -> StepRows]
<1> SUFFICES ASSUME Next
             PROVE  SameKinds(step, step') /\ step' \in [Keys -> StepRows]
  BY DEF vars, SameKinds, TypeOK
<1>1. step \in [Keys -> StepRows] /\ \A k \in Keys : step[k] \in StepRows
  BY DEF TypeOK
<1>2. ASSUME NEW k \in Keys, NEW status \in StepStatuses, NEW attempt \in 0 .. Attempts,
             NEW wakeAt \in Int, Records(k, status, attempt, wakeAt)
      PROVE  SameKinds(step, step') /\ step' \in [Keys -> StepRows]
  <2>1. Step(step[k].mode, step[k].kind, status, attempt, wakeAt) \in StepRows
    BY <1>1, StepType, RowFields
  <2> QED
    BY <1>1, <1>2, <2>1 DEF Records, SameKinds, Step
<1>3. CASE step' = step
  BY <1>1, <1>3 DEF SameKinds
<1>4. CASE Elapse
  <2>1. Past \in Int
    BY WorkflowAssumption DEF Past
  <2>2. \A k \in Keys : Earlier(step[k].wakeAt, Past) \in Int
    BY <1>1, <2>1, RowFields DEF Earlier
  <2>3. \A k \in Keys : Step(step[k].mode, step[k].kind, step[k].status, step[k].attempt,
                             Earlier(step[k].wakeAt, Past)) \in StepRows
    BY <1>1, <2>2, StepType, RowFields
  <2> QED
    BY <1>1, <1>4, <2>3 DEF Elapse, SameKinds, Step
<1>5. 0 \in 0 .. Attempts /\ Past \in Int /\ \A p \in Procs : Now(p) \in Int
  BY WorkflowAssumption DEF Past, Now
<1>6. CASE \E k \in Keys : signal(k)
  <2>1. PICK k \in Keys : signal(k)
    BY <1>6
  <2>2. Records(k, "signalled", 0, step[k].wakeAt) /\ "signalled" \in StepStatuses
    BY <2>1 DEF signal, StepStatuses
  <2> QED
    BY <1>1, <1>2, <1>5, <2>2, RowFields
<1>7. ASSUME NEW p \in Procs, PassStep(p)
      PROVE  SameKinds(step, step') /\ step' \in [Keys -> StepRows]
  <2> DEFINE k == pass[p].key
             Recorded == \E status \in StepStatuses, attempt \in 0 .. Attempts, wakeAt \in Int :
                           Records(k, status, attempt, wakeAt)
  <2>1. pass[p].stage \in Stepping => k \in Keys
    BY DEF SoundPasses, SoundPass
  <2>2. k \in Keys => step[k].wakeAt \in Int /\ step[k].attempt \in 0 .. Attempts
                     /\ Now(p) + Duration \in Int /\ Now(p) + Backoff \in Int
    BY <1>1, <1>5, RowFields, WorkflowAssumption
  <2>3. Recorded => SameKinds(step, step') /\ step' \in [Keys -> StepRows]
    <3>1. CASE k \in Keys
      BY <1>2, <3>1
    <3>2. CASE k \notin Keys
      BY <1>1, <3>2 DEF Records, SameKinds
    <3> HIDE DEF Recorded
    <3> QED
      BY <3>1, <3>2
  <2> HIDE DEF Recorded
  <2>4. {"retrying", "completed", "failed", "sleeping", "waiting", "timed_out", "batching"}
          \subseteq StepStatuses
    BY DEF StepStatuses
  <2>5. CASE runStep(p)
    <3>1. k \in Keys /\ step[k].kind = "run"
      BY <2>1, <2>5 DEF runStep, Reaches, Stepping
    <3>2. CASE ~MayRun(k)
      <4>1. Records(k, "failed", step[k].attempt, Past)
        BY <2>5, <3>2 DEF runStep
      <4> QED
        BY <1>5, <2>2, <2>3, <2>4, <3>1, <4>1 DEF Recorded
    <3>3. CASE MayRun(k)
      <4>1. step' = [step EXCEPT ![k] = began(k)]
        BY <2>5, <3>3 DEF runStep
      <4>2. step[k].attempt + 1 \in 0 .. Attempts
        BY <2>2, <3>1, <3>3, WorkflowAssumption DEF MayRun
      <4>3. began(k) \in StepRows
        <5>1. "running" \in StepStatuses /\ "run" \in Kinds /\ step[k].mode \in Modes
          BY <1>1, <3>1, RowFields DEF StepStatuses, Kinds
        <5> QED
          BY <1>5, <4>2, <5>1, StepType DEF began
      <4> QED
        BY <1>1, <3>1, <4>1, <4>3 DEF SameKinds, began, Step
    <3> QED
      BY <3>2, <3>3
  <2>6. CASE returns(p)
    <3>1. Records(k, "completed", step[k].attempt, Past) /\ k \in Keys
      BY <2>1, <2>6 DEF returns, Stepping
    <3> QED
      BY <1>5, <2>2, <2>3, <2>4, <3>1 DEF Recorded
  <2>7. CASE throws(p)
    <3>1. k \in Keys
      BY <2>1, <2>7 DEF throws, Stepping
    <3>2. \E status \in {"failed", "retrying"}, wakeAt \in {Past, Now(p) + Backoff} :
            Records(k, status, step[k].attempt, wakeAt)
      BY <2>7 DEF throws
    <3> QED
      BY <1>5, <2>2, <2>3, <2>4, <3>1, <3>2 DEF Recorded
  <2>8. CASE sleepStep(p)
    <3>1. k \in Keys
      BY <2>1, <2>8 DEF sleepStep, Reaches, Stepping
    <3>2. \E status \in {"sleeping", "completed"}, wakeAt \in {step[k].wakeAt, Now(p) + Duration} :
            Records(k, status, 0, wakeAt)
      BY <2>8 DEF sleepStep
    <3> QED
      BY <1>5, <2>2, <2>3, <2>4, <3>1, <3>2 DEF Recorded
  <2>9. CASE waitStep(p)
    <3>1. k \in Keys
      BY <2>1, <2>9 DEF waitStep, Reaches, Stepping
    <3>2. \/ step' = step
          \/ \E status \in {"timed_out", "completed", "waiting"},
                wakeAt \in {step[k].wakeAt, Past, Now(p) + Duration} :
               Records(k, status, 0, wakeAt)
      BY <2>9 DEF waitStep
    <3> QED
      BY <1>3, <1>5, <2>2, <2>3, <2>4, <3>1, <3>2 DEF Recorded
  <2>10. CASE batchStep(p) \/ recordBatch(p)
    <3>1. \E status \in {"batching", "completed", "failed"} : Records(k, status, 0, Past)
      BY <2>10 DEF batchStep, recordBatch
    <3> QED
      BY <1>5, <2>3, <2>4, <3>1 DEF Recorded
  <2>11. CASE \/ acquire(p) \/ letGo(p) \/ suspend(p) \/ loseLease(p) \/ seeCancelled(p)
             \/ findBatch(p) \/ finish(p) \/ tickDeadLettered(p) \/ complete(p) \/ fail(p)
             \/ deadLetter(p)
    <3>1. step' = step
      BY <2>11 DEF acquire, letGo, LetsGo, suspend, loseLease, seeCancelled, findBatch, finish,
                   tickDeadLettered, complete, fail, deadLetter, Reports
    <3> QED
      BY <1>3, <3>1
  <2> QED
    BY <1>7, <2>5, <2>6, <2>7, <2>8, <2>9, <2>10, <2>11 DEF PassStep
<1>8. ASSUME NEW p \in Procs, renew(p) \/ storeRejects(p) \/ crash(p) \/ \E j \in Jobs : claim(p, j)
      PROVE  step' = step
  BY <1>8 DEF renew, storeRejects, crash, claim
<1>9. CASE (\E j \in Jobs : LapseJob(j)) \/ LapseHold \/ cancel
            \/ \E k \in Keys : BatchEnds(k, "succeeded") \/ BatchEnds(k, "failed")
  <2>1. step' = step
    BY <1>9 DEF LapseJob, LapseHold, cancel, BatchEnds
  <2> QED
    BY <1>3, <2>1
<1> QED
  BY <1>3, <1>4, <1>6, <1>7, <1>8, <1>9 DEF Next

-----------------------------------------------------------------------------
(* A pass stays one.                                                       *)

(* Going on from a step leads to a later one, or to the end of the pass. *)
LEMMA Arrives ==
  ASSUME TypeOK, NEW q \in Passes, NEW from \in Nat, q.job \in Jobs,
         \A k \in Keys : SoundStatus(step[k].kind, q.cached[k])
  PROVE  LET r == Arrived(q, from) IN
           /\ SoundPass(r, step)
           /\ r.job = q.job /\ r.attempt = q.attempt /\ r.mode = q.mode
           /\ r.stage \in {"steps", "look", "finish"}
           /\ r.stage \in {"steps", "look"} => r.key >= from /\ r.cached = q.cached
<1> DEFINE left == {k \in StepsOf(q.mode) : k >= from /\ q.cached[k] \notin Resolved}
           next == CHOOSE k \in left : \A i \in left : k <= i
           At(stage) == Pass(q.job, q.attempt, stage, q.mode, next, q.cached, "none")
           Ends(key, outcome) == Pass(q.job, q.attempt, "finish", q.mode, key, Idle.cached, outcome)
<1>1. /\ q.attempt \in Nat /\ q.mode \in Modes /\ q.key \in Nat
      /\ q.cached \in [Keys -> StepStatuses] /\ q.job \in Jobs \union {NoJob}
      /\ Idle.cached \in [Keys -> StepStatuses]
      /\ \A k \in Keys : SoundStatus(step[k].kind, Idle.cached[k])
  BY PassFields, IdleType DEF Idle, Pass, SoundStatus
<1>2. /\ {"steps", "look", "finish"} \subseteq Stages
      /\ {"none", "completed", "failed"} \subseteq
           {"none", "completed", "failed", "sleeping", "waiting"}
  BY DEF Stages
<1>3. ASSUME NEW key \in Nat, NEW outcome \in {"completed", "failed"}
      PROVE  /\ SoundPass(Ends(key, outcome), step)
             /\ Ends(key, outcome).job = q.job /\ Ends(key, outcome).attempt = q.attempt
             /\ Ends(key, outcome).mode = q.mode /\ Ends(key, outcome).stage = "finish"
  <2> DEFINE r == Ends(key, outcome)
  <2>1. r \in Passes
    BY <1>1, <1>2, PassType
  <2>2. /\ r.job = q.job /\ r.attempt = q.attempt /\ r.mode = q.mode /\ r.stage = "finish"
        /\ r.outcome = outcome /\ r.cached = Idle.cached
    BY DEF Pass
  <2> HIDE DEF r
  <2>3. SoundPass(r, step)
    BY <2>1, <2>2, <1>1 DEF SoundPass, Stepping
  <2> QED
    BY <2>2, <2>3 DEF r
<1>4. CASE left = {}
  <2>1. Arrived(q, from) = Ends(q.key, "completed")
    BY <1>4 DEF Arrived
  <2> HIDE DEF Ends
  <2> QED
    BY <1>1, <1>3, <2>1
<1>5. CASE left # {}
  <2>1. left \in SUBSET Nat
    BY DEF StepsOf, Keys
  <2>2. \E k \in left : \A i \in left : k <= i
    BY <1>5, <2>1, Least
  <2>3. next \in left
    BY <2>2
  <2>4. /\ next \in Keys /\ next \in Nat /\ step[next].mode = q.mode /\ next >= from
        /\ q.cached[next] \notin Resolved /\ q.cached[next] \in StepStatuses
    BY <2>1, <2>3, <1>1 DEF StepsOf
  <2>5. CASE q.cached[next] = "failed"
    <3>1. Arrived(q, from) = Ends(next, "failed")
      BY <1>5, <2>5 DEF Arrived
    <3> HIDE DEF Ends, next
    <3> QED
      BY <2>4, <1>3, <3>1
  <2>6. CASE q.cached[next] # "failed"
    <3> DEFINE stage == IF q.cached[next] = "batching" THEN "look" ELSE "steps"
               r == At(stage)
    <3>1. Arrived(q, from) = r
      BY <1>5, <2>6 DEF Arrived
    <3> HIDE DEF next, left
    <3>2. r \in Passes
      BY <1>1, <1>2, <2>4, PassType
    <3>3. /\ r.job = q.job /\ r.attempt = q.attempt /\ r.mode = q.mode /\ r.stage = stage
          /\ r.key = next /\ r.cached = q.cached /\ r.outcome = "none"
      BY DEF Pass
    <3> HIDE DEF r
    <3>4. stage = "look" => step[next].kind = "batch"
      BY <2>4 DEF SoundStatus
    <3>5. stage = "steps" => q.cached[next] \in Undecided
      BY <2>4, <2>6 DEF Resolved, Undecided, StepStatuses
    <3>6. SoundPass(r, step)
      BY <3>2, <3>3, <3>4, <3>5, <2>4 DEF SoundPass, Stepping
    <3> QED
      BY <3>1, <3>3, <3>6, <2>4
  <2> QED
    BY <2>5, <2>6
<1> QED
  BY <1>4, <1>5

(* A pass moves to a stage, or to the end of the pass, or has left the     *)
(* workflow. *)
LEMMA Moves ==
  ASSUME NEW q, SoundPass(q, step), q.stage # "idle"
  PROVE  /\ \A stage \in Stages :
              LET r == Pass(q.job, q.attempt, stage, q.mode, q.key, q.cached, q.outcome) IN
                (/\ stage \in Stepping => q.stage \in Stepping
                 /\ stage = "finish" => q.stage = "finish"
                 /\ stage \in {"steps", "exec"} => q.stage \in {"steps", "exec"} /\ step[q.key].kind = "run"
                 /\ stage \in {"look", "record"} => step[q.key].kind = "batch") =>
                  SoundPass(r, step)
         /\ \A outcome \in {"completed", "failed", "sleeping", "waiting"} :
              q.stage \in Stepping =>
                SoundPass(Pass(q.job, q.attempt, "finish", q.mode, q.key, Idle.cached, outcome), step)
         /\ \A stage \in Stages :
              stage \notin Stepping \union {"finish"} =>
                SoundPass(Pass(q.job, q.attempt, stage, Idle.mode, 0, Idle.cached, "none"), step)
<1>1. /\ q.job \in Jobs \union {NoJob} /\ q.job \in Jobs /\ q.attempt \in Nat /\ q.mode \in Modes
      /\ q.key \in Nat /\ q.cached \in [Keys -> StepStatuses]
      /\ q.outcome \in {"none", "completed", "failed", "sleeping", "waiting"}
      /\ Idle.cached \in [Keys -> StepStatuses] /\ Idle.mode \in Modes
      /\ \A k \in Keys : SoundStatus(step[k].kind, Idle.cached[k])
      /\ "finish" \in Stages
  BY PassFields, IdleType DEF SoundPass, Idle, Pass, SoundStatus, Modes, Stages
<1>2. ASSUME NEW stage \in Stages,
             stage \in Stepping => q.stage \in Stepping,
             stage = "finish" => q.stage = "finish",
             stage \in {"steps", "exec"} => q.stage \in {"steps", "exec"} /\ step[q.key].kind = "run",
             stage \in {"look", "record"} => step[q.key].kind = "batch"
      PROVE  SoundPass(Pass(q.job, q.attempt, stage, q.mode, q.key, q.cached, q.outcome), step)
  <2> DEFINE r == Pass(q.job, q.attempt, stage, q.mode, q.key, q.cached, q.outcome)
  <2>1. r \in Passes
    BY <1>1, PassType
  <2>2. /\ r.job = q.job /\ r.attempt = q.attempt /\ r.mode = q.mode /\ r.stage = stage
        /\ r.key = q.key /\ r.cached = q.cached /\ r.outcome = q.outcome
    BY DEF Pass
  <2> HIDE DEF r
  <2>3. SoundPass(r, step)
    BY <1>1, <1>2, <2>1, <2>2 DEF SoundPass, Stepping
  <2> QED
    BY <2>3 DEF r
<1>3. ASSUME NEW stage \in Stages, NEW mode \in Modes, NEW key \in Nat,
             NEW outcome \in {"none", "completed", "failed", "sleeping", "waiting"},
             stage \notin Stepping, stage = "finish" => key \in Keys /\ outcome # "none"
      PROVE  SoundPass(Pass(q.job, q.attempt, stage, mode, key, Idle.cached, outcome), step)
  <2> DEFINE r == Pass(q.job, q.attempt, stage, mode, key, Idle.cached, outcome)
  <2>1. r \in Passes
    BY <1>1, PassType
  <2>2. /\ r.job = q.job /\ r.stage = stage /\ r.outcome = outcome
        /\ r.key = key /\ r.cached = Idle.cached
    BY DEF Pass
  <2> HIDE DEF r
  <2>3. SoundPass(r, step)
    BY <1>1, <1>3, <2>1, <2>2 DEF SoundPass, Stepping
  <2> QED
    BY <2>3 DEF r
<1>4. q.stage \in Stepping => q.key \in Keys
  BY DEF SoundPass
<1>5. "finish" \notin Stepping /\ 0 \in Nat
  BY DEF Stepping
<1> QED
  BY <1>1, <1>2, <1>3, <1>4, <1>5

(* A pass that goes on is of the same attempt; one that ends is gone. *)
GoesOnIn(p, r) ==
  /\ pass[p].stage # "idle" /\ pass' = [pass EXCEPT ![p] = r] /\ SoundPass(r, step)
  /\ r.job = pass[p].job /\ r.attempt = pass[p].attempt /\ r.stage # "idle"
Gone(p) == pass[p].stage # "idle" /\ pass' = [pass EXCEPT ![p] = Idle]

(* Every step of a pass is one or the other. *)
LEMMA PassMoves ==
  ASSUME TypeOK, SoundPasses, SoundSteps, NEW p \in Procs, PassStep(p) \/ storeRejects(p) \/ crash(p)
  PROVE  Gone(p) \/ \E r : GoesOnIn(p, r)
<1> DEFINE q == pass[p]
           Goal == Gone(p) \/ \E r : GoesOnIn(p, r)
           Ahead == {"report", "retry", "bury", "dead", "late", "letgo"}
<1>1. /\ pass \in [Procs -> Passes] /\ q \in Passes /\ SoundPass(q, step)
      /\ q.stage # "idle" => q.job \in Jobs
      /\ q.attempt \in Nat /\ q.key \in Nat /\ q.stage \in Stages
  BY PassFields DEF TypeOK, SoundPasses, SoundPass
<1>2. Stepping \subseteq Stages /\ Ahead \subseteq Stages /\ "finish" \in Stages
      /\ "idle" \notin Stepping \union Ahead \union {"finish"}
      /\ Ahead \intersect (Stepping \union {"finish"}) = {}
      /\ \A job, attempt, stage, mode, key, cached, outcome :
           LET r == Pass(job, attempt, stage, mode, key, cached, outcome) IN
             r.job = job /\ r.attempt = attempt /\ r.stage = stage
  BY DEF Stepping, Stages, Pass
<1>3. ASSUME q.stage # "idle", NEW stage \in Ahead, To(p, stage) \/ Leaves(p, stage)
      PROVE  Goal
  <2>1. CASE To(p, stage)
    <3> DEFINE r == Pass(q.job, q.attempt, stage, q.mode, q.key, q.cached, q.outcome)
    <3>1. SoundPass(r, step)
      BY <1>1, <1>2, <1>3, Moves DEF Stepping
    <3>2. r.job = q.job /\ r.attempt = q.attempt /\ r.stage # "idle" /\ pass' = [pass EXCEPT ![p] = r]
      BY <1>2, <2>1 DEF To
    <3> HIDE DEF r
    <3> QED
      BY <1>3, <3>1, <3>2 DEF GoesOnIn
  <2>2. CASE Leaves(p, stage)
    <3> DEFINE r == Pass(q.job, q.attempt, stage, Idle.mode, 0, Idle.cached, "none")
    <3>1. SoundPass(r, step)
      BY <1>1, <1>2, <1>3, Moves
    <3>2. r.job = q.job /\ r.attempt = q.attempt /\ r.stage # "idle" /\ pass' = [pass EXCEPT ![p] = r]
      BY <1>2, <2>2 DEF Leaves
    <3> HIDE DEF r
    <3> QED
      BY <1>3, <3>1, <3>2 DEF GoesOnIn
  <2> QED
    BY <1>3, <2>1, <2>2
<1>4. ASSUME q.stage \in Stepping,
             NEW stage \in {"steps", "exec", "look", "record"}, To(p, stage),
             stage \in {"steps", "exec"} => q.stage \in {"steps", "exec"} /\ step[q.key].kind = "run",
             stage \in {"look", "record"} => step[q.key].kind = "batch"
      PROVE  Goal
  <2> DEFINE r == Pass(q.job, q.attempt, stage, q.mode, q.key, q.cached, q.outcome)
  <2>1. SoundPass(r, step)
    BY <1>1, <1>2, <1>4, Moves DEF Stepping
  <2>2. r.job = q.job /\ r.attempt = q.attempt /\ r.stage # "idle" /\ pass' = [pass EXCEPT ![p] = r]
    BY <1>2, <1>4 DEF To
  <2> HIDE DEF r
  <2> QED
    BY <1>2, <1>4, <2>1, <2>2 DEF GoesOnIn
<1>5. ASSUME q.stage \in Stepping,
             NEW outcome \in {"completed", "failed", "sleeping", "waiting"}, Finishes(p, outcome)
      PROVE  Goal
  <2> DEFINE r == Pass(q.job, q.attempt, "finish", q.mode, q.key, Idle.cached, outcome)
  <2>1. SoundPass(r, step)
    BY <1>1, <1>2, <1>5, Moves
  <2>2. r.job = q.job /\ r.attempt = q.attempt /\ r.stage # "idle" /\ pass' = [pass EXCEPT ![p] = r]
    BY <1>2, <1>5 DEF Finishes
  <2> HIDE DEF r
  <2> QED
    BY <1>2, <1>5, <2>1, <2>2 DEF GoesOnIn
<1>6. ASSUME q.stage \in Stepping, GoesOn(p)
      PROVE  Goal
  <2> DEFINE r == Arrived(q, q.key + 1)
  <2>1. q.job \in Jobs /\ \A k \in Keys : SoundStatus(step[k].kind, q.cached[k])
    BY <1>1, <1>2, <1>6 DEF SoundPass
  <2>2. q.key + 1 \in Nat
    BY <1>1
  <2>3. SoundPass(r, step) /\ r.job = q.job /\ r.attempt = q.attempt /\ r.stage # "idle"
    BY <1>1, <2>1, <2>2, Arrives
  <2>4. pass' = [pass EXCEPT ![p] = r]
    BY <1>6 DEF GoesOn
  <2> HIDE DEF r
  <2> QED
    BY <1>2, <1>6, <2>3, <2>4 DEF GoesOnIn
<1>7. ASSUME AtWrite(p)
      PROVE  q.stage \in Stepping
  BY <1>7 DEF AtWrite, Reaches, Stepping
<1> SUFFICES Goal
  BY DEF Goal
<1> HIDE DEF Goal
<1>8. CASE acquire(p)
  <2>1. q.stage # "idle" /\ q.job \in Jobs
    BY <1>1, <1>8 DEF acquire
  <2>2. CASE Busy(p) \/ wf.status \in Ended
    BY <1>3, <1>8, <2>1, <2>2 DEF acquire
  <2>3. CASE ~Busy(p) /\ wf.status \notin Ended
    <3> DEFINE mode == IF wf.status = "cancelling" THEN "cancel" ELSE "run"
               cached == [k \in Keys |-> step[k].status]
               o == Pass(q.job, q.attempt, "letgo", mode, 0, cached, "none")
               r == Arrived(o, 1)
    <3>1. pass' = [pass EXCEPT ![p] = r]
      BY <1>8, <2>3 DEF acquire
    <3>2. cached \in [Keys -> StepStatuses]
      BY RowFields DEF TypeOK
    <3>3. mode \in Modes
      BY DEF Modes
    <3> HIDE DEF mode, cached
    <3>4. o \in Passes
      BY <1>1, <1>2, <2>1, <3>2, <3>3, PassType
    <3>5. o.job = q.job /\ o.attempt = q.attempt /\ o.cached = cached
      BY DEF Pass
    <3> HIDE DEF o
    <3>6. \A k \in Keys : SoundStatus(step[k].kind, o.cached[k])
      BY <3>5 DEF cached, SoundSteps, SoundStep
    <3>7. SoundPass(r, step) /\ r.job = q.job /\ r.attempt = q.attempt /\ r.stage # "idle"
      BY <2>1, <3>4, <3>5, <3>6, Arrives
    <3> HIDE DEF r
    <3> QED
      BY <2>1, <3>1, <3>7 DEF GoesOnIn, Goal
  <2> QED
    BY <2>2, <2>3
<1>9. CASE letGo(p) \/ finish(p)
  <2>1. q.stage # "idle" /\ Leaves(p, "report")
    BY <1>9 DEF letGo, finish, LetsGo
  <2> QED
    BY <1>3, <2>1
<1>10. CASE suspend(p) \/ seeCancelled(p)
  <2>1. q.stage \in Stepping
    BY <1>7, <1>10 DEF suspend, seeCancelled, Stepping
  <2>2. Finishes(p, "waiting") \/ Finishes(p, "sleeping")
    BY <1>10 DEF suspend, seeCancelled
  <2> QED
    BY <1>5, <2>1, <2>2
<1>11. CASE loseLease(p)
  <2>1. q.stage # "idle" /\ Leaves(p, "report")
    BY <1>2, <1>7, <1>11 DEF loseLease
  <2> QED
    BY <1>3, <2>1
<1>12. CASE runStep(p)
  <2>1. q.stage = "steps" /\ step[q.key].kind = "run"
    BY <1>12 DEF runStep, Reaches
  <2>2. To(p, "exec") \/ Finishes(p, "failed")
    BY <1>12 DEF runStep
  <2> QED
    BY <1>4, <1>5, <2>1, <2>2 DEF Stepping
<1>13. CASE returns(p) \/ throws(p)
  <2>1. q.stage = "exec" /\ step[q.key].kind = "run"
    BY <1>1, <1>13 DEF returns, throws, SoundPass
  <2>2. GoesOn(p) \/ Finishes(p, "failed") \/ Finishes(p, "sleeping") \/ To(p, "steps")
    BY <1>13 DEF returns, throws
  <2> QED
    BY <1>4, <1>5, <1>6, <2>1, <2>2 DEF Stepping
<1>14. CASE sleepStep(p) \/ waitStep(p)
  <2>1. q.stage = "steps"
    BY <1>14 DEF sleepStep, waitStep, Reaches
  <2>2. GoesOn(p) \/ Finishes(p, "sleeping") \/ Finishes(p, "waiting")
    BY <1>14 DEF sleepStep, waitStep
  <2> QED
    BY <1>5, <1>6, <2>1, <2>2 DEF Stepping
<1>15. CASE batchStep(p) \/ findBatch(p)
  <2>1. q.stage \in Stepping /\ step[q.key].kind = "batch"
    BY <1>1, <1>15 DEF batchStep, findBatch, Reaches, SoundPass, Stepping
  <2>2. To(p, "look") \/ To(p, "record") \/ Finishes(p, "waiting")
    BY <1>15 DEF batchStep, findBatch
  <2> QED
    BY <1>4, <1>5, <2>1, <2>2
<1>16. CASE recordBatch(p)
  <2>1. q.stage \in Stepping
    BY <1>16 DEF recordBatch, Stepping
  <2>2. GoesOn(p) \/ Finishes(p, "failed")
    BY <1>16 DEF recordBatch
  <2> QED
    BY <1>5, <1>6, <2>1, <2>2
<1>17. CASE tickDeadLettered(p) \/ fail(p) \/ deadLetter(p) \/ complete(p) \/ crash(p)
  <2>1. q.stage # "idle"
    BY <1>17 DEF tickDeadLettered, fail, deadLetter, complete, crash
  <2>2. To(p, "dead") \/ To(p, "bury") \/ Leaves(p, "late") \/ pass' = [pass EXCEPT ![p] = Idle]
    BY <1>17 DEF tickDeadLettered, Buries, fail, deadLetter, complete, crash, Reports
  <2> QED
    BY <1>3, <2>1, <2>2 DEF Gone, Goal
<1>18. CASE storeRejects(p)
  <2>1. CASE (AtWrite(p) \/ q.stage = "look") /\ Finishes(p, "failed")
    <3>1. q.stage \in Stepping
      BY <1>7, <2>1 DEF Stepping
    <3> QED
      BY <1>5, <2>1, <3>1
  <2>2. CASE q.stage \in {"take", "finish", "letgo"} /\ Leaves(p, "retry")
    BY <1>3, <2>2
  <2>3. CASE q.stage \in {"bury", "late"} /\ Buries(p)
    <3>1. To(p, "dead") \/ pass' = [pass EXCEPT ![p] = Idle]
      BY <2>3 DEF Buries
    <3> QED
      BY <1>3, <2>3, <3>1 DEF Gone, Goal
  <2> QED
    BY <1>18, <2>1, <2>2, <2>3 DEF storeRejects
<1>19. Goal
  BY <1>8, <1>9, <1>10, <1>11, <1>12, <1>13, <1>14, <1>15, <1>16, <1>17, <1>18 DEF PassStep
<1> QED
  BY <1>19

(* So the passes stay sound. *)
LEMMA PassesStaySound ==
  ASSUME TypeOK, SoundPasses, SoundSteps, [Next]_vars
  PROVE  SoundPasses' /\ pass' \in [Procs -> Passes]
<1>1. SameKinds(step, step')
  BY KindsStay
<1>2. SUFFICES pass' \in [Procs -> Passes] /\ \A p \in Procs : SoundPass(pass'[p], step)
  <2>1. \A p \in Procs : SoundPass(pass'[p], step')
    BY <1>1, <1>2, KindsSuffice
  <2> QED
    BY <1>2, <2>1 DEF SoundPasses
<1>3. pass \in [Procs -> Passes] /\ \A p \in Procs : SoundPass(pass[p], step)
  BY DEF TypeOK, SoundPasses
<1>4. CASE pass' = pass
  BY <1>3, <1>4
<1>5. ASSUME NEW p \in Procs, NEW r, SoundPass(r, step), pass' = [pass EXCEPT ![p] = r]
      PROVE  pass' \in [Procs -> Passes] /\ \A q \in Procs : SoundPass(pass'[q], step)
  <2>1. r \in Passes
    BY <1>5 DEF SoundPass
  <2> QED
    BY <1>3, <1>5, <2>1
<1>6. ASSUME NEW p \in Procs, NEW j \in Jobs, claim(p, j)
      PROVE  \E r : SoundPass(r, step) /\ pass' = [pass EXCEPT ![p] = r]
  <2> DEFINE stage == IF tick[j].attempt + 1 > TickAttempts THEN "bury" ELSE "take"
             r == Pass(j, tick[j].attempt + 1, stage, "run", 0, Idle.cached, "none")
  <2>1. tick[j].attempt + 1 \in Nat
    BY RowFields DEF TypeOK
  <2>2. stage \in Stages /\ stage \notin Stepping \union {"finish", "idle"} /\ "run" \in Modes
    BY DEF Stages, Stepping, Modes
  <2>3. pass' = [pass EXCEPT ![p] = r]
    BY <1>6 DEF claim
  <2> HIDE DEF stage
  <2>4. r \in Passes
    BY <2>1, <2>2, IdleType, PassType
  <2>5. r.job = j /\ r.stage = stage /\ r.cached = Idle.cached
    BY DEF Pass
  <2> HIDE DEF r
  <2>6. SoundPass(r, step)
    BY <2>2, <2>4, <2>5 DEF SoundPass, SoundStatus, Idle, Pass, Stepping
  <2> QED
    BY <2>3, <2>6
<1>7. ASSUME NEW p \in Procs, PassStep(p) \/ storeRejects(p) \/ crash(p)
      PROVE  \E r : SoundPass(r, step) /\ pass' = [pass EXCEPT ![p] = r]
  <2>1. SoundPass(Idle, step)
    BY IdleType DEF SoundPass, SoundStatus, Idle, Pass, Stepping
  <2> QED
    BY <1>7, <2>1, PassMoves DEF Gone, GoesOnIn
<1>8. ASSUME \/ \E p \in Procs : renew(p)
             \/ \E j \in Jobs : LapseJob(j)
             \/ LapseHold \/ cancel \/ Elapse \/ UNCHANGED vars
             \/ \E k \in Keys : signal(k) \/ BatchEnds(k, "succeeded") \/ BatchEnds(k, "failed")
      PROVE  pass' = pass
  BY <1>8 DEF renew, LapseJob, LapseHold, cancel, Elapse, vars, signal, BatchEnds
<1>9. pass' = pass \/ \E p \in Procs : \E r : SoundPass(r, step) /\ pass' = [pass EXCEPT ![p] = r]
  BY <1>6, <1>7, <1>8 DEF Next
<1> QED
  BY <1>4, <1>5, <1>9

-----------------------------------------------------------------------------
(* The tick jobs.                                                          *)

(* Of a tick job nothing changes but its due time, ... *)
TickKept(j) ==
  tick'[j].at = tick[j].at /\ tick'[j].attempt = tick[j].attempt /\ tick'[j].lease = tick[j].lease

(* ... or it is new, ... *)
TickNew(j) ==
  /\ tick[j].at = "none" /\ wf.job # j /\ \A p \in Procs : pass[p].job # j
  /\ tick'[j].at = "pending" /\ tick'[j].attempt = 0

(* ... or its outcome was reported. *)
TickReported(p) ==
  LET j == pass[p].job IN
    /\ Current(p) /\ pass[p].stage \in {"report", "retry", "bury", "dead"}
    /\ pass'[p].stage \in {"idle", "late"}
    /\ tick'[j].at = "pending" => tick'[j].attempt = tick[j].attempt
    /\ tick'[j].at # "claimed"

(* A step of a pass reports its own tick job, and schedules new ones. *)
LEMMA PassTicks ==
  ASSUME TypeOK, SoundPasses, NEW p \in Procs, PassStep(p)
  PROVE  /\ tick' \in [Jobs -> Ticks]
         /\ \A j \in Jobs : TickKept(j) \/ TickNew(j) \/ (j = pass[p].job /\ TickReported(p))
<1>1. tick \in [Jobs -> Ticks] /\ pass \in [Procs -> Passes] /\ pass[p] \in Passes
      /\ (pass[p].stage # "idle" => pass[p].job \in Jobs) /\ pass[p].attempt \in Nat
  BY PassFields DEF TypeOK, SoundPasses, SoundPass
<1>2. \A T \in [Jobs -> Ticks], delay \in Int : Plus(T, delay) \in [Jobs -> Ticks]
  BY PlusType
<1>3. ASSUME NEW T \in [Jobs -> Ticks], \A j \in Jobs : T[j] = tick[j] \/
               (/\ tick[j].at = "none" /\ wf.job # j /\ \A o \in Procs : pass[o].job # j
                /\ T[j].at = "pending" /\ T[j].attempt = 0),
             NEW delay \in Int
      PROVE  \A j \in Jobs : Plus(T, delay)[j] = tick[j] \/
               (/\ tick[j].at = "none" /\ wf.job # j /\ \A o \in Procs : pass[o].job # j
                /\ Plus(T, delay)[j].at = "pending" /\ Plus(T, delay)[j].attempt = 0)
  BY <1>3, PlusType
<1>4. CASE tick' = tick
  BY <1>1, <1>4 DEF TickKept
<1>5. CASE \/ tick' = Reticked(tick)
           \/ \E delay \in Int : tick' = Plus(tick, delay) \/ tick' = Reticked(Plus(tick, delay))
  <2>1. 0 \in Int
    OBVIOUS
  <2> DEFINE Grown(T) == T \in [Jobs -> Ticks] /\ \A j \in Jobs : T[j] = tick[j] \/
               (/\ tick[j].at = "none" /\ wf.job # j /\ \A o \in Procs : pass[o].job # j
                /\ T[j].at = "pending" /\ T[j].attempt = 0)
  <2>2. Grown(tick)
    BY <1>1
  <2>3. ASSUME NEW T, Grown(T), NEW delay \in Int
        PROVE  Grown(Plus(T, delay))
    BY <1>2, <1>3, <2>3
  <2> HIDE DEF Grown
  <2>4. ASSUME NEW T, Grown(T)
        PROVE  Grown(Reticked(T))
    BY <2>1, <2>3, <2>4 DEF Reticked
  <2>5. Grown(tick')
    BY <1>5, <2>2, <2>3, <2>4
  <2> QED
    BY <2>5 DEF Grown, TickKept, TickNew
<1>6. CASE \E row \in Ticks : /\ tick' = IF Current(p) THEN [tick EXCEPT ![pass[p].job] = row] ELSE tick
                              /\ row.at # "claimed"
                              /\ row.at = "pending" => row.attempt = pass[p].attempt
                              /\ pass'[p].stage \in {"idle", "late"}
                              /\ pass[p].stage \in {"report", "retry", "bury", "dead"}
  <2>1. pass[p].job \in Jobs
    BY <1>1, <1>6
  <2>2. CASE ~Current(p)
    BY <1>4, <1>6, <2>2
  <2>3. CASE Current(p)
    <3>1. PICK row \in Ticks :
            /\ tick' = [tick EXCEPT ![pass[p].job] = row]
            /\ row.at # "claimed" /\ (row.at = "pending" => row.attempt = pass[p].attempt)
      BY <1>6, <2>3
    <3>2. \A j \in Jobs : j # pass[p].job => tick'[j] = tick[j]
      BY <1>1, <3>1
    <3>3. tick'[pass[p].job] = row /\ tick' \in [Jobs -> Ticks]
      BY <1>1, <2>1, <3>1
    <3>4. tick[pass[p].job].attempt = pass[p].attempt
      BY <2>3 DEF Current
    <3> QED
      BY <1>6, <2>3, <3>1, <3>2, <3>3, <3>4 DEF TickKept, TickReported
  <2> QED
    BY <2>2, <2>3
<1>7. CASE complete(p) \/ fail(p) \/ deadLetter(p)
  <2>1. /\ NoTick \in Ticks /\ Tick("pending", pass[p].attempt, TickBackoff, "live") \in Ticks
        /\ tick[pass[p].job].attempt \in Nat => Tick("dead", tick[pass[p].job].attempt, 0, "live") \in Ticks
    BY <1>1, TickType, WorkflowAssumption DEF NoTick
  <2>2. /\ NoTick.at = "none" /\ Tick("dead", tick[pass[p].job].attempt, 0, "live").at = "dead"
        /\ Tick("pending", pass[p].attempt, TickBackoff, "live").at = "pending"
        /\ Tick("pending", pass[p].attempt, TickBackoff, "live").attempt = pass[p].attempt
        /\ Idle.stage = "idle" /\ Pass(pass[p].job, pass[p].attempt, "late", Idle.mode, 0, Idle.cached, "none").stage = "late"
    BY DEF NoTick, Tick, Idle, Pass
  <2>3. tick[pass[p].job].attempt \in Nat
    BY <1>1, <1>7, RowFields DEF complete, fail, deadLetter
  <2>4. CASE complete(p)
    BY <1>1, <1>6, <2>1, <2>2, <2>4 DEF complete, Reports
  <2>5. CASE fail(p)
    BY <1>1, <1>4, <1>6, <2>1, <2>2, <2>5 DEF fail, Reports
  <2>6. CASE deadLetter(p)
    <3>1. pass'[p].stage \in {"idle", "late"}
      BY <1>1, <2>2, <2>6 DEF deadLetter, Leaves
    <3> QED
      BY <1>6, <2>1, <2>2, <2>3, <2>6, <3>1 DEF deadLetter
  <2> QED
    BY <1>7, <2>4, <2>5, <2>6
<1>8. CASE letGo(p) \/ finish(p) \/ tickDeadLettered(p)
  <2>1. CASE letGo(p) \/ tickDeadLettered(p)
    BY <1>4, <1>5, <2>1 DEF letGo, LetsGo, tickDeadLettered
  <2>2. CASE finish(p)
    <3>1. CASE HasWake(p)
      <4>1. pass[p].key \in Keys
        BY <2>2, <3>1 DEF finish, HasWake, SoundPasses, SoundPass
      <4>2. WakeAt(p) \in Int /\ Now(p) \in Int /\ WakeAt(p) - Now(p) \in Int
        BY <4>1, RowFields, WorkflowAssumption DEF WakeAt, Now, TypeOK
      <4>3. tick' = Reticked(tick) \/ \E delay \in {0, WakeAt(p) - Now(p)} : tick' = Reticked(Plus(tick, delay))
        BY <2>2 DEF finish, LetsGo
      <4> QED
        BY <1>5, <4>2, <4>3
    <3>2. CASE ~HasWake(p)
      <4>1. tick' = Reticked(tick) \/ tick' = Reticked(Plus(tick, 0))
        BY <2>2, <3>2 DEF finish, LetsGo
      <4> QED
        BY <1>5, <4>1
    <3> QED
      BY <3>1, <3>2
  <2> QED
    BY <1>8, <2>1, <2>2
<1>9. CASE \/ acquire(p) \/ suspend(p) \/ loseLease(p) \/ seeCancelled(p) \/ runStep(p) \/ returns(p)
           \/ throws(p) \/ sleepStep(p) \/ waitStep(p) \/ batchStep(p) \/ findBatch(p) \/ recordBatch(p)
  <2>1. tick' = tick
    BY <1>9 DEF acquire, suspend, loseLease, seeCancelled, runStep, returns, throws, sleepStep,
                waitStep, batchStep, findBatch, recordBatch
  <2> QED
    BY <1>4, <2>1
<1> QED
  BY <1>7, <1>8, <1>9 DEF PassStep

(* What becomes of a tick job. *)
LEMMA NextTicks ==
  ASSUME TypeOK, SoundPasses, [Next]_vars
  PROVE  /\ tick' \in [Jobs -> Ticks]
         /\ \A j \in Jobs :
              \/ TickKept(j) \/ TickNew(j) \/ LapseJob(j)
              \/ \E p \in Procs : claim(p, j) \/ (PassStep(p) /\ j = pass[p].job /\ TickReported(p))
<1>1. tick \in [Jobs -> Ticks] /\ \A j \in Jobs : tick[j] \in Ticks
  BY DEF TypeOK
<1>2. CASE tick' = tick
  BY <1>1, <1>2 DEF TickKept
<1>3. CASE Elapse
  <2>1. \A j \in Jobs : Earlier(tick[j].due, 0) \in Int
    BY <1>1, RowFields DEF Earlier
  <2>2. \A j \in Jobs : tick'[j] = Tick(tick[j].at, tick[j].attempt, Earlier(tick[j].due, 0), tick[j].lease)
                      /\ tick'[j] \in Ticks
    BY <1>1, <1>3, <2>1, TickType, RowFields DEF Elapse
  <2>3. tick' \in [Jobs -> Ticks]
    BY <1>3, <2>2 DEF Elapse
  <2> QED
    BY <2>2, <2>3 DEF TickKept, Tick
<1>4. CASE \E k \in Keys : signal(k) \/ BatchEnds(k, "succeeded") \/ BatchEnds(k, "failed")
  <2>1. tick' = tick \/ tick' = Plus(tick, 0)
    BY <1>4 DEF signal, BatchEnds
  <2> QED
    BY <1>1, <1>2, <2>1, PlusType DEF TickKept, TickNew
<1>5. CASE cancel
  BY <1>1, <1>5, PlusType DEF cancel, TickKept, TickNew
<1>6. ASSUME NEW p \in Procs, NEW j \in Jobs, claim(p, j)
      PROVE  tick' \in [Jobs -> Ticks] /\ \A i \in Jobs : i # j => TickKept(i)
  <2>1. tick[j].attempt + 1 \in Nat
    BY <1>1, RowFields
  <2>2. Tick("claimed", tick[j].attempt + 1, 0, "live") \in Ticks
    BY <2>1, TickType
  <2> QED
    BY <1>1, <1>6, <2>2 DEF claim, TickKept
<1>7. ASSUME NEW j \in Jobs, LapseJob(j)
      PROVE  tick' \in [Jobs -> Ticks] /\ \A i \in Jobs : i # j => TickKept(i)
  <2>1. Tick("claimed", tick[j].attempt, 0, "lapsed") \in Ticks
    BY <1>1, RowFields, TickType
  <2> QED
    BY <1>1, <1>7, <2>1 DEF LapseJob, TickKept
<1>8. ASSUME \/ \E p \in Procs : renew(p) \/ storeRejects(p) \/ crash(p)
             \/ LapseHold \/ UNCHANGED vars
      PROVE  tick' = tick
  BY <1>8 DEF renew, storeRejects, crash, LapseHold, vars
<1>9. ASSUME NEW p \in Procs, PassStep(p)
      PROVE  /\ tick' \in [Jobs -> Ticks]
             /\ \A j \in Jobs : TickKept(j) \/ TickNew(j) \/ (PassStep(p) /\ j = pass[p].job /\ TickReported(p))
  BY <1>9, PassTicks
<1> QED
  BY <1>2, <1>3, <1>4, <1>5, <1>6, <1>7, <1>8, <1>9 DEF Next

(* No two passes are of the same attempt of a tick job, and none of one    *)
(* that is still to come. *)
Apart ==
  /\ \A p, q \in Procs :
       p # q /\ pass[p].stage # "idle" /\ pass[p].job = pass[q].job =>
         pass[p].attempt # pass[q].attempt
  /\ \A p \in Procs :
       pass[p].stage # "idle" /\ tick[pass[p].job].at \in {"pending", "claimed"} =>
         pass[p].attempt <= tick[pass[p].job].attempt

(* A pass is idle, or of a job. *)
IdleHasNone == \A p \in Procs : pass[p].stage = "idle" <=> pass[p].job = NoJob

(* What a step does to the job and attempt of a pass. *)
LEMMA NextPass ==
  ASSUME TypeOK, SoundPasses, SoundSteps, [Next]_vars, NEW p \in Procs
  PROVE  \/ pass'[p] = pass[p]
         \/ pass[p].stage # "idle" /\ pass'[p] = Idle
         \/ /\ pass[p].stage # "idle" /\ pass'[p].stage # "idle"
            /\ pass'[p].job = pass[p].job /\ pass'[p].attempt = pass[p].attempt
            /\ PassStep(p) \/ storeRejects(p)
         \/ \E j \in Jobs : claim(p, j)
<1>1. pass \in [Procs -> Passes]
  BY DEF TypeOK
<1>2. ASSUME NEW q \in Procs, PassStep(q) \/ storeRejects(q) \/ crash(q)
      PROVE  \/ pass'[p] = pass[p]
             \/ pass[p].stage # "idle" /\ pass'[p] = Idle
             \/ /\ pass[p].stage # "idle" /\ pass'[p].stage # "idle"
                /\ pass'[p].job = pass[p].job /\ pass'[p].attempt = pass[p].attempt
                /\ PassStep(p) \/ storeRejects(p)
  <2>1. CASE Gone(q)
    BY <1>1, <2>1 DEF Gone
  <2>2. CASE \E r : GoesOnIn(q, r)
    <3>1. PICK r : GoesOnIn(q, r)
      BY <2>2
    <3>2. CASE p = q
      <4>1. pass'[p] = r
        BY <1>1, <3>1, <3>2 DEF GoesOnIn
      <4>2. CASE PassStep(q) \/ storeRejects(q)
        BY <3>1, <3>2, <4>1, <4>2 DEF GoesOnIn
      <4>3. CASE crash(q)
        BY <1>1, <3>2, <4>3 DEF crash
      <4> QED
        BY <1>2, <4>2, <4>3
    <3>3. CASE p # q
      BY <1>1, <3>1, <3>3 DEF GoesOnIn
    <3> QED
      BY <3>2, <3>3
  <2> QED
    BY <1>2, <2>1, <2>2, PassMoves
<1>3. ASSUME NEW q \in Procs, NEW j \in Jobs, claim(q, j), p # q
      PROVE  pass'[p] = pass[p]
  BY <1>1, <1>3 DEF claim
<1>4. ASSUME \/ \E q \in Procs : renew(q)
             \/ \E j \in Jobs : LapseJob(j)
             \/ LapseHold \/ cancel \/ Elapse \/ UNCHANGED vars
             \/ \E k \in Keys : signal(k) \/ BatchEnds(k, "succeeded") \/ BatchEnds(k, "failed")
      PROVE  pass' = pass
  BY <1>4 DEF renew, LapseJob, LapseHold, cancel, Elapse, vars, signal, BatchEnds
<1> QED
  BY <1>2, <1>3, <1>4 DEF Next

(* A pass has a job unless it is idle. *)
LEMMA IdleStays ==
  ASSUME TypeOK, SoundPasses, SoundSteps, IdleHasNone, [Next]_vars
  PROVE  IdleHasNone'
<1>1. SUFFICES ASSUME NEW p \in Procs
               PROVE  pass'[p].stage = "idle" <=> pass'[p].job = NoJob
  BY DEF IdleHasNone
<1>2. Idle.stage = "idle" /\ Idle.job = NoJob
  BY DEF Idle, Pass
<1>3. ASSUME NEW j \in Jobs, claim(p, j)
      PROVE  pass'[p].stage # "idle" /\ pass'[p].job = j
  <2> DEFINE stage == IF tick[j].attempt + 1 > TickAttempts THEN "bury" ELSE "take"
             r == Pass(j, tick[j].attempt + 1, stage, "run", 0, Idle.cached, "none")
  <2>1. pass' = [pass EXCEPT ![p] = r] /\ pass \in [Procs -> Passes]
    BY <1>3 DEF claim, TypeOK
  <2>2. r.stage # "idle" /\ r.job = j
    BY DEF Pass
  <2> HIDE DEF r
  <2> QED
    BY <2>1, <2>2
<1> QED
  BY <1>2, <1>3, NextPass, WorkflowAssumption DEF IdleHasNone

(* Attempts stay apart: a claim counts one more, and a job's name is used  *)
(* again only when nobody has it. *)
LEMMA ApartStays ==
  ASSUME TypeOK, SoundPasses, SoundSteps, IdleHasNone, Apart, [Next]_vars
  PROVE  Apart'
<1>1. /\ \A j \in Jobs : tick[j] \in Ticks /\ tick[j].attempt \in Nat
      /\ \A p \in Procs : pass[p] \in Passes /\ pass[p].attempt \in Nat
                         /\ (pass[p].stage # "idle" => pass[p].job \in Jobs)
      /\ pass \in [Procs -> Passes] /\ tick \in [Jobs -> Ticks]
  BY RowFields, PassFields DEF TypeOK, SoundPasses, SoundPass
<1>2. /\ IdleHasNone' /\ SoundPasses' /\ tick' \in [Jobs -> Ticks]
  BY IdleStays, PassesStaySound, NextTicks
<1>3. ASSUME NEW p \in Procs, NEW j \in Jobs, claim(p, j)
      PROVE  Apart'
  <2> DEFINE stage == IF tick[j].attempt + 1 > TickAttempts THEN "bury" ELSE "take"
             r == Pass(j, tick[j].attempt + 1, stage, "run", 0, Idle.cached, "none")
             t == Tick("claimed", tick[j].attempt + 1, 0, "live")
  <2>1. pass' = [pass EXCEPT ![p] = r] /\ tick' = [tick EXCEPT ![j] = t]
    BY <1>3 DEF claim
  <2>2. r.stage # "idle" /\ r.job = j /\ r.attempt = tick[j].attempt + 1
        /\ t.at = "claimed" /\ t.attempt = tick[j].attempt + 1
    BY DEF Pass, Tick
  <2>3. tick[j].at \in {"pending", "claimed"}
    BY <1>3 DEF claim, Claimable
  <2> HIDE DEF r, t
  <2>4. /\ pass'[p] = r /\ (\A q \in Procs : q # p => pass'[q] = pass[q])
        /\ tick'[j] = t /\ (\A i \in Jobs : i # j => tick'[i] = tick[i])
    BY <1>1, <2>1
  <2>5. ASSUME NEW q \in Procs, pass'[q].stage # "idle",
               tick'[pass'[q].job].at \in {"pending", "claimed"}
        PROVE  pass'[q].attempt <= tick'[pass'[q].job].attempt
    <3>1. CASE q = p
      BY <1>1, <2>2, <2>4, <3>1
    <3>2. CASE q # p
      <4>1. pass'[q] = pass[q] /\ pass[q].job \in Jobs
        BY <1>1, <2>4, <2>5, <3>2
      <4>2. CASE pass[q].job = j
        BY <1>1, <2>2, <2>3, <2>4, <2>5, <4>1, <4>2 DEF Apart
      <4>3. CASE pass[q].job # j
        BY <2>4, <2>5, <4>1, <4>3 DEF Apart
      <4> QED
        BY <4>2, <4>3
    <3> QED
      BY <3>1, <3>2
  <2>6. ASSUME NEW q \in Procs, q # p, pass[q].job = j
        PROVE  pass[q].attempt < r.attempt
    <3>1. pass[q].stage # "idle"
      BY <2>6, WorkflowAssumption DEF IdleHasNone
    <3> QED
      BY <1>1, <2>2, <2>3, <2>6, <3>1 DEF Apart
  <2>7. ASSUME NEW q \in Procs, NEW o \in Procs, q # o, pass'[q].stage # "idle",
               pass'[q].job = pass'[o].job
        PROVE  pass'[q].attempt # pass'[o].attempt
    BY <1>1, <2>2, <2>4, <2>6, <2>7 DEF Apart
  <2> QED
    BY <2>5, <2>7 DEF Apart
<1>4. CASE ~\E p \in Procs, j \in Jobs : claim(p, j)
  <2>1. \A p \in Procs : \/ pass'[p].stage = "idle" /\ pass'[p].job = NoJob
                       \/ /\ pass'[p].job = pass[p].job /\ pass'[p].attempt = pass[p].attempt
                          /\ pass'[p].stage # "idle" => pass[p].stage # "idle"
    BY <1>4, NextPass DEF Idle, Pass
  <2>2. ASSUME NEW p \in Procs, pass'[p].stage # "idle",
               tick'[pass'[p].job].at \in {"pending", "claimed"}
        PROVE  pass'[p].attempt <= tick'[pass'[p].job].attempt
    <3> DEFINE j == pass[p].job
    <3>1. pass[p].stage # "idle" /\ pass'[p].job = j /\ pass'[p].attempt = pass[p].attempt /\ j \in Jobs
      BY <1>1, <2>1, <2>2
    <3>2. ~TickNew(j)
      BY DEF TickNew
    <3>3. CASE TickKept(j)
      BY <2>2, <3>1, <3>3 DEF TickKept, Apart
    <3>4. CASE LapseJob(j)
      <4>1. tick'[j].attempt = tick[j].attempt /\ tick[j].at = "claimed"
        BY <1>1, <3>1, <3>4 DEF LapseJob, Tick
      <4> QED
        BY <3>1, <4>1 DEF Apart
    <3>5. CASE \E q \in Procs : j = pass[q].job /\ TickReported(q)
      <4>1. tick[j].at = "claimed" /\ tick'[j].attempt = tick[j].attempt
        BY <2>2, <3>1, <3>5 DEF TickReported, Current
      <4> QED
        BY <3>1, <4>1 DEF Apart
    <3> QED
      BY <1>4, <3>1, <3>2, <3>3, <3>4, <3>5, NextTicks
  <2>3. ASSUME NEW p \in Procs, NEW q \in Procs, p # q, pass'[p].stage # "idle",
               pass'[p].job = pass'[q].job
        PROVE  pass'[p].attempt # pass'[q].attempt
    <3>1. pass'[p].job # NoJob
      BY <1>2, <2>3 DEF IdleHasNone
    <3> QED
      BY <2>1, <2>3, <3>1 DEF Apart
  <2> QED
    BY <2>2, <2>3 DEF Apart
<1> QED
  BY <1>3, <1>4

-----------------------------------------------------------------------------
(* The hold.                                                               *)

AtWork == Stepping \union {"finish"}

(* A pass is at work since it took the workflow; it does not go back, and  *)
(* keeps what it found. *)
LEMMA StaysAtWork ==
  ASSUME TypeOK, SoundPasses, NEW p \in Procs, PassStep(p) \/ storeRejects(p), ~acquire(p),
         pass'[p].stage \in AtWork
  PROVE  /\ pass[p].stage \in Stepping /\ pass'[p].mode = pass[p].mode
         /\ pass'[p].stage \in Stepping =>
              /\ pass'[p].cached = pass[p].cached /\ pass'[p].key >= pass[p].key
              /\ pass'[p].key = pass[p].key /\ pass'[p].stage = "steps" => step[pass[p].key].kind = "run"
              /\ pass'[p].stage = "record" => findBatch(p)
<1> DEFINE q == pass[p]
           Goal == /\ q.stage \in Stepping /\ pass'[p].mode = q.mode
                   /\ pass'[p].stage \in Stepping =>
                        /\ pass'[p].cached = q.cached /\ pass'[p].key >= q.key
                        /\ pass'[p].key = q.key /\ pass'[p].stage = "steps" => step[q.key].kind = "run"
                        /\ pass'[p].stage = "record" => findBatch(p)
<1>1. pass \in [Procs -> Passes] /\ q \in Passes /\ SoundPass(q, step) /\ q.key \in Nat
  BY PassFields DEF TypeOK, SoundPasses
<1>2. \A job, attempt, stage, mode, key, cached, outcome :
        LET r == Pass(job, attempt, stage, mode, key, cached, outcome) IN
          r.stage = stage /\ r.mode = mode /\ r.key = key /\ r.cached = cached
  BY DEF Pass
<1>3. ASSUME NEW stage, To(p, stage), q.stage \in Stepping,
             stage = "steps" => step[q.key].kind = "run", stage = "record" => findBatch(p)
      PROVE  Goal
  <2> DEFINE r == Pass(q.job, q.attempt, stage, q.mode, q.key, q.cached, q.outcome)
  <2>1. r.stage = stage /\ r.mode = q.mode /\ r.key = q.key /\ r.cached = q.cached
    BY <1>2
  <2>2. pass' = [pass EXCEPT ![p] = r]
    BY <1>3 DEF To
  <2> HIDE DEF r
  <2>3. pass'[p] = r
    BY <1>1, <2>2
  <2> QED
    BY <1>1, <1>3, <2>1, <2>3
<1>4. ASSUME NEW outcome, Finishes(p, outcome), q.stage \in Stepping
      PROVE  Goal
  <2> DEFINE r == Pass(q.job, q.attempt, "finish", q.mode, q.key, Idle.cached, outcome)
  <2>1. r.stage = "finish" /\ r.mode = q.mode
    BY <1>2
  <2>2. pass' = [pass EXCEPT ![p] = r]
    BY <1>4 DEF Finishes
  <2> HIDE DEF r
  <2>3. pass'[p] = r
    BY <1>1, <2>2
  <2> QED
    BY <1>1, <1>4, <2>1, <2>3 DEF Stepping
<1>5. ASSUME GoesOn(p), q.stage \in Stepping
      PROVE  Goal
  <2> DEFINE r == Arrived(q, q.key + 1)
  <2>1. q.job \in Jobs /\ \A k \in Keys : SoundStatus(step[k].kind, q.cached[k])
    BY <1>1, <1>5 DEF SoundPass, Stepping
  <2>2. q.key + 1 \in Nat
    BY <1>1
  <2>3. r.mode = q.mode /\ r.stage \in {"steps", "look", "finish"}
        /\ (r.stage \in {"steps", "look"} => r.key >= q.key + 1 /\ r.cached = q.cached)
    BY <1>1, <2>1, <2>2, Arrives
  <2>4. pass' = [pass EXCEPT ![p] = r]
    BY <1>5 DEF GoesOn
  <2>5. SoundPass(r, step)
    BY <1>1, <2>1, <2>2, Arrives
  <2>6. r.key \in Nat
    BY <2>5, PassFields DEF SoundPass
  <2> HIDE DEF r
  <2>7. pass'[p] = r
    BY <1>1, <2>4
  <2> QED
    BY <1>1, <1>5, <2>3, <2>6, <2>7 DEF Stepping
<1>6. ASSUME NEW stage, stage \notin AtWork, To(p, stage) \/ Leaves(p, stage)
      PROVE  FALSE
  <2>1. pass'[p].stage = stage
    BY <1>1, <1>2, <1>6 DEF To, Leaves
  <2> QED
    BY <1>6, <2>1
<1>7. pass' # [pass EXCEPT ![p] = Idle]
  <2>1. Idle.stage \notin AtWork
    BY DEF Idle, Pass, AtWork, Stepping
  <2> QED
    BY <1>1, <2>1
<1>8. {"report", "retry", "bury", "dead", "late"} \intersect AtWork = {}
  BY DEF AtWork, Stepping
<1>9. AtWrite(p) => q.stage \in Stepping
  BY DEF AtWrite, Reaches, Stepping
<1> SUFFICES Goal
  BY DEF Goal
<1> HIDE DEF Goal
<1>10. CASE runStep(p)
  <2>1. q.stage \in Stepping /\ (To(p, "exec") \/ Finishes(p, "failed"))
    BY <1>10 DEF runStep, Reaches, Stepping
  <2> QED
    BY <1>3, <1>4, <2>1 DEF Goal
<1>11. CASE returns(p) \/ throws(p)
  <2>1. q.stage = "exec" /\ step[q.key].kind = "run"
    BY <1>1, <1>11 DEF returns, throws, SoundPass
  <2>2. GoesOn(p) \/ Finishes(p, "failed") \/ Finishes(p, "sleeping") \/ To(p, "steps")
    BY <1>11 DEF returns, throws
  <2> QED
    BY <1>3, <1>4, <1>5, <2>1, <2>2 DEF Stepping, Goal
<1>12. CASE \/ suspend(p) \/ seeCancelled(p) \/ sleepStep(p) \/ waitStep(p) \/ batchStep(p)
            \/ findBatch(p) \/ recordBatch(p)
  <2>1. q.stage \in Stepping
    BY <1>9, <1>12 DEF suspend, seeCancelled, sleepStep, waitStep, batchStep, findBatch, recordBatch,
                       Reaches, Stepping
  <2>2. \/ GoesOn(p) \/ To(p, "look") \/ (To(p, "record") /\ findBatch(p))
        \/ \E outcome : Finishes(p, outcome)
    BY <1>12 DEF suspend, seeCancelled, sleepStep, waitStep, batchStep, findBatch, recordBatch
  <2> QED
    BY <1>3, <1>4, <1>5, <2>1, <2>2 DEF Goal
<1>13. CASE letGo(p) \/ finish(p) \/ loseLease(p)
  <2>1. Leaves(p, "report")
    BY <1>13 DEF letGo, finish, loseLease, LetsGo
  <2> QED
    BY <1>6, <1>8, <2>1
<1>14. CASE tickDeadLettered(p) \/ fail(p) \/ deadLetter(p) \/ complete(p)
  <2>1. To(p, "dead") \/ To(p, "bury") \/ Leaves(p, "late") \/ pass' = [pass EXCEPT ![p] = Idle]
    BY <1>14 DEF tickDeadLettered, Buries, fail, deadLetter, complete, Reports
  <2> QED
    BY <1>6, <1>7, <1>8, <2>1
<1>15. CASE storeRejects(p)
  <2>1. \/ (AtWrite(p) \/ q.stage = "look") /\ Finishes(p, "failed")
        \/ Leaves(p, "retry") \/ To(p, "dead") \/ pass' = [pass EXCEPT ![p] = Idle]
    BY <1>15 DEF storeRejects, Buries
  <2> QED
    BY <1>4, <1>6, <1>7, <1>8, <1>9, <2>1 DEF Stepping
<1>16. Goal
  BY <1>10, <1>11, <1>12, <1>13, <1>14, <1>15 DEF PassStep
<1> QED
  BY <1>16

(* The hold is kept, let go, or taken by a pass. *)
HoldKept == wf'.job = wf.job /\ wf'.attempt = wf.attempt
Takes(p) ==
  acquire(p) /\ ~Busy(p) /\ wf' = Workflow(wf.status, wf.wakeAt, pass[p].job, pass[p].attempt, "live", "no")

(* Whatever happens. *)
LEMMA NextHold ==
  ASSUME TypeOK, SoundPasses, [Next]_vars
  PROVE  /\ wf' \in Workflows
         /\ HoldKept \/ wf'.job = NoJob \/ \E p \in Procs : Takes(p)
<1>1. /\ wf \in Workflows /\ wf.status \in WorkflowStatuses /\ wf.wakeAt \in Int
      /\ wf.job \in Jobs \union {NoJob} /\ wf.attempt \in Nat
      /\ wf.lease \in {"live", "lapsed"} /\ wf.retick \in {"no", "yes"}
  BY RowFields DEF TypeOK
<1>2. /\ {"running", "cancelling", "failed", "cancelled", "completed", "sleeping", "waiting"} \subseteq WorkflowStatuses
      /\ Past \in Int /\ 0 \in Nat
  BY WorkflowAssumption DEF WorkflowStatuses, Ended, Past
<1>3. ASSUME wf' = wf
      PROVE  wf' \in Workflows /\ HoldKept
  BY <1>1, <1>3 DEF HoldKept
<1>4. ASSUME NEW status \in WorkflowStatuses, NEW wakeAt \in Int, NEW lease \in {"live", "lapsed"},
             NEW retick \in {"no", "yes"}, wf' = Workflow(status, wakeAt, wf.job, wf.attempt, lease, retick)
      PROVE  wf' \in Workflows /\ HoldKept
  BY <1>1, <1>4, WorkflowType DEF HoldKept, Workflow
<1>5. ASSUME NEW status \in WorkflowStatuses, NEW wakeAt \in Int,
             wf' = Workflow(status, wakeAt, NoJob, 0, "live", "no")
      PROVE  wf' \in Workflows /\ wf'.job = NoJob
  BY <1>2, <1>5, WorkflowType DEF Workflow
<1>6. ASSUME NEW p \in Procs, PassStep(p)
      PROVE  wf' \in Workflows /\ (HoldKept \/ wf'.job = NoJob \/ Takes(p))
  <2>1. pass[p] \in Passes /\ (pass[p].stage # "idle" => pass[p].job \in Jobs) /\ pass[p].attempt \in Nat
    BY PassFields DEF TypeOK, SoundPasses, SoundPass
  <2>2. CASE acquire(p)
    <3>1. CASE Busy(p)
      <4>1. wf' = Workflow(wf.status, wf.wakeAt, wf.job, wf.attempt, wf.lease, "yes")
        BY <2>2, <3>1 DEF acquire
      <4> QED
        BY <1>1, <1>4, <4>1
    <3>2. CASE ~Busy(p)
      <4>1. wf' = Workflow(wf.status, wf.wakeAt, pass[p].job, pass[p].attempt, "live", "no")
        BY <2>2, <3>2 DEF acquire
      <4>2. pass[p].job \in Jobs \union {NoJob}
        BY <2>1, <2>2 DEF acquire
      <4> QED
        BY <1>1, <2>1, <2>2, <3>2, <4>1, <4>2, WorkflowType DEF Takes
    <3> QED
      BY <3>1, <3>2
  <2>3. CASE letGo(p)
    BY <1>1, <1>5, <2>3 DEF letGo, LetsGo
  <2>4. CASE finish(p)
    <3>1. \E status \in WorkflowStatuses, wakeAt \in {wf.wakeAt, Past} :
             \/ wf' = Workflow(status, wakeAt, NoJob, 0, "live", "no")
             \/ HasWake(p) /\ wf' = Workflow(status, WakeAt(p), NoJob, 0, "live", "no")
      <4> DEFINE cancelling == pass[p].mode = "cancel"
                 outcome == pass[p].outcome
      <4>1. outcome \in WorkflowStatuses \/ outcome = "none"
        BY <1>2, <2>1, PassFields
      <4>2. outcome # "none" \/ ~HasWake(p)
        BY DEF HasWake
      <4>3. CASE Stopped(p)
        BY <1>1, <2>4, <4>3 DEF finish, LetsGo
      <4>4. CASE ~Stopped(p) /\ outcome \in {"completed", "failed"}
        <5>1. LetsGo(p, IF cancelling THEN "cancelled" ELSE outcome, Past, tick)
          BY <2>4, <4>4 DEF finish
        <5>2. (IF cancelling THEN "cancelled" ELSE outcome) \in WorkflowStatuses
          BY <1>2, <4>4
        <5> QED
          BY <5>1, <5>2 DEF LetsGo
      <4>5. CASE ~Stopped(p) /\ outcome \notin {"completed", "failed"}
        <5> DEFINE status == IF cancelling THEN "cancelling" ELSE outcome
        <5>1. \/ HasWake(p) /\ LetsGo(p, status, WakeAt(p), Plus(tick, WakeAt(p) - Now(p)))
              \/ LetsGo(p, status, wf.wakeAt, tick)
          BY <2>4, <4>5 DEF finish
        <5>2. outcome # "none"
          BY <2>4 DEF finish, SoundPasses, SoundPass
        <5>3. status \in WorkflowStatuses
          BY <1>2, <4>1, <5>2
        <5> HIDE DEF status
        <5> QED
          BY <5>1, <5>3 DEF LetsGo
      <4> QED
        BY <4>3, <4>4, <4>5
    <3>2. HasWake(p) => WakeAt(p) \in Int
      BY <2>4, RowFields DEF finish, HasWake, SoundPasses, SoundPass, WakeAt, TypeOK
    <3> QED
      BY <1>1, <1>2, <1>5, <3>1, <3>2
  <2>5. CASE tickDeadLettered(p)
    BY <1>1, <1>2, <1>3, <1>5, <2>5 DEF tickDeadLettered
  <2>6. CASE runStep(p)
    <3>1. \/ wf' = wf
          \/ wf' = Workflow(IF wf.status = "cancelling" THEN wf.status ELSE "running",
                            wf.wakeAt, wf.job, wf.attempt, wf.lease, wf.retick)
      BY <2>6 DEF runStep
    <3>2. (IF wf.status = "cancelling" THEN wf.status ELSE "running") \in WorkflowStatuses
      BY <1>2
    <3> QED
      BY <1>1, <1>3, <1>4, <3>1, <3>2
  <2>7. CASE \/ suspend(p) \/ loseLease(p) \/ seeCancelled(p) \/ returns(p) \/ throws(p)
             \/ sleepStep(p) \/ waitStep(p) \/ batchStep(p) \/ findBatch(p) \/ recordBatch(p)
             \/ complete(p) \/ fail(p) \/ deadLetter(p)
    <3>1. wf' = wf
      BY <2>7 DEF suspend, loseLease, seeCancelled, returns, throws, sleepStep, waitStep, batchStep,
                  findBatch, recordBatch, complete, fail, deadLetter, Reports
    <3> QED
      BY <1>3, <3>1
  <2> QED
    BY <1>6, <2>2, <2>3, <2>4, <2>5, <2>6, <2>7 DEF PassStep
<1>7. CASE \E p \in Procs : renew(p)
  BY <1>1, <1>4, <1>7 DEF renew
<1>8. CASE LapseHold \/ cancel
  BY <1>1, <1>2, <1>4, <1>8 DEF LapseHold, cancel
<1>9. CASE Elapse
  <2>1. Earlier(wf.wakeAt, Past) \in Int
    BY <1>1, <1>2 DEF Earlier
  <2> QED
    BY <1>1, <1>4, <1>9, <2>1 DEF Elapse
<1>10. ASSUME \/ \E p \in Procs : storeRejects(p) \/ crash(p) \/ \E j \in Jobs : claim(p, j)
              \/ \E j \in Jobs : LapseJob(j)
              \/ UNCHANGED vars
              \/ \E k \in Keys : signal(k) \/ BatchEnds(k, "succeeded") \/ BatchEnds(k, "failed")
       PROVE  wf' = wf
  BY <1>10 DEF storeRejects, crash, claim, LapseJob, vars, signal, BatchEnds
<1> QED
  BY <1>3, <1>6, <1>7, <1>8, <1>9, <1>10 DEF Next

(* Of the passes at work one at most has the hold. *)
LEMMA OneHolds ==
  ASSUME Apart, NEW p \in Procs, NEW q \in Procs, pass[p].stage # "idle", Holds(p), Holds(q)
  PROVE  p = q
BY DEF Apart, Holds

(* A pass that takes the workflow finds the steps as they are. *)
LEMMA Found ==
  ASSUME TypeOK, SoundPasses, SoundSteps, NEW p \in Procs, Takes(p)
  PROVE  /\ pass[p].stage # "idle" /\ pass'[p].stage # "idle" /\ step' = step
         /\ pass'[p].job = pass[p].job /\ pass'[p].attempt = pass[p].attempt
         /\ wf'.job = pass[p].job /\ wf'.attempt = pass[p].attempt /\ wf'.status = wf.status
         /\ pass'[p].stage \in AtWork =>
              /\ wf.status \notin Ended
              /\ pass'[p].mode = IF wf.status = "cancelling" THEN "cancel" ELSE "run"
              /\ pass'[p].stage \in Stepping => pass'[p].cached = [k \in Keys |-> step[k].status]
<1> DEFINE mode == IF wf.status = "cancelling" THEN "cancel" ELSE "run"
           cached == [k \in Keys |-> step[k].status]
           o == Pass(pass[p].job, pass[p].attempt, "letgo", mode, 0, cached, "none")
           r == Arrived(o, 1)
<1>1. /\ acquire(p) /\ ~Busy(p) /\ pass[p].stage = "take" /\ step' = step
      /\ wf'.job = pass[p].job /\ wf'.attempt = pass[p].attempt /\ wf'.status = wf.status
  BY DEF Takes, acquire, Workflow
<1>2. /\ pass \in [Procs -> Passes] /\ pass[p].job \in Jobs /\ pass[p].attempt \in Nat
      /\ "letgo" \in Stages /\ mode \in Modes
  BY <1>1, PassFields DEF TypeOK, SoundPasses, SoundPass, Stages, Modes
<1>3. CASE wf.status \in Ended
  <2>1. Leaves(p, "letgo")
    BY <1>1, <1>3 DEF acquire
  <2>2. pass'[p].job = pass[p].job /\ pass'[p].attempt = pass[p].attempt /\ pass'[p].stage = "letgo"
    BY <1>2, <2>1 DEF Leaves, Pass
  <2> QED
    BY <1>1, <2>2 DEF AtWork, Stepping
<1>4. CASE wf.status \notin Ended
  <2>1. pass' = [pass EXCEPT ![p] = r]
    BY <1>1, <1>4 DEF acquire
  <2>2. cached \in [Keys -> StepStatuses]
    BY RowFields DEF TypeOK
  <2>3. \A k \in Keys : SoundStatus(step[k].kind, cached[k])
    BY DEF SoundSteps, SoundStep
  <2> HIDE DEF cached, mode
  <2>4. o \in Passes
    BY <1>2, <2>2, PassType
  <2>5. o.job = pass[p].job /\ o.attempt = pass[p].attempt /\ o.cached = cached /\ o.mode = mode
    BY DEF Pass
  <2> HIDE DEF o
  <2>6. /\ r.job = pass[p].job /\ r.attempt = pass[p].attempt /\ r.mode = mode
        /\ r.stage \in {"steps", "look", "finish"}
        /\ r.stage \in {"steps", "look"} => r.cached = cached
    BY <1>2, <2>3, <2>4, <2>5, Arrives
  <2> HIDE DEF r
  <2>7. pass'[p] = r
    BY <1>2, <2>1
  <2> QED
    BY <1>1, <1>4, <2>6, <2>7 DEF Stepping, cached, mode
<1> QED
  BY <1>3, <1>4

(* A pass that is at work with the hold has just taken it, or had it. *)
LEMMA TookOrHeld ==
  ASSUME TypeOK, SoundPasses, SoundSteps, IdleHasNone, Apart, [Next]_vars,
         NEW p \in Procs, pass'[p].stage \in AtWork, Holds(p)'
  PROVE  \/ Takes(p)
         \/ /\ Holds(p) /\ pass[p].stage \in AtWork /\ pass'[p].mode = pass[p].mode
            /\ HoldKept
            /\ \/ pass'[p] = pass[p]
               \/ (PassStep(p) \/ storeRejects(p)) /\ ~acquire(p)
<1>1. IdleHasNone' /\ SoundPasses' /\ Apart'
  BY IdleStays, PassesStaySound, ApartStays
<1>2. pass'[p].stage # "idle" /\ pass'[p].job # NoJob
  BY <1>1 DEF AtWork, Stepping, IdleHasNone
<1>3. pass \in [Procs -> Passes] /\ \A q \in Procs : pass[q] \in Passes
  BY DEF TypeOK
<1>4. ASSUME NEW q \in Procs, Takes(q)
      PROVE  q = p
  <2>1. /\ wf'.job = pass[q].job /\ wf'.attempt = pass[q].attempt
        /\ pass'[q].job = pass[q].job /\ pass'[q].attempt = pass[q].attempt
    BY <1>4, Found
  <2> QED
    BY <1>1, <1>2, <2>1 DEF Holds, Apart
<1>5. CASE \E q \in Procs : Takes(q)
  BY <1>4, <1>5
<1>6. CASE ~\E q \in Procs : Takes(q)
  <2>1. HoldKept
    BY <1>2, <1>6, NextHold DEF Holds
  <2>2. ~acquire(p)
    <3>1. SUFFICES ASSUME acquire(p)
                   PROVE  FALSE
      OBVIOUS
    <3>2. Busy(p)
      BY <1>6, <3>1 DEF acquire, Takes
    <3>3. Leaves(p, "report")
      BY <3>1, <3>2 DEF acquire
    <3> QED
      BY <1>3, <3>3 DEF Leaves, Pass, AtWork, Stepping
  <2>3. ~\E j \in Jobs : claim(p, j)
    BY <1>3 DEF claim, Pass, AtWork, Stepping
  <2>4. \/ pass'[p] = pass[p]
        \/ /\ pass'[p].job = pass[p].job /\ pass'[p].attempt = pass[p].attempt
           /\ PassStep(p) \/ storeRejects(p)
    BY <1>2, <2>3, NextPass DEF Idle, Pass
  <2>5. Holds(p)
    BY <2>1, <2>4 DEF HoldKept, Holds
  <2>6. CASE pass'[p] = pass[p]
    BY <2>1, <2>5, <2>6
  <2>7. CASE PassStep(p) \/ storeRejects(p)
    BY <2>1, <2>2, <2>5, <2>7, StaysAtWork DEF AtWork
  <2> QED
    BY <2>4, <2>6, <2>7
<1> QED
  BY <1>5, <1>6

-----------------------------------------------------------------------------
(* The steps.                                                              *)

(* Only a pass with the hold writes a step, and only the step it is at. *)
LEMMA StepWrites ==
  ASSUME TypeOK, SoundPasses, NEW p \in Procs, PassStep(p)
  PROVE  \/ UNCHANGED <<step, batch, calls>>
         \/ /\ Writes(p) /\ pass[p].stage \in Stepping
            /\ \A k \in Keys : k # pass[p].key =>
                 step'[k] = step[k] /\ batch'[k] = batch[k] /\ calls'[k] = calls[k]
<1>1. /\ DOMAIN step = Keys /\ DOMAIN batch = Keys /\ DOMAIN calls = Keys
      /\ step = [k \in Keys |-> step[k]] /\ batch = [k \in Keys |-> batch[k]]
      /\ calls = [k \in Keys |-> calls[k]]
  BY DEF TypeOK
<1>2. CASE runStep(p)
  BY <1>1, <1>2 DEF runStep, Records, Reaches, Stepping
<1>3. CASE returns(p) \/ throws(p) \/ recordBatch(p)
  BY <1>1, <1>3 DEF returns, throws, recordBatch, Records, Stepping
<1>4. CASE sleepStep(p) \/ waitStep(p)
  BY <1>1, <1>4 DEF sleepStep, waitStep, Records, Reaches, Stepping
<1>5. CASE batchStep(p)
  BY <1>1, <1>5 DEF batchStep, Records, Reaches, Stepping
<1>6. CASE \/ acquire(p) \/ letGo(p) \/ suspend(p) \/ loseLease(p) \/ seeCancelled(p)
           \/ findBatch(p) \/ finish(p) \/ tickDeadLettered(p) \/ complete(p) \/ fail(p)
           \/ deadLetter(p)
  BY <1>6 DEF acquire, letGo, LetsGo, suspend, loseLease, seeCancelled, findBatch, finish,
              tickDeadLettered, complete, fail, deadLetter, Reports
<1> QED
  BY <1>2, <1>3, <1>4, <1>5, <1>6 DEF PassStep

(* What a pass found is still so, of the batches that it has not reached: *)
(* nobody else has written since. *)
Fresh ==
  \A p \in Procs : pass[p].stage \in Stepping /\ Holds(p) =>
    \A k \in Keys :
      step[k].kind = "batch" /\ (k > pass[p].key \/ (k = pass[p].key /\ pass[p].stage = "steps")) =>
        pass[p].cached[k] = step[k].status

(* A batch that a pass has seen ended has ended. *)
Looked ==
  \A p \in Procs : pass[p].stage = "record" => batch[pass[p].key] \in {"succeeded", "failed"}

(* A workflow in the middle of a pass has not ended, and one that is being *)
(* cleaned up is cancelled. *)
Alive ==
  \A p \in Procs : pass[p].stage \in AtWork /\ Holds(p) =>
    wf.status \notin Ended /\ (pass[p].mode = "cancel" => wf.status = "cancelling")

Counted ==
  TypeOK /\ SoundPasses /\ SoundSteps /\ IdleHasNone /\ Apart /\ Fresh /\ Looked /\ Alive

(* The status of a step changes in a write, by a signal, and in no other   *)
(* way; a signal is for no batch. *)
LEMMA BatchRowsStay ==
  ASSUME TypeOK, SoundPasses, [Next]_vars, NEW k \in Keys, step[k].kind = "batch",
         step'[k].status # step[k].status
  PROVE  \E p \in Procs : PassStep(p) /\ Writes(p) /\ pass[p].stage \in Stepping /\ pass[p].key = k
<1>1. step \in [Keys -> StepRows]
  BY DEF TypeOK
<1>2. ASSUME \/ \E p \in Procs : renew(p) \/ storeRejects(p) \/ crash(p) \/ \E j \in Jobs : claim(p, j)
             \/ \E j \in Jobs : LapseJob(j)
             \/ LapseHold \/ cancel \/ UNCHANGED vars
             \/ \E i \in Keys : BatchEnds(i, "succeeded") \/ BatchEnds(i, "failed")
      PROVE  step' = step
  BY <1>2 DEF renew, storeRejects, crash, claim, LapseJob, LapseHold, cancel, vars, BatchEnds
<1>3. ASSUME Elapse
      PROVE  step'[k].status = step[k].status
  BY <1>1, <1>3 DEF Elapse, Step
<1>4. ASSUME NEW i \in Keys, signal(i)
      PROVE  step'[k] = step[k]
  BY <1>1, <1>4 DEF signal, Records
<1>5. PICK p \in Procs : PassStep(p)
  BY <1>2, <1>3, <1>4 DEF Next
<1> QED
  BY <1>5, StepWrites

(* Fresh stays: the pass with the hold goes on to later steps. *)
LEMMA FreshStays ==
  ASSUME Counted, [Next]_vars
  PROVE  Fresh'
<1> USE DEF Counted
<1>1. SUFFICES ASSUME NEW p \in Procs, pass'[p].stage \in Stepping, Holds(p)', NEW k \in Keys,
                      step'[k].kind = "batch",
                      k > pass'[p].key \/ (k = pass'[p].key /\ pass'[p].stage = "steps")
               PROVE  pass'[p].cached[k] = step'[k].status
  BY DEF Fresh
<1>2. step[k].kind = "batch"
  BY <1>1, KindsStay DEF SameKinds
<1>3. pass'[p].stage \in AtWork /\ pass'[p].key \in Nat /\ pass[p].key \in Nat /\ k \in Nat
  <2>1. SoundPasses' /\ SoundPasses
    BY PassesStaySound
  <2> QED
    BY <1>1, <2>1, PassFields DEF AtWork, SoundPasses, SoundPass, Keys
<1>4. CASE Takes(p)
  <2>1. /\ step' = step
        /\ pass'[p].stage \in AtWork /\ pass'[p].stage \in Stepping =>
             pass'[p].cached = [i \in Keys |-> step[i].status]
    BY <1>4, Found
  <2> HIDE DEF Counted
  <2>2. pass'[p].cached = [i \in Keys |-> step[i].status]
    BY <1>1, <1>3, <2>1
  <2> QED
    BY <2>1, <2>2
<1>5. CASE /\ Holds(p) /\ pass[p].stage \in AtWork
           /\ \/ pass'[p] = pass[p]
              \/ (PassStep(p) \/ storeRejects(p)) /\ ~acquire(p)
  <2>1. /\ pass[p].stage \in Stepping /\ pass'[p].cached = pass[p].cached
        /\ k > pass[p].key \/ (k = pass[p].key /\ pass[p].stage = "steps" /\ pass'[p] = pass[p])
    <3>1. CASE pass'[p] = pass[p]
      BY <1>1, <3>1
    <3>2. CASE (PassStep(p) \/ storeRejects(p)) /\ ~acquire(p)
      <4>1. /\ pass[p].stage \in Stepping /\ pass'[p].cached = pass[p].cached
            /\ pass'[p].key >= pass[p].key
            /\ pass'[p].key = pass[p].key /\ pass'[p].stage = "steps" => step[pass[p].key].kind = "run"
        BY <1>1, <1>3, <3>2, StaysAtWork
      <4> QED
        BY <1>1, <1>2, <1>3, <4>1
    <3> QED
      BY <1>5, <3>1, <3>2
  <2>2. pass[p].cached[k] = step[k].status
    BY <1>2, <1>5, <2>1 DEF Fresh
  <2>3. SUFFICES step'[k].status = step[k].status
    BY <2>1, <2>2
  <2>4. SUFFICES ASSUME step'[k].status # step[k].status
                 PROVE  FALSE
    OBVIOUS
  <2>5. PICK q \in Procs : PassStep(q) /\ Writes(q) /\ pass[q].stage \in Stepping /\ pass[q].key = k
    BY <1>2, <2>4, BatchRowsStay
  <2>6. p = q
    BY <1>5, <2>1, <2>5, OneHolds DEF Writes, Stepping
  <2>7. k = pass[p].key /\ pass'[p] = pass[p] /\ pass[p].stage = "steps"
    BY <1>3, <2>1, <2>5, <2>6
  <2>8. ~acquire(p)
    BY <2>7 DEF acquire
  <2> QED
    BY <1>2, <1>3, <2>5, <2>6, <2>7, <2>8, StaysAtWork
<1> QED
  BY <1>1, <1>3, <1>4, <1>5, TookOrHeld

(* A batch is dispatched by a step that has no status. *)
LEMMA DispatchedOnce ==
  ASSUME Counted, NEW p \in Procs, batchStep(p)
  PROVE  LET k == pass[p].key IN
           k \in Keys /\ step[k].kind = "batch" /\ step[k].status = "none" /\ calls[k] = 0 /\ batch[k] = "none"
<1> USE DEF Counted
<1>1. pass[p].stage = "steps" /\ Holds(p) /\ step[pass[p].key].kind = "batch"
  BY DEF batchStep, Reaches, Writes
<1>2. pass[p].key \in Keys /\ pass[p].cached[pass[p].key] \in Undecided
      /\ SoundStatus("batch", pass[p].cached[pass[p].key])
  BY <1>1 DEF SoundPasses, SoundPass, Stepping
<1>3. step[pass[p].key].status = pass[p].cached[pass[p].key]
  BY <1>1, <1>2 DEF Fresh, Stepping
<1>4. step[pass[p].key].status = "none"
  BY <1>2, <1>3 DEF SoundStatus, Undecided
<1> QED
  BY <1>1, <1>2, <1>4 DEF SoundSteps, SoundStep

(* Looked stays: a batch that ended is not dispatched again. *)
LEMMA LookedStays ==
  ASSUME Counted, [Next]_vars
  PROVE  Looked'
<1> USE DEF Counted
<1>1. SUFFICES ASSUME NEW p \in Procs, pass'[p].stage = "record"
               PROVE  batch'[pass'[p].key] \in {"succeeded", "failed"}
  BY DEF Looked
<1>2. pass'[p].stage \in AtWork /\ pass'[p].stage # "idle" /\ pass \in [Procs -> Passes]
      /\ pass'[p].stage \in Stepping
  BY <1>1 DEF AtWork, Stepping, TypeOK
<1>3. pass'[p] # Idle /\ ~\E j \in Jobs : claim(p, j)
  BY <1>1, <1>2 DEF Idle, Pass, claim
<1>4. ~acquire(p)
  <2> SUFFICES ASSUME acquire(p)
               PROVE  FALSE
    OBVIOUS
  <2>1. CASE Busy(p)
    BY <1>1, <1>2, <2>1 DEF acquire, Leaves, Pass
  <2>2. CASE ~Busy(p) /\ wf.status \in Ended
    BY <1>1, <1>2, <2>2 DEF acquire, Leaves, Pass
  <2>3. CASE ~Busy(p) /\ wf.status \notin Ended
    <3> DEFINE o == Pass(pass[p].job, pass[p].attempt, "letgo",
                         IF wf.status = "cancelling" THEN "cancel" ELSE "run", 0,
                         [k \in Keys |-> step[k].status], "none")
    <3>1. pass'[p] = Arrived(o, 1)
      BY <1>2, <2>3 DEF acquire
    <3>2. o \in Passes /\ o.job \in Jobs /\ \A k \in Keys : SoundStatus(step[k].kind, o.cached[k])
      <4>1. pass[p].job \in Jobs /\ pass[p].attempt \in Nat
        BY PassFields DEF acquire, SoundPasses, SoundPass
      <4> DEFINE cached == [k \in Keys |-> step[k].status]
      <4>2. cached \in [Keys -> StepStatuses]
        BY RowFields DEF TypeOK
      <4>3. \A k \in Keys : SoundStatus(step[k].kind, cached[k])
        BY DEF SoundSteps, SoundStep
      <4> HIDE DEF cached
      <4>4. Pass(pass[p].job, pass[p].attempt, "letgo", IF wf.status = "cancelling" THEN "cancel" ELSE "run",
                 0, cached, "none") \in Passes
        BY <4>1, <4>2, PassType DEF Stages, Modes
      <4> QED
        BY <4>1, <4>3, <4>4 DEF cached, Pass
    <3> HIDE DEF o
    <3>3. Arrived(o, 1).stage \in {"steps", "look", "finish"}
      BY <3>2, Arrives
    <3> QED
      BY <1>1, <3>1, <3>3
  <2> QED
    BY <2>1, <2>2, <2>3
<1>5. CASE PassStep(p) /\ pass'[p] # pass[p]
  <2>1. findBatch(p)
    BY <1>1, <1>2, <1>4, <1>5, StaysAtWork
  <2>2. To(p, "record") /\ batch[pass[p].key] \in {"succeeded", "failed"} /\ batch' = batch
    <3>1. ~\E outcome : Finishes(p, outcome)
      BY <1>1, <1>2 DEF Finishes, Pass
    <3> QED
      BY <2>1, <3>1 DEF findBatch
  <2>3. pass'[p].key = pass[p].key
    BY <1>2, <2>2 DEF To, Pass
  <2> QED
    BY <2>2, <2>3
<1>6. CASE pass'[p] = pass[p]
  <2> DEFINE k == pass[p].key
  <2>1. /\ k \in Keys /\ batch[k] \in {"succeeded", "failed"}
        /\ batch \in [Keys -> {"none", "going", "cancelled", "succeeded", "failed"}]
    BY <1>1, <1>6 DEF Looked, SoundPasses, SoundPass, Stepping, TypeOK
  <2>2. ASSUME NEW q \in Procs, batchStep(q)
        PROVE  batch'[k] = batch[k]
    <3>1. batch[pass[q].key] = "none"
      BY <2>2, DispatchedOnce
    <3> QED
      BY <2>1, <2>2, <3>1 DEF batchStep
  <2>3. ASSUME NEW q \in Procs, PassStep(q), ~batchStep(q)
        PROVE  batch' = batch
    BY <2>3 DEF PassStep, acquire, letGo, LetsGo, suspend, loseLease, seeCancelled, runStep, returns,
                throws, sleepStep, waitStep, findBatch, recordBatch, finish, tickDeadLettered, complete,
                fail, deadLetter, Reports
  <2>4. ASSUME cancel
        PROVE  batch'[k] = batch[k]
    BY <2>1, <2>4 DEF cancel, batchCancelled
  <2>5. ASSUME NEW i \in Keys, NEW how \in {"succeeded", "failed"}, BatchEnds(i, how)
        PROVE  batch'[k] = batch[k]
    BY <2>1, <2>5 DEF BatchEnds
  <2>6. ASSUME \/ \E q \in Procs : renew(q) \/ storeRejects(q) \/ crash(q) \/ \E j \in Jobs : claim(q, j)
               \/ \E j \in Jobs : LapseJob(j)
               \/ LapseHold \/ Elapse \/ UNCHANGED vars \/ \E i \in Keys : signal(i)
        PROVE  batch' = batch
    BY <2>6 DEF renew, storeRejects, crash, claim, LapseJob, LapseHold, Elapse, vars, signal
  <2>7. batch'[k] = batch[k]
    BY <2>2, <2>3, <2>4, <2>5, <2>6 DEF Next
  <2> QED
    BY <1>6, <2>1, <2>7
<1>7. pass'[p] = pass[p] \/ PassStep(p) \/ storeRejects(p)
  BY <1>3, NextPass
<1>8. CASE storeRejects(p)
  <2>1. findBatch(p)
    BY <1>1, <1>2, <1>4, <1>8, StaysAtWork
  <2>2. \A stage, outcome : ~Finishes(p, outcome)
    BY <1>1, <1>2 DEF Finishes, Pass
  <2>3. pass' # [pass EXCEPT ![p] = Idle]
    BY <1>2, <1>3
  <2>4. pass[p].stage = "look" /\ \/ \E outcome : Finishes(p, outcome)
                                  \/ pass[p].stage \in {"take", "finish", "letgo", "bury", "late"}
    BY <1>8, <2>1 DEF storeRejects, findBatch
  <2> QED
    BY <2>2, <2>4
<1> QED
  BY <1>5, <1>6, <1>7, <1>8

(* While it is held a workflow only becomes running or cancelled. *)
LEMMA HeldStatus ==
  ASSUME TypeOK, [Next]_vars, HoldKept, wf.job # NoJob
  PROVE  \/ wf'.status = wf.status \/ wf'.status = "cancelling"
         \/ wf.status # "cancelling" /\ wf'.status = "running"
<1>1. ASSUME NEW p \in Procs, PassStep(p)
      PROVE  \/ wf'.status = wf.status
             \/ wf.status # "cancelling" /\ wf'.status = "running"
  <2>1. CASE letGo(p) \/ finish(p) \/ tickDeadLettered(p)
    <3>1. wf' = wf \/ wf'.job = NoJob
      BY <2>1 DEF letGo, finish, LetsGo, tickDeadLettered, Workflow
    <3> QED
      BY <3>1 DEF HoldKept
  <2>2. CASE acquire(p) \/ runStep(p)
    BY <2>2 DEF acquire, runStep, Workflow
  <2>3. CASE \/ suspend(p) \/ loseLease(p) \/ seeCancelled(p) \/ returns(p) \/ throws(p)
             \/ sleepStep(p) \/ waitStep(p) \/ batchStep(p) \/ findBatch(p) \/ recordBatch(p)
             \/ complete(p) \/ fail(p) \/ deadLetter(p)
    BY <2>3 DEF suspend, loseLease, seeCancelled, returns, throws, sleepStep, waitStep, batchStep,
                findBatch, recordBatch, complete, fail, deadLetter, Reports
  <2> QED
    BY <1>1, <2>1, <2>2, <2>3 DEF PassStep
<1>2. ASSUME \/ \E p \in Procs : renew(p) \/ storeRejects(p) \/ crash(p) \/ \E j \in Jobs : claim(p, j)
             \/ \E j \in Jobs : LapseJob(j)
             \/ LapseHold \/ Elapse \/ UNCHANGED vars
             \/ \E k \in Keys : signal(k) \/ BatchEnds(k, "succeeded") \/ BatchEnds(k, "failed")
      PROVE  wf'.status = wf.status
  BY <1>2 DEF renew, storeRejects, crash, claim, LapseJob, LapseHold, Elapse, vars, signal, BatchEnds, Workflow
<1>3. ASSUME cancel
      PROVE  wf'.status = "cancelling"
  BY <1>3 DEF cancel, Workflow
<1> QED
  BY <1>1, <1>2, <1>3 DEF Next

(* Alive stays: with the end of a workflow its hold is gone. *)
LEMMA AliveStays ==
  ASSUME Counted, [Next]_vars
  PROVE  Alive'
<1> USE DEF Counted
<1>1. SUFFICES ASSUME NEW p \in Procs, pass'[p].stage \in AtWork, Holds(p)'
               PROVE  wf'.status \notin Ended /\ (pass'[p].mode = "cancel" => wf'.status = "cancelling")
  BY DEF Alive
<1>2. CASE Takes(p)
  <2>1. wf'.status = wf.status /\ wf.status \notin Ended
        /\ pass'[p].mode = IF wf.status = "cancelling" THEN "cancel" ELSE "run"
    BY <1>1, <1>2, Found
  <2> QED
    BY <2>1
<1>3. CASE Holds(p) /\ pass[p].stage \in AtWork /\ pass'[p].mode = pass[p].mode /\ HoldKept
  <2>1. wf.status \notin Ended /\ (pass[p].mode = "cancel" => wf.status = "cancelling")
    BY <1>3 DEF Alive
  <2>2. wf.job # NoJob
    BY <1>3, WorkflowAssumption DEF Holds, SoundPasses, SoundPass, AtWork, Stepping
  <2> QED
    BY <1>3, <2>1, <2>2, HeldStatus DEF Ended
<1> QED
  BY <1>1, <1>2, <1>3, TookOrHeld

(* The counts of the calls stay below those of the attempts. *)
LEMMA SoundStepsStay ==
  ASSUME Counted, [Next]_vars
  PROVE  SoundSteps' /\ batch' \in [Keys -> {"none", "going", "cancelled", "succeeded", "failed"}]
         /\ calls' \in [Keys -> Nat]
<1> USE DEF Counted
<1> DEFINE Batches == {"none", "going", "cancelled", "succeeded", "failed"}
           Goal == SoundSteps' /\ batch' \in [Keys -> Batches] /\ calls' \in [Keys -> Nat]
<1>1. /\ step \in [Keys -> StepRows] /\ batch \in [Keys -> Batches] /\ calls \in [Keys -> Nat]
      /\ step' \in [Keys -> StepRows] /\ \A k \in Keys : SoundStep(k)
      /\ \A k \in Keys : step[k].attempt \in Nat /\ calls[k] \in Nat
  <2>1. Attempts \in Nat
    BY WorkflowAssumption
  <2>2. \A k \in Keys : step[k].attempt \in 0 .. Attempts
    BY RowFields DEF TypeOK
  <2> QED
    BY <2>1, <2>2, KindsStay DEF TypeOK, SoundSteps
<1>2. \A k \in Keys : step'[k].kind = step[k].kind
  BY KindsStay DEF SameKinds
<1>3. ASSUME UNCHANGED <<step, batch, calls>>
      PROVE  Goal
  BY <1>1, <1>3 DEF SoundSteps, SoundStep
<1>4. ASSUME NEW k \in Keys, NEW status \in StepStatuses, NEW attempt, NEW wakeAt,
             Records(k, status, attempt, wakeAt), UNCHANGED <<batch, calls>>,
             SoundStatus(step[k].kind, status), status \notin {"none", "batching"},
             step[k].kind = "run" => attempt = step[k].attempt,
             step[k].kind = "batch" => batch[k] # "going"
      PROVE  Goal
  <2>1. /\ step'[k] = Step(step[k].mode, step[k].kind, status, attempt, wakeAt)
        /\ \A i \in Keys : i # k => step'[i] = step[i]
    BY <1>1, <1>4 DEF Records
  <2>2. step'[k].status = status /\ step'[k].attempt = attempt /\ step'[k].kind = step[k].kind
    BY <2>1 DEF Step
  <2>3. SoundStep(k)'
    BY <1>1, <1>4, <2>2 DEF SoundStep, SoundStatus
  <2>4. \A i \in Keys : i # k => SoundStep(i)'
    BY <1>1, <1>4, <2>1 DEF SoundStep
  <2> QED
    BY <1>1, <1>4, <2>3, <2>4 DEF SoundSteps
<1>5. ASSUME NEW p \in Procs, PassStep(p), NEW k, k = pass[p].key
      PROVE  Goal
  <2>1. pass[p].stage \in Stepping => k \in Keys
    BY <1>5 DEF SoundPasses, SoundPass
  <2>2. {"retrying", "completed", "failed", "sleeping", "waiting", "timed_out"} \subseteq StepStatuses
    BY DEF StepStatuses
  <2> HIDE DEF Goal
  <2>3. CASE runStep(p)
    <3>1. k \in Keys /\ step[k].kind = "run"
      BY <1>5, <2>1, <2>3 DEF runStep, Reaches, Stepping
    <3>2. CASE MayRun(k)
      <4>1. step' = [step EXCEPT ![k] = began(k)] /\ calls' = [calls EXCEPT ![k] = @ + 1] /\ batch' = batch
        BY <1>5, <2>3, <3>2 DEF runStep
      <4>2. began(k).kind = "run" /\ began(k).status = "running" /\ began(k).attempt = step[k].attempt + 1
        BY DEF began, Step
      <4>3. SoundStep(k)'
        BY <1>1, <3>1, <4>1, <4>2 DEF SoundStep, SoundStatus
      <4>4. \A i \in Keys : i # k => SoundStep(i)'
        BY <1>1, <3>1, <4>1 DEF SoundStep
      <4>5. calls' \in [Keys -> Nat]
        BY <1>1, <3>1, <4>1
      <4> QED
        BY <1>1, <4>1, <4>3, <4>4, <4>5 DEF Goal, SoundSteps
    <3>3. CASE ~MayRun(k)
      <4>1. Records(k, "failed", step[k].attempt, Past) /\ UNCHANGED <<batch, calls>>
        BY <1>5, <2>3, <3>3 DEF runStep
      <4> QED
        BY <1>4, <2>2, <3>1, <4>1 DEF SoundStatus
    <3> QED
      BY <3>2, <3>3
  <2>4. CASE returns(p)
    <3>1. k \in Keys /\ step[k].kind = "run" /\ Records(k, "completed", step[k].attempt, Past) /\ UNCHANGED <<batch, calls>>
      BY <1>5, <2>1, <2>4 DEF returns, SoundPasses, SoundPass, Stepping
    <3> QED
      BY <1>4, <2>2, <3>1 DEF SoundStatus
  <2>5. CASE throws(p)
    <3>1. k \in Keys /\ step[k].kind = "run" /\ UNCHANGED <<batch, calls>>
      BY <1>5, <2>1, <2>5 DEF throws, SoundPasses, SoundPass, Stepping
    <3>2. \E status \in {"failed", "retrying"} : \E wakeAt : Records(k, status, step[k].attempt, wakeAt)
      BY <1>5, <2>5 DEF throws
    <3> QED
      BY <1>4, <2>2, <3>1, <3>2 DEF SoundStatus
  <2>6. CASE sleepStep(p)
    <3>1. k \in Keys /\ step[k].kind = "sleep" /\ UNCHANGED <<batch, calls>>
      BY <1>5, <2>1, <2>6 DEF sleepStep, Reaches, Stepping
    <3>2. \E status \in {"sleeping", "completed"} : \E wakeAt : Records(k, status, 0, wakeAt)
      BY <1>5, <2>6 DEF sleepStep
    <3> QED
      BY <1>4, <2>2, <3>1, <3>2 DEF SoundStatus
  <2>7. CASE waitStep(p)
    <3>1. k \in Keys /\ step[k].kind \in {"wait", "timed"} /\ UNCHANGED <<batch, calls>>
      BY <1>5, <2>1, <2>7 DEF waitStep, Reaches, Stepping
    <3>2. step' = step \/ \E status \in {"timed_out", "completed", "waiting"} : \E wakeAt : Records(k, status, 0, wakeAt)
      BY <1>5, <2>7 DEF waitStep
    <3> QED
      BY <1>3, <1>4, <2>2, <3>1, <3>2 DEF SoundStatus, Goal
  <2>8. CASE batchStep(p)
    <3>1. k \in Keys /\ step[k].kind = "batch" /\ step[k].status = "none" /\ calls[k] = 0 /\ batch[k] = "none"
      BY <1>5, <2>8, DispatchedOnce
    <3>2. /\ Records(k, "batching", 0, Past) /\ batch' = [batch EXCEPT ![k] = "going"]
          /\ calls' = [calls EXCEPT ![k] = @ + 1]
      BY <1>5, <2>8 DEF batchStep
    <3>3. step'[k].kind = "batch" /\ step'[k].status = "batching" /\ \A i \in Keys : i # k => step'[i] = step[i]
      BY <1>1, <3>1, <3>2 DEF Records, Step
    <3>4. batch'[k] = "going" /\ calls'[k] = 1 /\ \A i \in Keys : i # k => batch'[i] = batch[i] /\ calls'[i] = calls[i]
      BY <1>1, <3>1, <3>2
    <3>5. SoundStep(k)'
      BY <3>3, <3>4 DEF SoundStep, SoundStatus
    <3>6. \A i \in Keys : i # k => SoundStep(i)'
      BY <1>1, <3>3, <3>4 DEF SoundStep
    <3>7. batch' \in [Keys -> Batches] /\ calls' \in [Keys -> Nat]
      BY <1>1, <3>1, <3>2
    <3> QED
      BY <3>5, <3>6, <3>7 DEF Goal, SoundSteps
  <2>9. CASE recordBatch(p)
    <3>1. k \in Keys /\ step[k].kind = "batch" /\ batch[k] # "going" /\ UNCHANGED <<batch, calls>>
      BY <1>5, <2>1, <2>9 DEF recordBatch, SoundPasses, SoundPass, Stepping, Looked
    <3>2. \E status \in {"completed", "failed"} : Records(k, status, 0, Past)
      BY <1>5, <2>9 DEF recordBatch
    <3> QED
      BY <1>4, <2>2, <3>1, <3>2 DEF SoundStatus
  <2>10. CASE \/ acquire(p) \/ letGo(p) \/ suspend(p) \/ loseLease(p) \/ seeCancelled(p)
              \/ findBatch(p) \/ finish(p) \/ tickDeadLettered(p) \/ complete(p) \/ fail(p)
              \/ deadLetter(p)
    <3>1. UNCHANGED <<step, batch, calls>>
      BY <2>10 DEF acquire, letGo, LetsGo, suspend, loseLease, seeCancelled, findBatch, finish,
                   tickDeadLettered, complete, fail, deadLetter, Reports
    <3> QED
      BY <1>3, <3>1 DEF Goal
  <2> QED
    BY <1>5, <2>3, <2>4, <2>5, <2>6, <2>7, <2>8, <2>9, <2>10 DEF PassStep
<1>6. ASSUME NEW k \in Keys, signal(k)
      PROVE  Goal
  <2>1. Records(k, "signalled", 0, step[k].wakeAt) /\ UNCHANGED <<batch, calls>>
        /\ step[k].kind \in {"wait", "timed"} /\ "signalled" \in StepStatuses
    BY <1>6 DEF signal, StepStatuses
  <2> HIDE DEF Goal
  <2> QED
    BY <1>4, <2>1 DEF SoundStatus
<1>7. ASSUME cancel
      PROVE  Goal
  <2>1. /\ batch' = [k \in Keys |-> batchCancelled(k)] /\ UNCHANGED <<step, calls>>
        /\ \A k \in Keys : batchCancelled(k) \in {"cancelled", batch[k]}
    BY <1>7 DEF cancel, batchCancelled
  <2>2. batch' \in [Keys -> Batches]
    BY <1>1, <2>1
  <2>3. \A k \in Keys : SoundStep(k)'
    BY <1>1, <2>1 DEF SoundStep, batchCancelled
  <2> QED
    BY <1>1, <2>1, <2>2, <2>3 DEF SoundSteps
<1>8. ASSUME NEW i \in Keys, NEW how \in {"succeeded", "failed"}, BatchEnds(i, how)
      PROVE  Goal
  <2>1. batch' = [batch EXCEPT ![i] = how] /\ UNCHANGED <<step, calls>> /\ batch[i] \in {"going", "cancelled"}
    BY <1>8 DEF BatchEnds
  <2>2. batch' \in [Keys -> Batches]
    BY <1>1, <2>1
  <2>3. \A k \in Keys : SoundStep(k)'
    BY <1>1, <2>1 DEF SoundStep
  <2> QED
    BY <1>1, <2>1, <2>2, <2>3 DEF SoundSteps
<1>9. ASSUME Elapse
      PROVE  Goal
  <2>1. /\ UNCHANGED <<batch, calls>>
        /\ \A k \in Keys : step'[k].kind = step[k].kind /\ step'[k].status = step[k].status
                         /\ step'[k].attempt = step[k].attempt
    BY <1>1, <1>9 DEF Elapse, Step
  <2> QED
    BY <1>1, <2>1 DEF SoundSteps, SoundStep
<1>10. ASSUME \/ \E q \in Procs : renew(q) \/ storeRejects(q) \/ crash(q) \/ \E j \in Jobs : claim(q, j)
              \/ \E j \in Jobs : LapseJob(j)
              \/ LapseHold \/ UNCHANGED vars
       PROVE  UNCHANGED <<step, batch, calls>>
  BY <1>10 DEF renew, storeRejects, crash, claim, LapseJob, LapseHold, vars
<1> SUFFICES Goal
  BY DEF Goal
<1> HIDE DEF Goal
<1>11. Goal
  BY <1>3, <1>5, <1>6, <1>7, <1>8, <1>9, <1>10 DEF Next
<1> QED
  BY <1>11

(* The rest of the state has its type. *)
LEMMA HistoryStays ==
  ASSUME TypeOK, SoundPasses, [Next]_vars
  PROVE  outdated' \subseteq Jobs /\ mishaps' \in [crashes : Nat, stalls : Nat, faults : Nat]
<1>1. outdated \subseteq Jobs /\ mishaps \in [crashes : Nat, stalls : Nat, faults : Nat]
  BY DEF TypeOK
<1>2. ASSUME NEW b \in {"crashes", "stalls", "faults"}, Mishap(b)
      PROVE  mishaps' \in [crashes : Nat, stalls : Nat, faults : Nat]
  BY <1>1, <1>2 DEF Mishap
<1>3. CASE UNCHANGED <<outdated, mishaps>>
  BY <1>1, <1>3
<1>4. ASSUME NEW p \in Procs, acquire(p)
      PROVE  outdated' \subseteq Jobs /\ mishaps' = mishaps
  <2>1. pass[p].job \in Jobs
    BY <1>4 DEF acquire, SoundPasses, SoundPass
  <2> QED
    BY <1>1, <1>4, <2>1 DEF acquire
<1>5. ASSUME \/ \E p \in Procs : PassStep(p) /\ ~acquire(p)
             \/ \E p \in Procs : renew(p) \/ \E j \in Jobs : claim(p, j)
             \/ cancel \/ Elapse \/ UNCHANGED vars
             \/ \E k \in Keys : signal(k) \/ BatchEnds(k, "succeeded") \/ BatchEnds(k, "failed")
      PROVE  UNCHANGED <<outdated, mishaps>>
  BY <1>5 DEF PassStep, letGo, LetsGo, suspend, loseLease, seeCancelled, runStep, returns, throws,
              sleepStep, waitStep, batchStep, findBatch, recordBatch, finish, tickDeadLettered, complete,
              fail, deadLetter, Reports, renew, claim, cancel, Elapse, vars, signal, BatchEnds
<1>6. CASE LapseHold
  BY <1>1, <1>2, <1>6 DEF LapseHold
<1>7. CASE (\E j \in Jobs : LapseJob(j)) \/ \E p \in Procs : storeRejects(p) \/ crash(p)
  BY <1>1, <1>2, <1>7 DEF LapseJob, storeRejects, crash
<1> QED
  BY <1>1, <1>3, <1>4, <1>5, <1>6, <1>7 DEF Next

(* At first there is no pass and no call. *)
LEMMA InitCounted ==
  ASSUME Init
  PROVE  Counted
<1>1. Past \in Int /\ 0 \in 0 .. Attempts /\ "none" \in StepStatuses /\ "running" \in WorkflowStatuses
  BY WorkflowAssumption DEF Past, StepStatuses, WorkflowStatuses
<1>2. wf \in Workflows
  BY <1>1, WorkflowType DEF Init
<1>3. PICK program \in Programs :
        step = [k \in Keys |-> Step(program[k].mode, program[k].kind, "none", 0, Past)]
  BY DEF Init
<1>4. \A k \in Keys : program[k].mode \in Modes /\ program[k].kind \in Kinds
  BY WorkflowAssumption
<1>5. step \in [Keys -> StepRows]
  BY <1>1, <1>3, <1>4, StepType
<1>6. tick \in [Jobs -> Ticks]
  <2>1. NoTick \in Ticks /\ Tick("pending", 0, 0, "live") \in Ticks
    BY TickType DEF NoTick
  <2> QED
    BY <2>1 DEF Init
<1>7. pass = [p \in Procs |-> Idle] /\ \A p \in Procs : pass[p] = Idle
  BY DEF Init
<1>8. /\ Idle.stage = "idle" /\ Idle.job = NoJob /\ \A k \in Keys : Idle.cached[k] = "none"
  BY DEF Idle, Pass
<1>9. TypeOK
  BY <1>2, <1>5, <1>6, <1>7, IdleType DEF TypeOK, Init
<1>10. SoundPasses
  BY <1>7, <1>8, IdleType DEF SoundPasses, SoundPass, SoundStatus, Stepping
<1>11. SoundSteps
  <2>1. \A k \in Keys : step[k].status = "none" /\ calls[k] = 0 /\ batch[k] = "none" /\ step[k].attempt = 0
    BY <1>3 DEF Init, Step
  <2> QED
    BY <2>1 DEF SoundSteps, SoundStep, SoundStatus
<1>12. IdleHasNone /\ Apart /\ Fresh /\ Looked /\ Alive
  BY <1>7, <1>8 DEF IdleHasNone, Apart, Fresh, Looked, Alive, AtWork, Stepping
<1> QED
  BY <1>9, <1>10, <1>11, <1>12 DEF Counted

(* The invariant holds after every step. *)
LEMMA CountedStays ==
  ASSUME Counted, [Next]_vars
  PROVE  Counted'
<1> USE DEF Counted
<1>1. SoundPasses' /\ pass' \in [Procs -> Passes]
  BY PassesStaySound
<1>2. step' \in [Keys -> StepRows] /\ tick' \in [Jobs -> Ticks] /\ wf' \in Workflows
  BY KindsStay, NextTicks, NextHold
<1>3. /\ SoundSteps' /\ batch' \in [Keys -> {"none", "going", "cancelled", "succeeded", "failed"}]
      /\ calls' \in [Keys -> Nat]
  BY SoundStepsStay
<1>4. TypeOK'
  BY <1>1, <1>2, <1>3, HistoryStays DEF TypeOK
<1> QED
  BY <1>1, <1>3, <1>4, IdleStays, ApartStays, FreshStays, LookedStays, AliveStays

-----------------------------------------------------------------------------
(* The theorems.                                                           *)

(* The invariant is one of every behaviour. *)
LEMMA AlwaysCounted == Spec => []Counted
<1>1. Init => Counted
  BY InitCounted
<1>2. Counted /\ [Next]_vars => Counted'
  BY CountedStays
<1> QED
  BY <1>1, <1>2, PTL DEF Spec

(* The rows that WorkflowStore and the queue keep, and the passes of       *)
(* WorkflowRuntime.tick, have their types. *)
THEOREM TypeCorrect == Spec => []TypeOK
<1>1. Counted => TypeOK
  BY DEF Counted
<1> QED
  BY <1>1, AlwaysCounted, PTL

(* However often a pass is run again, by whomever and after whatever, a    *)
(* step's function is called at most attempts times, and a batch of jobs   *)
(* dispatched once: Step.run counts before it calls, and Step.batch has    *)
(* the record and the dispatch in one write. *)
THEOREM CallsBounded == Spec => []EffectsBounded
<1>1. Counted => EffectsBounded
  <2> SUFFICES ASSUME Counted, NEW k \in Keys
               PROVE  calls[k] <= IF step[k].kind = "batch" THEN 1 ELSE Attempts
    BY DEF EffectsBounded
  <2>1. SoundStep(k) /\ step[k].attempt \in 0 .. Attempts /\ calls[k] \in Nat /\ Attempts \in Nat
    BY RowFields, WorkflowAssumption DEF Counted, SoundSteps, TypeOK
  <2> QED
    BY <2>1 DEF SoundStep
<1> QED
  BY <1>1, AlwaysCounted, PTL

(* A workflow becomes cancelled by cancel(), or when it is already being   *)
(* cleaned up. *)
LEMMA CancelStatus ==
  ASSUME Counted, [Next]_vars, wf'.status \in {"cancelling", "cancelled"}, ~cancel
  PROVE  wf.status \in {"cancelling", "cancelled"}
<1> USE DEF Counted
<1>1. ASSUME NEW p \in Procs, finish(p)
      PROVE  wf.status \in {"cancelling", "cancelled"}
  <2>1. /\ pass[p].stage = "finish" /\ Holds(p) /\ pass[p].outcome # "none"
        /\ pass[p].outcome \in {"none", "completed", "failed", "sleeping", "waiting"}
        /\ pass[p].mode = "cancel" => wf.status = "cancelling"
    BY <1>1, PassFields DEF finish, SoundPasses, SoundPass, Alive, AtWork
  <2>2. CASE pass[p].mode = "cancel"
    BY <2>1, <2>2
  <2>3. CASE Stopped(p)
    BY <2>3 DEF Stopped
  <2>4. CASE pass[p].mode # "cancel" /\ ~Stopped(p)
    <3>1. wf'.status = pass[p].outcome
      BY <1>1, <2>4 DEF finish, LetsGo, Workflow
    <3> QED
      BY <2>1, <3>1
  <2> QED
    BY <2>2, <2>3, <2>4
<1>2. ASSUME NEW p \in Procs, PassStep(p), ~finish(p)
      PROVE  wf.status \in {"cancelling", "cancelled"}
  <2>1. CASE letGo(p) \/ tickDeadLettered(p) \/ acquire(p) \/ runStep(p)
    BY <2>1 DEF letGo, LetsGo, tickDeadLettered, acquire, runStep, Workflow
  <2>2. CASE \/ suspend(p) \/ loseLease(p) \/ seeCancelled(p) \/ returns(p) \/ throws(p)
             \/ sleepStep(p) \/ waitStep(p) \/ batchStep(p) \/ findBatch(p) \/ recordBatch(p)
             \/ complete(p) \/ fail(p) \/ deadLetter(p)
    BY <2>2 DEF suspend, loseLease, seeCancelled, returns, throws, sleepStep, waitStep, batchStep,
                findBatch, recordBatch, complete, fail, deadLetter, Reports
  <2> QED
    BY <1>2, <2>1, <2>2 DEF PassStep
<1>3. ASSUME \/ \E p \in Procs : renew(p) \/ storeRejects(p) \/ crash(p) \/ \E j \in Jobs : claim(p, j)
             \/ \E j \in Jobs : LapseJob(j)
             \/ LapseHold \/ Elapse \/ UNCHANGED vars
             \/ \E k \in Keys : signal(k) \/ BatchEnds(k, "succeeded") \/ BatchEnds(k, "failed")
      PROVE  wf'.status = wf.status
  BY <1>3 DEF renew, storeRejects, crash, claim, LapseJob, LapseHold, Elapse, vars, signal, BatchEnds, Workflow
<1> QED
  BY <1>1, <1>2, <1>3 DEF Next

(* A batch goes on from when a step dispatched it. *)
LEMMA GoingFrom ==
  ASSUME Counted, [Next]_vars, NEW k \in Keys, batch'[k] = "going"
  PROVE  \/ batch[k] = "going" /\ ~cancel
         \/ \E p \in Procs : batchStep(p) /\ pass[p].key = k
<1> USE DEF Counted
<1>1. batch \in [Keys -> {"none", "going", "cancelled", "succeeded", "failed"}] /\ SoundStep(k)
  BY DEF TypeOK, SoundSteps
<1>2. ASSUME NEW p \in Procs, batchStep(p)
      PROVE  (batch[k] = "going" /\ ~cancel) \/ pass[p].key = k
  <2>1. step[pass[p].key].status = "none" /\ pass[p].key \in Keys
    BY <1>2, DispatchedOnce
  <2>2. CASE pass[p].key # k
    <3>1. batch[k] = "going" /\ batch'[pass[p].key] = "going" /\ batch[pass[p].key] = "none"
      BY <1>1, <1>2, <2>1, <2>2, DispatchedOnce DEF batchStep
    <3> QED
      BY <2>1, <3>1 DEF cancel, batchCancelled
  <2> QED
    BY <2>2
<1>3. ~cancel
  BY <1>1 DEF cancel, batchCancelled, SoundStep
<1>4. ASSUME NEW p \in Procs, PassStep(p), ~batchStep(p)
      PROVE  batch' = batch
  BY <1>4 DEF PassStep, acquire, letGo, LetsGo, suspend, loseLease, seeCancelled, runStep, returns,
              throws, sleepStep, waitStep, findBatch, recordBatch, finish, tickDeadLettered, complete,
              fail, deadLetter, Reports
<1>5. ASSUME NEW i \in Keys, NEW how \in {"succeeded", "failed"}, BatchEnds(i, how)
      PROVE  batch[k] = "going"
  BY <1>1, <1>5 DEF BatchEnds
<1>6. ASSUME \/ \E q \in Procs : renew(q) \/ storeRejects(q) \/ crash(q) \/ \E j \in Jobs : claim(q, j)
             \/ \E j \in Jobs : LapseJob(j)
             \/ LapseHold \/ Elapse \/ UNCHANGED vars \/ \E i \in Keys : signal(i)
      PROVE  batch' = batch
  BY <1>6 DEF renew, storeRejects, crash, claim, LapseJob, LapseHold, Elapse, vars, signal
<1> QED
  BY <1>2, <1>3, <1>4, <1>5, <1>6 DEF Next

(* A cancellation cancels the batch there is, and a pass that comes to     *)
(* dispatch one finds that it may not: write() of a step looks whether the *)
(* workflow was cancelled, under the lock that cancel() had. *)
THEOREM CancelsBatches == Spec => []CancelLeavesNoBatch
<1> DEFINE NoneGoing == \A k \in Keys :
             step[k].mode = "run" /\ wf.status \in {"cancelling", "cancelled"} => batch[k] # "going"
<1>1. Init => NoneGoing
  BY DEF Init
<1>2. Counted /\ NoneGoing /\ [Next]_vars => NoneGoing'
  <2> SUFFICES ASSUME Counted, NoneGoing, [Next]_vars, NEW k \in Keys, step'[k].mode = "run",
                      wf'.status \in {"cancelling", "cancelled"}, batch'[k] = "going"
               PROVE  FALSE
    OBVIOUS
  <2>1. step[k].mode = "run"
    BY KindsStay DEF Counted, SameKinds
  <2>2. CASE batch[k] = "going" /\ ~cancel
    BY <2>1, <2>2, CancelStatus
  <2>3. CASE \E p \in Procs : batchStep(p) /\ pass[p].key = k
    <3>1. PICK p \in Procs : batchStep(p) /\ pass[p].key = k
      BY <2>3
    <3>2. wf' = wf /\ Writes(p) /\ pass[p].stage = "steps"
      BY <3>1 DEF batchStep, Reaches
    <3>3. pass[p].mode = "run"
      BY <2>1, <3>1, <3>2 DEF Counted, SoundPasses, SoundPass, Stepping
    <3>4. wf.status \notin Ended
      BY <3>2 DEF Counted, Alive, Writes, AtWork, Stepping
    <3> QED
      BY <3>2, <3>3, <3>4 DEF Writes, Stopped, Ended
  <2> QED
    BY <2>2, <2>3, GoingFrom
<1>3. NoneGoing => CancelLeavesNoBatch
  BY DEF CancelLeavesNoBatch, StepsOf
<1> HIDE DEF NoneGoing
<1> QED
  BY <1>1, <1>2, <1>3, AlwaysCounted, PTL DEF Spec

-----------------------------------------------------------------------------
(* One pass at a time.                                                     *)

Working == AtWork \union {"take", "letgo", "report", "retry", "bury", "dead"}

(* With no stall a pass has its tick job, under a lease, until it has      *)
(* reported it; *)
Leased ==
  mishaps.stalls = 0 =>
    \A p \in Procs : pass[p].stage \in Working => Current(p) /\ tick[pass[p].job].lease = "live"

(* and the workflow too, from when it took it, unless that was ended over  *)
(* its head. *)
Steady ==
  mishaps.stalls = 0 =>
    \A p \in Procs : pass[p].stage \in AtWork =>
      (Holds(p) /\ wf.lease = "live") \/ wf.status \in Ended

Single == Counted /\ Leased /\ Steady /\ OnePass

(* Who is inside, in either words. *)
LEMMA InsideAtWork == Inside \ {"letgo"} = AtWork /\ AtWork \subseteq Working
BY DEF Inside, AtWork, Working, Stepping

(* A stall is counted. *)
LEMMA NoStall ==
  ASSUME TypeOK, [Next]_vars, mishaps'.stalls = 0
  PROVE  /\ mishaps.stalls = 0 /\ \A j \in Jobs : ~LapseJob(j)
         /\ LapseHold => ~\E p \in Procs : pass[p].stage \in Inside /\ Holds(p)
<1>1. mishaps \in [crashes : Nat, stalls : Nat, faults : Nat]
  BY DEF TypeOK
<1>2. ~Mishap("stalls")
  BY <1>1 DEF Mishap
<1>3. mishaps' = mishaps \/ Mishap("crashes") \/ Mishap("faults")
  <2>1. ASSUME \/ \E p \in Procs : PassStep(p) \/ renew(p) \/ \E j \in Jobs : claim(p, j)
               \/ cancel \/ Elapse \/ UNCHANGED vars
               \/ \E k \in Keys : signal(k) \/ BatchEnds(k, "succeeded") \/ BatchEnds(k, "failed")
        PROVE  mishaps' = mishaps
    BY <2>1 DEF PassStep, acquire, letGo, LetsGo, suspend, loseLease, seeCancelled, runStep, returns, throws,
                sleepStep, waitStep, batchStep, findBatch, recordBatch, finish, tickDeadLettered, complete,
                fail, deadLetter, Reports, renew, claim, cancel, Elapse, vars, signal, BatchEnds
  <2>2. ASSUME \E p \in Procs : storeRejects(p) \/ crash(p)
        PROVE  Mishap("crashes") \/ Mishap("faults")
    BY <2>2 DEF storeRejects, crash
  <2> QED
    BY <1>2, <2>1, <2>2 DEF Next, LapseHold, LapseJob
<1> QED
  BY <1>1, <1>2, <1>3 DEF Mishap, LapseJob, LapseHold

(* A pass that is working was, unless it has just been given its job. *)
LEMMA WorkingFrom ==
  ASSUME Counted, [Next]_vars, NEW p \in Procs, pass'[p].stage \in Working
  PROVE  \/ \E j \in Jobs : claim(p, j)
         \/ /\ pass[p].stage \in Working
            /\ pass'[p].job = pass[p].job /\ pass'[p].attempt = pass[p].attempt
<1> USE DEF Counted
<1>1. pass[p].stage \in Stages /\ pass \in [Procs -> Passes]
  BY PassFields DEF TypeOK
<1>2. pass'[p] # Idle /\ pass'[p].stage # "idle"
  BY DEF Idle, Pass, Working, AtWork, Stepping
<1>3. CASE pass'[p] = pass[p]
  BY <1>3
<1>4. CASE /\ pass'[p].job = pass[p].job /\ pass'[p].attempt = pass[p].attempt
           /\ pass[p].stage # "idle" /\ (PassStep(p) \/ storeRejects(p))
  <2>1. pass[p].stage # "late"
    <3>1. SUFFICES ASSUME pass[p].stage = "late"
                   PROVE  FALSE
      OBVIOUS
    <3>2. tickDeadLettered(p) \/ storeRejects(p)
      BY <1>4, <3>1 DEF PassStep, acquire, letGo, suspend, loseLease, seeCancelled, runStep, returns,
                        throws, sleepStep, waitStep, batchStep, findBatch, recordBatch, finish, complete,
                        fail, deadLetter, AtWrite, Reaches
    <3>3. Buries(p)
      BY <3>1, <3>2 DEF tickDeadLettered, storeRejects, AtWrite, Reaches
    <3> QED
      BY <1>1, <1>2, <3>1, <3>3 DEF Buries
  <2> QED
    BY <1>1, <1>4, <2>1 DEF Stages, Working, AtWork, Stepping
<1> QED
  BY <1>2, <1>3, <1>4, NextPass

(* A job that a working pass has under its lease is not handed out. *)
LEMMA LeasedStays ==
  ASSUME Counted, Leased, [Next]_vars
  PROVE  Leased'
<1> USE DEF Counted
<1>1. SUFFICES ASSUME mishaps'.stalls = 0, NEW p \in Procs, pass'[p].stage \in Working
               PROVE  Current(p)' /\ tick'[pass'[p].job].lease = "live"
  BY DEF Leased
<1>2. mishaps.stalls = 0 /\ \A j \in Jobs : ~LapseJob(j)
  BY <1>1, NoStall
<1>3. tick \in [Jobs -> Ticks] /\ pass \in [Procs -> Passes]
  BY DEF TypeOK
<1>4. CASE \E j \in Jobs : claim(p, j)
  BY <1>3, <1>4 DEF claim, Current, Tick, Pass
<1>5. CASE /\ pass[p].stage \in Working /\ ~\E j \in Jobs : claim(p, j)
           /\ pass'[p].job = pass[p].job /\ pass'[p].attempt = pass[p].attempt
  <2> DEFINE j == pass[p].job
  <2>1. Current(p) /\ tick[j].lease = "live" /\ tick[j].at = "claimed" /\ pass[p].stage # "idle"
    BY <1>2, <1>5 DEF Leased, Current, Working, AtWork, Stepping
  <2>2. j \in Jobs
    BY <2>1 DEF SoundPasses, SoundPass
  <2>3. CASE TickKept(j)
    BY <1>5, <2>1, <2>3 DEF TickKept, Current
  <2>4. ~TickNew(j) /\ ~LapseJob(j)
    BY <1>2, <2>1, <2>2 DEF TickNew
  <2>5. ASSUME NEW q \in Procs, claim(q, j)
        PROVE  FALSE
    BY <2>1, <2>5 DEF claim, Claimable, Extended, Current
  <2>6. ASSUME NEW q \in Procs, j = pass[q].job, TickReported(q)
        PROVE  FALSE
    <3>1. pass[q].attempt = pass[p].attempt /\ pass[q].stage # "idle"
      BY <2>1, <2>6 DEF TickReported, Current
    <3>2. p = q
      BY <2>1, <2>6, <3>1 DEF Apart
    <3> QED
      BY <1>1, <2>6, <3>2 DEF TickReported, Working, AtWork, Stepping
  <2> QED
    BY <2>2, <2>3, <2>4, <2>5, <2>6, NextTicks
<1> QED
  BY <1>1, <1>4, <1>5, WorkingFrom

(* What is being worked on under a lease is not taken. *)
LEMMA NotTaken ==
  ASSUME Single, mishaps.stalls = 0, NEW p \in Procs, NEW q \in Procs, p # q,
         pass[p].stage \in AtWork, wf.status \notin Ended, Takes(q)
  PROVE  FALSE
<1>1. Holds(p) /\ wf.lease = "live"
  BY DEF Single, Steady
<1>2. pass[p].stage # "idle" /\ pass[q].stage \in Working /\ pass[p].stage \in Working /\ pass[p].job # NoJob
  BY DEF Takes, acquire, Working, AtWork, Stepping, Single, Counted, IdleHasNone
<1>3. pass[q].job = pass[p].job
  BY <1>1, <1>2 DEF Takes, Busy, Holds
<1>4. pass[q].attempt = pass[p].attempt
  BY <1>2, <1>3 DEF Single, Leased, Current
<1> QED
  BY <1>2, <1>3, <1>4 DEF Single, Counted, Apart

(* A pass is at work because it took the workflow. *)
LEMMA AtWorkFrom ==
  ASSUME Counted, [Next]_vars, NEW p \in Procs, pass'[p].stage \in AtWork
  PROVE  \/ Takes(p) /\ wf.status \notin Ended
         \/ /\ pass[p].stage \in AtWork
            /\ pass'[p].job = pass[p].job /\ pass'[p].attempt = pass[p].attempt
<1> USE DEF Counted
<1>1. pass'[p] # Idle /\ ~\E j \in Jobs : claim(p, j)
  BY DEF TypeOK, Idle, Pass, claim, AtWork, Stepping
<1>2. CASE acquire(p)
  <2>1. CASE Busy(p)
    BY <1>2, <2>1 DEF acquire, Leaves, Pass, TypeOK, AtWork, Stepping
  <2>2. CASE ~Busy(p)
    <3>1. Takes(p)
      BY <1>2, <2>2 DEF acquire, Takes
    <3> QED
      BY <3>1, Found
  <2> QED
    BY <2>1, <2>2
<1>3. CASE ~acquire(p) /\ (PassStep(p) \/ storeRejects(p))
           /\ pass'[p].job = pass[p].job /\ pass'[p].attempt = pass[p].attempt
  BY <1>3, StaysAtWork DEF AtWork
<1> QED
  BY <1>1, <1>2, <1>3, NextPass

(* An end is for ever. *)
LEMMA EndStays ==
  ASSUME Counted, [Next]_vars, wf.status \in Ended
  PROVE  wf'.status \in Ended
<1>1. ASSUME NEW p \in Procs, pass[p].stage \in AtWork
      PROVE  ~Holds(p)
  BY <1>1 DEF Counted, Alive
<1>2. ASSUME NEW p \in Procs, PassStep(p)
      PROVE  wf'.status = wf.status
  <2>1. ~runStep(p) /\ ~finish(p)
    BY <1>1 DEF runStep, finish, Writes, Reaches, AtWork, Stepping
  <2>2. CASE acquire(p) \/ letGo(p) \/ tickDeadLettered(p)
    BY <2>2 DEF acquire, letGo, LetsGo, tickDeadLettered, Workflow
  <2>3. CASE \/ suspend(p) \/ loseLease(p) \/ seeCancelled(p) \/ returns(p) \/ throws(p)
             \/ sleepStep(p) \/ waitStep(p) \/ batchStep(p) \/ findBatch(p) \/ recordBatch(p)
             \/ complete(p) \/ fail(p) \/ deadLetter(p)
    BY <2>3 DEF suspend, loseLease, seeCancelled, returns, throws, sleepStep, waitStep, batchStep,
                findBatch, recordBatch, complete, fail, deadLetter, Reports
  <2> QED
    BY <1>2, <2>1, <2>2, <2>3 DEF PassStep
<1>3. ASSUME \/ \E p \in Procs : renew(p) \/ storeRejects(p) \/ crash(p) \/ \E j \in Jobs : claim(p, j)
             \/ \E j \in Jobs : LapseJob(j)
             \/ LapseHold \/ Elapse \/ UNCHANGED vars
             \/ \E k \in Keys : signal(k) \/ BatchEnds(k, "succeeded") \/ BatchEnds(k, "failed")
      PROVE  wf'.status = wf.status
  BY <1>3 DEF renew, storeRejects, crash, claim, LapseJob, LapseHold, Elapse, vars, signal, BatchEnds, Workflow
<1>4. ~cancel
  BY DEF cancel, Accepts
<1> QED
  BY <1>2, <1>3, <1>4 DEF Next

(* The hold of a pass at work is extended, and let go by that pass, or     *)
(* with the end of the workflow. *)
LEMMA SteadyStays ==
  ASSUME Single, [Next]_vars
  PROVE  Steady'
<1> USE DEF Single
<1>1. SUFFICES ASSUME mishaps'.stalls = 0, NEW p \in Procs, pass'[p].stage \in AtWork,
                      wf'.status \notin Ended
               PROVE  Holds(p)' /\ wf'.lease = "live"
  BY DEF Steady
<1>2. TypeOK /\ SoundPasses /\ SoundSteps /\ wf.status \notin Ended
  BY <1>1, EndStays DEF Counted
<1>3. /\ mishaps.stalls = 0
      /\ LapseHold => ~\E q \in Procs : pass[q].stage \in Inside /\ Holds(q)
  BY <1>1, <1>2, NoStall
<1>4. CASE Takes(p)
  BY <1>2, <1>4, Found DEF Takes, Holds, Workflow
<1>5. CASE /\ pass[p].stage \in AtWork
           /\ pass'[p].job = pass[p].job /\ pass'[p].attempt = pass[p].attempt /\ ~Takes(p)
  <2>1. Holds(p) /\ wf.lease = "live" /\ pass[p].stage \in Inside /\ pass[p].stage # "idle"
    BY <1>2, <1>3, <1>5, InsideAtWork DEF Steady, AtWork, Stepping
  <2>2. ~\E q \in Procs : Takes(q)
    BY <1>2, <1>3, <1>5, NotTaken
  <2>3. ASSUME NEW q \in Procs, letGo(q) \/ finish(q)
        PROVE  FALSE
    <3>1. Holds(q) /\ Leaves(q, "report") /\ pass[q].stage # "idle"
      BY <2>3 DEF letGo, finish, LetsGo
    <3>2. p = q
      BY <2>1, <3>1, OneHolds DEF Counted
    <3> QED
      BY <1>1, <1>2, <3>1, <3>2 DEF Leaves, Pass, TypeOK, AtWork, Stepping
  <2>4. ASSUME NEW q \in Procs, tickDeadLettered(q)
        PROVE  FALSE
    BY <1>1, <1>2, <2>4 DEF tickDeadLettered, Workflow, Ended
  <2>5. ASSUME NEW q \in Procs, PassStep(q)
        PROVE  HoldKept /\ wf'.lease = "live"
    <3>1. CASE acquire(q)
      <4>1. CASE Busy(q)
        <5>1. wf' = Workflow(wf.status, wf.wakeAt, wf.job, wf.attempt, wf.lease, "yes")
          BY <3>1, <4>1 DEF acquire
        <5> QED
          BY <2>1, <5>1 DEF HoldKept, Workflow
      <4>2. CASE ~Busy(q)
        BY <2>2, <3>1, <4>2 DEF acquire, Takes
      <4> QED
        BY <4>1, <4>2
    <3>2. CASE runStep(q)
      BY <2>1, <3>2 DEF runStep, HoldKept, Workflow
    <3>3. CASE \/ suspend(q) \/ loseLease(q) \/ seeCancelled(q) \/ returns(q) \/ throws(q)
               \/ sleepStep(q) \/ waitStep(q) \/ batchStep(q) \/ findBatch(q) \/ recordBatch(q)
               \/ complete(q) \/ fail(q) \/ deadLetter(q)
      <4>1. wf' = wf
        BY <3>3 DEF suspend, loseLease, seeCancelled, returns, throws, sleepStep, waitStep, batchStep,
                    findBatch, recordBatch, complete, fail, deadLetter, Reports
      <4> QED
        BY <2>1, <4>1 DEF HoldKept
    <3> QED
      BY <2>3, <2>4, <2>5, <3>1, <3>2, <3>3 DEF PassStep
  <2>6. ~LapseHold
    BY <1>3, <2>1
  <2>7. ASSUME \/ \E q \in Procs : renew(q) \/ storeRejects(q) \/ crash(q) \/ \E j \in Jobs : claim(q, j)
               \/ \E j \in Jobs : LapseJob(j)
               \/ cancel \/ Elapse \/ UNCHANGED vars
               \/ \E k \in Keys : signal(k) \/ BatchEnds(k, "succeeded") \/ BatchEnds(k, "failed")
        PROVE  HoldKept /\ wf'.lease = "live"
    BY <2>1, <2>7 DEF renew, storeRejects, crash, claim, LapseJob, cancel, Elapse, vars, signal, BatchEnds,
                      Workflow, HoldKept
  <2>8. HoldKept /\ wf'.lease = "live"
    BY <2>5, <2>6, <2>7 DEF Next
  <2> QED
    BY <1>5, <2>1, <2>8 DEF HoldKept, Holds
<1> QED
  BY <1>1, <1>4, <1>5, AtWorkFrom

(* acquire() keeps a second tick out: a step of a workflow is never run by *)
(* two passes at once, unless one of them went on past its lease. *)
THEOREM OneAtATime == Spec => []OnePass
<1>1. Init => Single
  <2> SUFFICES ASSUME Init
               PROVE  Single
    OBVIOUS
  <2>1. \A p \in Procs : pass[p].stage = "idle"
    BY DEF Init, Idle, Pass
  <2> QED
    BY <2>1, InitCounted, InsideAtWork DEF Single, Leased, Steady, OnePass, Working, AtWork, Stepping
<1>2. Single /\ [Next]_vars => Single'
  <2> SUFFICES ASSUME Single, [Next]_vars
               PROVE  Single'
    OBVIOUS
  <2>1. Counted' /\ Leased' /\ Steady'
    BY CountedStays, LeasedStays, SteadyStays DEF Single
  <2>2. ASSUME mishaps'.stalls = 0, NEW p \in Procs, NEW q \in Procs, p # q,
               pass'[p].stage \in AtWork, pass'[q].stage \in AtWork
        PROVE  FALSE
    <3>1. mishaps.stalls = 0
      BY <2>2, NoStall DEF Single, Counted
    <3>2. ASSUME NEW a \in Procs, NEW b \in Procs, a # b, pass'[b].stage \in AtWork,
                 Takes(a), wf.status \notin Ended
          PROVE  FALSE
      <4>1. \E r : GoesOnIn(a, r)
        <5>1. pass'[a].stage # "idle" /\ (Gone(a) \/ \E r : GoesOnIn(a, r))
          BY <3>2, Found, PassMoves DEF Takes, PassStep, Single, Counted
        <5> QED
          BY <5>1 DEF Gone, Idle, Pass, Single, Counted, TypeOK
      <4>2. pass[b].stage \in AtWork
        BY <3>2, <4>1 DEF GoesOnIn, Single, Counted, TypeOK
      <4> QED
        BY <3>1, <3>2, <4>2, NotTaken
    <3>3. pass[p].stage \in AtWork /\ pass[q].stage \in AtWork
      BY <2>2, <3>2, AtWorkFrom DEF Single
    <3> QED
      BY <2>2, <3>1, <3>3, InsideAtWork DEF Single, OnePass
  <2>3. OnePass'
    BY <2>2, InsideAtWork DEF OnePass
  <2> QED
    BY <2>1, <2>3 DEF Single
<1>3. Single => OnePass
  BY DEF Single
<1> QED
  BY <1>1, <1>2, <1>3, PTL DEF Spec

-----------------------------------------------------------------------------
(* The workflow its program says.                                          *)

Done(k) == step[k].status \in Resolved

DoneNext(k) == step'[k].status \in Resolved

(* The steps of a method are resolved one after the other. *)
Ordered == \A i, k \in Keys : i < k /\ step[i].mode = step[k].mode /\ Done(k) => Done(i)

(* A pass with the hold is at the first that is not, *)
Reached ==
  \A p \in Procs : pass[p].stage \in Stepping /\ Holds(p) =>
    /\ ~Done(pass[p].key)
    /\ \A k \in Keys : step[k].mode = pass[p].mode /\ k < pass[p].key => Done(k)
    /\ \A k \in Keys : pass[p].cached[k] \in Resolved => Done(k)

(* or has found none. *)
Returned ==
  \A p \in Procs : pass[p].stage = "finish" /\ pass[p].outcome = "completed" /\ Holds(p) =>
    \A k \in Keys : step[k].mode = pass[p].mode => Done(k)

Advanced == Counted /\ Ordered /\ Reached /\ Returned

(* Going on from a step leads to the next one without a result. *)
LEMMA ArrivesAt ==
  ASSUME TypeOK, NEW q \in Passes, NEW from \in Nat
  PROVE  LET r == Arrived(q, from) IN
           /\ r.stage \in Stepping =>
                /\ r.key \in Keys /\ r.key >= from /\ r.mode = q.mode /\ r.cached = q.cached
                /\ step[r.key].mode = q.mode /\ q.cached[r.key] \notin Resolved
                /\ \A k \in Keys : step[k].mode = q.mode /\ k >= from /\ k < r.key => q.cached[k] \in Resolved
           /\ r.stage = "finish" /\ r.outcome = "completed" =>
                /\ r.mode = q.mode
                /\ \A k \in Keys : step[k].mode = q.mode /\ k >= from => q.cached[k] \in Resolved
<1> DEFINE left == {k \in StepsOf(q.mode) : k >= from /\ q.cached[k] \notin Resolved}
           next == CHOOSE k \in left : \A i \in left : k <= i
           Ends(key, outcome) == Pass(q.job, q.attempt, "finish", q.mode, key, Idle.cached, outcome)
<1>1. \A job, attempt, stage, mode, key, cached, outcome :
        LET r == Pass(job, attempt, stage, mode, key, cached, outcome) IN
          r.stage = stage /\ r.mode = mode /\ r.key = key /\ r.cached = cached /\ r.outcome = outcome
  BY DEF Pass
<1>2. "finish" \notin Stepping /\ {"look", "steps"} \subseteq Stepping
  BY DEF Stepping
<1>3. CASE left = {}
  <2>1. Arrived(q, from) = Ends(q.key, "completed")
    BY <1>3 DEF Arrived
  <2>2. \A k \in Keys : step[k].mode = q.mode /\ k >= from => q.cached[k] \in Resolved
    BY <1>3 DEF StepsOf
  <2> HIDE DEF left
  <2> QED  BY <1>1, <1>2, <2>1, <2>2
<1>4. CASE left # {}
  <2>1. left \in SUBSET Nat
    BY DEF StepsOf, Keys
  <2>2. \E k \in left : \A i \in left : k <= i
    BY <1>4, <2>1, Least
  <2>3. next \in left /\ \A i \in left : next <= i
    BY <2>2
  <2>4. /\ next \in Keys /\ step[next].mode = q.mode /\ next >= from /\ q.cached[next] \notin Resolved
        /\ \A k \in Keys : step[k].mode = q.mode /\ k >= from /\ k < next => q.cached[k] \in Resolved
    <3>1. next \in Nat /\ Keys \subseteq Nat
      <4> HIDE DEF next, left
      <4>1. next \in Nat
        BY <2>1, <2>3
      <4>2. Keys \subseteq Nat
        BY DEF Keys
      <4> QED  BY <4>1, <4>2
    <3>2. next \in Keys /\ step[next].mode = q.mode /\ next >= from /\ q.cached[next] \notin Resolved
      BY <2>3 DEF StepsOf
    <3>3. ASSUME NEW k \in Keys, step[k].mode = q.mode, k >= from, k < next, q.cached[k] \notin Resolved
          PROVE  FALSE
      <4>1. k \in left
        BY <3>3 DEF StepsOf
      <4> HIDE DEF next, left
      <4>2. next <= k /\ k \in Nat
        BY <2>3, <3>1, <4>1
      <4> QED  BY <3>1, <3>3, <4>2
    <3> QED  BY <3>2, <3>3
  <2>5. CASE q.cached[next] = "failed"
    <3>1. Arrived(q, from) = Ends(next, "failed")
      BY <1>4, <2>5 DEF Arrived
    <3> HIDE DEF next, left
    <3> QED  BY <1>1, <1>2, <3>1
  <2>6. CASE q.cached[next] # "failed"
    <3> DEFINE stage == IF q.cached[next] = "batching" THEN "look" ELSE "steps"
    <3>1. Arrived(q, from) = Pass(q.job, q.attempt, stage, q.mode, next, q.cached, "none")
      BY <1>4, <2>6 DEF Arrived
    <3>2. stage # "finish"
      OBVIOUS
    <3> HIDE DEF next, left, stage
    <3> QED  BY <1>1, <2>4, <3>1, <3>2
  <2> QED  BY <2>5, <2>6
<1> QED  BY <1>3, <1>4

(* What a step of a pass may lead to, and what it has done by then. *)
LEMMA WorkMoves ==
  ASSUME TypeOK, SoundPasses, NEW p \in Procs, PassStep(p) \/ storeRejects(p), ~acquire(p),
         pass'[p].stage \in AtWork
  PROVE  /\ pass[p].stage \in Stepping
         /\ \/ /\ pass'[p].stage \in Stepping
               /\ pass'[p].key = pass[p].key /\ pass'[p].cached = pass[p].cached
               /\ step' = step \/ ~DoneNext(pass[p].key)
            \/ pass'[p].stage = "finish" /\ pass'[p].outcome \in {"failed", "sleeping", "waiting"}
               /\ pass'[p].key = pass[p].key /\ (step' = step \/ ~DoneNext(pass[p].key))
            \/ GoesOn(p) /\ DoneNext(pass[p].key)
<1> DEFINE q == pass[p]
           k == pass[p].key
           Same == step' = step \/ ~DoneNext(k)
           Stays == pass'[p].stage \in Stepping /\ pass'[p].key = k /\ pass'[p].cached = q.cached
           Stops == /\ pass'[p].stage = "finish" /\ pass'[p].outcome \in {"failed", "sleeping", "waiting"}
                    /\ pass'[p].key = k
           Goal == (Stays /\ Same) \/ (Stops /\ Same) \/ (GoesOn(p) /\ DoneNext(k))
<1>1. pass[p].stage \in Stepping /\ k \in Keys /\ pass \in [Procs -> Passes] /\ step \in [Keys -> StepRows]
  BY StaysAtWork DEF SoundPasses, SoundPass, TypeOK
<1>2. \A job, attempt, stage, mode, key, cached, outcome :
        LET r == Pass(job, attempt, stage, mode, key, cached, outcome) IN
          r.stage = stage /\ r.mode = mode /\ r.key = key /\ r.cached = cached /\ r.outcome = outcome
  BY DEF Pass
<1>3. ASSUME NEW stage \in {"steps", "exec", "look", "record"}, To(p, stage)
      PROVE  Stays
  <2> DEFINE r == Pass(q.job, q.attempt, stage, q.mode, q.key, q.cached, q.outcome)
  <2>1. r.stage = stage /\ r.key = q.key /\ r.cached = q.cached
    BY <1>2
  <2>2. pass' = [pass EXCEPT ![p] = r]
    BY <1>3 DEF To
  <2> HIDE DEF r
  <2>3. pass'[p] = r
    BY <1>1, <2>2
  <2> QED  BY <1>3, <2>1, <2>3 DEF Stepping
<1>4. ASSUME NEW outcome \in {"failed", "sleeping", "waiting"}, Finishes(p, outcome)
      PROVE  Stops
  <2> DEFINE r == Pass(q.job, q.attempt, "finish", q.mode, q.key, Idle.cached, outcome)
  <2>1. r.stage = "finish" /\ r.outcome = outcome /\ r.key = k
    BY <1>2
  <2>2. pass' = [pass EXCEPT ![p] = r]
    BY <1>4 DEF Finishes
  <2> HIDE DEF r
  <2>3. pass'[p] = r
    BY <1>1, <2>2
  <2> QED  BY <1>4, <2>1, <2>3
<1>5. ASSUME NEW status, NEW attempt, NEW wakeAt, Records(k, status, attempt, wakeAt)
      PROVE  step'[k].status = status
  BY <1>1, <1>5 DEF Records, Step
<1>6. ASSUME NEW status \in {"running", "failed", "retrying", "sleeping", "waiting", "batching"},
             NEW attempt, NEW wakeAt, Records(k, status, attempt, wakeAt)
      PROVE  Same
  <2>1. step'[k].status = status
    BY <1>5, <1>6
  <2> QED  BY <2>1 DEF Same, DoneNext, Resolved
<1>7. ASSUME NEW status \in {"completed", "timed_out"},
             NEW attempt, NEW wakeAt, Records(k, status, attempt, wakeAt)
      PROVE  DoneNext(k)
  BY <1>5, <1>7 DEF DoneNext, Resolved
<1>8. ASSUME step' = step
      PROVE  Same
  BY <1>8 DEF Same
<1> SUFFICES Goal
  BY <1>1 DEF Goal
<1> HIDE DEF Same, Stays, Stops
<1>10. CASE runStep(p)
  <2>1. CASE MayRun(k)
    <3>1. To(p, "exec") /\ step' = [step EXCEPT ![k] = began(k)]
      BY <1>10, <2>1 DEF runStep
    <3>2. step'[k].status = "running"
      <4>1. step'[k] = began(k)
        BY <1>1, <3>1
      <4>2. began(k).status = "running"
        BY DEF began, Step
      <4> QED  BY <4>1, <4>2
    <3>3. Same
      BY <3>2 DEF Same, DoneNext, Resolved
    <3> QED  BY <1>3, <3>1, <3>3
  <2>2. CASE ~MayRun(k)
    BY <1>4, <1>6, <1>10, <2>2 DEF runStep
  <2> QED  BY <2>1, <2>2
<1>11. CASE returns(p)
  BY <1>7, <1>11 DEF returns
<1>12. CASE throws(p)
  <2>1. (Finishes(p, "failed") \/ Finishes(p, "sleeping") \/ To(p, "steps"))
        /\ \E status \in {"failed", "retrying"} : \E attempt, wakeAt : Records(k, status, attempt, wakeAt)
    BY <1>12 DEF throws
  <2> QED  BY <1>3, <1>4, <1>6, <2>1
<1>13. CASE sleepStep(p)
  BY <1>4, <1>6, <1>7, <1>13 DEF sleepStep
<1>14. CASE waitStep(p)
  <2>1. \/ GoesOn(p) /\ \E status \in {"completed", "timed_out"} : \E attempt, wakeAt : Records(k, status, attempt, wakeAt)
        \/ Finishes(p, "waiting") /\ (step' = step \/ \E wakeAt : Records(k, "waiting", 0, wakeAt))
    BY <1>14 DEF waitStep
  <2> QED  BY <1>4, <1>6, <1>7, <1>8, <2>1
<1>15. CASE batchStep(p)
  BY <1>3, <1>6, <1>15 DEF batchStep
<1>16. CASE findBatch(p) \/ suspend(p) \/ seeCancelled(p)
  <2>1. step' = step /\ (To(p, "record") \/ Finishes(p, "waiting") \/ Finishes(p, "sleeping"))
    BY <1>16 DEF findBatch, suspend, seeCancelled
  <2> QED  BY <1>3, <1>4, <1>8, <2>1
<1>17. CASE recordBatch(p)
  BY <1>4, <1>6, <1>7, <1>17 DEF recordBatch
<1>18. ~(letGo(p) \/ finish(p) \/ loseLease(p) \/ tickDeadLettered(p) \/ fail(p) \/ deadLetter(p) \/ complete(p))
  <2>1. \A stage : To(p, stage) \/ Leaves(p, stage) => pass'[p].stage = stage
    BY <1>1, <1>2 DEF To, Leaves
  <2>2. pass' # [pass EXCEPT ![p] = Idle]
    BY <1>1 DEF Idle, Pass, AtWork, Stepping
  <2>3. {"report", "retry", "bury", "dead", "late"} \intersect AtWork = {}
    BY DEF AtWork, Stepping
  <2> QED  BY <2>1, <2>2, <2>3 DEF letGo, finish, loseLease, LetsGo, tickDeadLettered, Buries, fail, deadLetter, complete, Reports
<1>19. CASE storeRejects(p)
  <2>1. step' = step /\ (Finishes(p, "failed") \/ Leaves(p, "retry") \/ Buries(p))
    BY <1>19 DEF storeRejects
  <2>2. \A stage : To(p, stage) \/ Leaves(p, stage) => pass'[p].stage = stage
    BY <1>1, <1>2 DEF To, Leaves
  <2>3. pass' # [pass EXCEPT ![p] = Idle]
    BY <1>1 DEF Idle, Pass, AtWork, Stepping
  <2>4. {"retry", "dead"} \intersect AtWork = {}
    BY DEF AtWork, Stepping
  <2>5. Finishes(p, "failed")
    BY <2>1, <2>2, <2>3, <2>4 DEF Buries
  <2> QED  BY <1>4, <1>8, <2>1, <2>5
<1> QED
  BY <1>10, <1>11, <1>12, <1>13, <1>14, <1>15, <1>16, <1>17, <1>18, <1>19 DEF PassStep

(* And it is past it. *)
LEMMA GoesFurther ==
  ASSUME TypeOK, NEW p \in Procs, GoesOn(p), pass[p].stage \in Stepping
  PROVE  pass'[p] # pass[p]
<1> DEFINE r == Arrived(pass[p], pass[p].key + 1)
<1>1. pass \in [Procs -> Passes] /\ pass[p] \in Passes /\ pass[p].key \in Nat /\ pass[p].key + 1 \in Nat
  BY PassFields DEF TypeOK
<1>2. pass'[p] = r
  BY <1>1 DEF GoesOn
<1>3. r.stage \in Stepping => r.key \in Keys /\ r.key >= pass[p].key + 1
  BY <1>1, ArrivesAt
<1> HIDE DEF r
<1> QED  BY <1>1, <1>2, <1>3 DEF Keys

(* What a step has to show for it changes in the writes of the pass with   *)
(* the hold, or not at all; it is never taken back. *)
LEMMA DoneMoves ==
  ASSUME Counted, Reached, [Next]_vars, NEW k \in Keys, Done(k) # DoneNext(k)
  PROVE  /\ ~Done(k) /\ DoneNext(k)
         /\ \E p \in Procs : /\ PassStep(p) /\ Writes(p) /\ pass[p].stage \in Stepping /\ pass[p].key = k
                           /\ \A i \in Keys : i # k => step'[i] = step[i]
<1>0. TypeOK /\ SoundPasses /\ step \in [Keys -> StepRows]
  BY DEF Counted, TypeOK
<1>1. ASSUME \/ \E p \in Procs : renew(p) \/ storeRejects(p) \/ crash(p) \/ \E j \in Jobs : claim(p, j)
             \/ \E j \in Jobs : LapseJob(j)
             \/ LapseHold \/ cancel \/ UNCHANGED vars
             \/ \E i \in Keys : BatchEnds(i, "succeeded") \/ BatchEnds(i, "failed")
      PROVE  step' = step
  BY <1>1 DEF renew, storeRejects, crash, claim, LapseJob, LapseHold, cancel, vars, BatchEnds
<1>2. ASSUME Elapse
      PROVE  step'[k].status = step[k].status
  BY <1>2 DEF Elapse, Step
<1>3. ASSUME NEW i \in Keys, signal(i)
      PROVE  step'[k] = step[k] \/ (step[k].status \in {"none", "waiting"} /\ step'[k].status = "signalled")
  <2>1. /\ step' = [step EXCEPT ![i] = Step(@.mode, @.kind, "signalled", 0, step[i].wakeAt)]
        /\ step[i].status \in {"none", "waiting"}
    BY <1>3 DEF signal, Records
  <2> QED  BY <1>0, <2>1 DEF Step
<1>4. ASSUME step' = step \/ step'[k].status = step[k].status \/ step'[k] = step[k]
             \/ (step[k].status \in {"none", "waiting"} /\ step'[k].status = "signalled")
      PROVE  FALSE
  BY <1>4 DEF Done, DoneNext, Resolved
<1>5. PICK p \in Procs : PassStep(p)
  BY <1>1, <1>2, <1>3, <1>4 DEF Next
<1>6. /\ Writes(p) /\ pass[p].stage \in Stepping
      /\ \A i \in Keys : i # pass[p].key => step'[i] = step[i]
  BY <1>0, <1>4, <1>5, StepWrites
<1>7. pass[p].key = k
  BY <1>4, <1>6
<1>8. ~Done(k)
  BY <1>6, <1>7 DEF Reached, Writes
<1>9. DoneNext(k)
  BY <1>8 DEF Done, DoneNext
<1> QED  BY <1>5, <1>6, <1>7, <1>8, <1>9

(* A pass that goes on has done its step. *)
LEMMA OrderedStays ==
  ASSUME Counted, Ordered, Reached, [Next]_vars
  PROVE  Ordered' /\ \A k \in Keys : Done(k) => DoneNext(k)
<1>1. \A k \in Keys : Done(k) => DoneNext(k)
  BY DoneMoves
<1>2. \A k \in Keys : step'[k].mode = step[k].mode
  BY KindsStay DEF Counted, SameKinds
<1>3. \A k \in Keys : Done(k)' <=> DoneNext(k)
  BY DEF Done, DoneNext
<1>4. ASSUME NEW i \in Keys, NEW k \in Keys, i < k, step[i].mode = step[k].mode, DoneNext(k)
      PROVE  DoneNext(i)
  <2>1. CASE Done(k)
    BY <1>1, <1>4, <2>1 DEF Ordered
  <2>2. CASE ~Done(k)
    <3>1. PICK p \in Procs : Writes(p) /\ pass[p].stage \in Stepping /\ pass[p].key = k
      BY <1>4, <2>2, DoneMoves
    <3>2. step[k].mode = pass[p].mode
      BY <3>1 DEF Counted, SoundPasses, SoundPass
    <3> QED  BY <1>1, <1>4, <3>1, <3>2 DEF Reached, Writes
  <2> QED  BY <2>1, <2>2
<1> QED  BY <1>1, <1>2, <1>3, <1>4 DEF Ordered

(* What the pass with the hold knows of the steps stays so. *)
LEMMA ReachedStays ==
  ASSUME Advanced, [Next]_vars
  PROVE  Reached' /\ Returned'
<1>0. Counted /\ Ordered /\ Reached /\ Returned /\ TypeOK /\ SoundPasses /\ SoundSteps /\ IdleHasNone /\ Apart
  BY DEF Advanced, Counted
<1>1. /\ \A k \in Keys : Done(k) => DoneNext(k)
      /\ \A k \in Keys : Done(k)' <=> DoneNext(k)
      /\ \A k \in Keys : step'[k].mode = step[k].mode
  BY <1>0, OrderedStays, KindsStay DEF Done, DoneNext, SameKinds
<1>2. SUFFICES ASSUME NEW p \in Procs, pass'[p].stage \in AtWork, Holds(p)'
               PROVE  /\ pass'[p].stage \in Stepping =>
                           /\ ~DoneNext(pass'[p].key)
                           /\ \A k \in Keys : step[k].mode = pass'[p].mode /\ k < pass'[p].key => DoneNext(k)
                           /\ \A k \in Keys : pass'[p].cached[k] \in Resolved => DoneNext(k)
                      /\ pass'[p].stage = "finish" /\ pass'[p].outcome = "completed" =>
                           \A k \in Keys : step[k].mode = pass'[p].mode => DoneNext(k)
  <2>1. \A p \in Procs : pass'[p].stage \in Stepping => pass'[p].key \in Keys
    BY <1>0, PassesStaySound DEF SoundPasses, SoundPass
  <2> QED  BY <1>1, <1>2, <2>1 DEF Reached, Returned, AtWork
<1> DEFINE Goal(q) == /\ q.stage \in Stepping =>
                           /\ ~DoneNext(q.key)
                           /\ \A k \in Keys : step[k].mode = q.mode /\ k < q.key => DoneNext(k)
                           /\ \A k \in Keys : q.cached[k] \in Resolved => DoneNext(k)
                      /\ q.stage = "finish" /\ q.outcome = "completed" =>
                           \A k \in Keys : step[k].mode = q.mode => DoneNext(k)
<1>3. CASE Takes(p)
  <2> DEFINE mode == IF wf.status = "cancelling" THEN "cancel" ELSE "run"
             cached == [k \in Keys |-> step[k].status]
             o == Pass(pass[p].job, pass[p].attempt, "letgo", mode, 0, cached, "none")
             r == Arrived(o, 1)
  <2>1. /\ acquire(p) /\ ~Busy(p) /\ step' = step /\ wf.status \notin Ended /\ pass[p].stage = "take"
    BY <1>0, <1>2, <1>3, Found DEF Takes, acquire
  <2>2. pass' = [pass EXCEPT ![p] = r] /\ pass \in [Procs -> Passes]
    BY <1>0, <2>1 DEF acquire, TypeOK
  <2>3. pass'[p] = r
    BY <2>2
  <2>4. cached \in [Keys -> StepStatuses] /\ mode \in Modes /\ "letgo" \in Stages
    BY <1>0, RowFields DEF TypeOK, Modes, Stages
  <2>5. pass[p].job \in Jobs /\ pass[p].attempt \in Nat
    BY <1>0, <2>1, PassFields DEF SoundPasses, SoundPass
  <2>6. \A k \in Keys : cached[k] \in Resolved <=> DoneNext(k)
    BY <2>1 DEF DoneNext
  <2> HIDE DEF cached, mode
  <2>7. o \in Passes /\ o.mode = mode /\ o.cached = cached
    <3>1. o \in Passes
      BY <2>4, <2>5, PassType
    <3> QED  BY <3>1 DEF Pass
  <2> HIDE DEF o
  <2>8. /\ r.stage \in Stepping =>
             /\ r.key \in Keys /\ r.mode = o.mode /\ r.cached = o.cached /\ o.cached[r.key] \notin Resolved
             /\ \A k \in Keys : step[k].mode = o.mode /\ k >= 1 /\ k < r.key => o.cached[k] \in Resolved
        /\ r.stage = "finish" /\ r.outcome = "completed" =>
             /\ r.mode = o.mode
             /\ \A k \in Keys : step[k].mode = o.mode /\ k >= 1 => o.cached[k] \in Resolved
    BY <1>0, <2>7, ArrivesAt
  <2>9. \A k \in Keys : k >= 1
    BY DEF Keys
  <2> HIDE DEF r
  <2>10. Goal(r)
    BY <2>6, <2>7, <2>8, <2>9
  <2> QED  BY <2>3, <2>10
<1>4. CASE /\ Holds(p) /\ pass[p].stage \in AtWork /\ pass'[p] = pass[p]
  <2>1. CASE pass[p].stage \in Stepping
    <3>1. pass[p].key \in Keys /\ ~Done(pass[p].key)
      BY <1>0, <1>4, <2>1 DEF SoundPasses, SoundPass, Reached
    <3>2. ~DoneNext(pass[p].key)
      <4> SUFFICES ASSUME DoneNext(pass[p].key) PROVE FALSE
        OBVIOUS
      <4>1. PICK q \in Procs : PassStep(q) /\ Writes(q) /\ pass[q].stage \in Stepping /\ pass[q].key = pass[p].key
        BY <1>0, <3>1, DoneMoves
      <4>2. q = p
        BY <1>0, <1>4, <2>1, <4>1, OneHolds DEF Writes, Stepping
      <4>3. ~acquire(p)
        BY <2>1 DEF acquire, Stepping
      <4>4. GoesOn(p)
        BY <1>0, <1>2, <1>4, <2>1, <3>1, <4>1, <4>2, <4>3, WorkMoves DEF Done, DoneNext, Stepping
      <4> QED  BY <1>0, <1>4, <2>1, <4>4, GoesFurther
    <3> QED  BY <1>0, <1>1, <1>4, <2>1, <3>2 DEF Reached, Stepping
  <2>2. CASE pass[p].stage \notin Stepping
    BY <1>0, <1>1, <1>4, <2>2 DEF Returned
  <2> QED  BY <2>1, <2>2
<1>5. CASE Holds(p) /\ pass[p].stage \in AtWork /\ (PassStep(p) \/ storeRejects(p)) /\ ~acquire(p)
  <2>1. /\ pass[p].stage \in Stepping /\ pass[p].key \in Keys /\ ~Done(pass[p].key)
        /\ step[pass[p].key].mode = pass[p].mode
    BY <1>0, <1>2, <1>5, WorkMoves DEF SoundPasses, SoundPass, Reached
  <2>2. pass'[p].mode = pass[p].mode
    BY <1>0, <1>2, <1>5, StaysAtWork
  <2>3. CASE /\ pass'[p].stage \in Stepping
             /\ pass'[p].key = pass[p].key /\ pass'[p].cached = pass[p].cached
             /\ step' = step \/ ~DoneNext(pass[p].key)
    BY <1>0, <1>1, <1>5, <2>1, <2>2, <2>3 DEF Reached, Done, DoneNext, Stepping
  <2>4. CASE pass'[p].stage = "finish" /\ pass'[p].outcome \in {"failed", "sleeping", "waiting"}
    BY <2>4 DEF Stepping
  <2>5. CASE GoesOn(p) /\ DoneNext(pass[p].key)
    <3> DEFINE r == Arrived(pass[p], pass[p].key + 1)
    <3>1. pass \in [Procs -> Passes] /\ pass[p] \in Passes /\ pass[p].key \in Nat /\ pass[p].key + 1 \in Nat
      BY <1>0, PassFields DEF TypeOK
    <3>2. pass'[p] = r
      BY <2>5, <3>1 DEF GoesOn
    <3>3. /\ r.stage \in Stepping =>
               /\ r.key \in Keys /\ r.cached = pass[p].cached /\ pass[p].cached[r.key] \notin Resolved
               /\ r.key >= pass[p].key + 1 /\ step[r.key].mode = pass[p].mode
               /\ \A k \in Keys : step[k].mode = pass[p].mode /\ k >= pass[p].key + 1 /\ k < r.key => pass[p].cached[k] \in Resolved
          /\ r.stage = "finish" /\ r.outcome = "completed" =>
               \A k \in Keys : step[k].mode = pass[p].mode /\ k >= pass[p].key + 1 => pass[p].cached[k] \in Resolved
      BY <1>0, <3>1, ArrivesAt
    <3> HIDE DEF r
    <3>4. /\ \A k \in Keys : step[k].mode = pass[p].mode /\ k < pass[p].key => Done(k)
          /\ \A k \in Keys : pass[p].cached[k] \in Resolved => Done(k)
      BY <1>0, <1>5, <2>1 DEF Reached
    <3>5. \A k \in Keys : k < pass[p].key \/ k = pass[p].key \/ k >= pass[p].key + 1
      BY <3>1 DEF Keys
    <3>6. ASSUME r.stage \in Stepping
          PROVE  ~DoneNext(r.key)
      <4>1. pass[p].key < r.key /\ r.key \in Keys /\ r.key # pass[p].key
        BY <3>1, <3>3, <3>6 DEF Keys
      <4>2. ~Done(r.key)
        BY <1>0, <2>1, <3>3, <3>6, <4>1 DEF Ordered
      <4> SUFFICES ASSUME DoneNext(r.key) PROVE FALSE
        OBVIOUS
      <4>3. PICK q \in Procs : Writes(q) /\ pass[q].stage \in Stepping /\ pass[q].key = r.key
        BY <1>0, <4>1, <4>2, DoneMoves
      <4>4. q = p
        BY <1>0, <1>5, <2>1, <4>3, OneHolds DEF Writes, Stepping
      <4> QED  BY <4>1, <4>3, <4>4
    <3> QED  BY <1>1, <2>2, <2>5, <3>2, <3>3, <3>4, <3>5, <3>6
  <2> QED  BY <1>0, <1>2, <1>5, <2>3, <2>4, <2>5, WorkMoves
<1> QED  BY <1>0, <1>2, <1>3, <1>4, <1>5, TookOrHeld

(* All of it, always. *)
LEMMA AlwaysAdvanced == Spec => []Advanced
<1>1. Init => Advanced
  <2> SUFFICES ASSUME Init PROVE Advanced
    OBVIOUS
  <2>1. \A k \in Keys : step[k].status = "none"
    BY DEF Init, Step
  <2>2. \A p \in Procs : pass[p].stage = "idle"
    BY DEF Init, Idle, Pass
  <2> QED
    BY <2>1, <2>2, InitCounted DEF Advanced, Ordered, Reached, Returned, Done, Resolved, Stepping
<1>2. Advanced /\ [Next]_vars => Advanced'
  BY CountedStays, OrderedStays, ReachedStays DEF Advanced
<1> QED  BY <1>1, <1>2, PTL DEF Spec

(* The steps of a method that are left, as the contract counts them. *)
Undone(mode) == {k \in Keys : step[k].mode = mode /\ ~Done(k)}

(* Left counts from the first step without a result on; in order, those are *)
(* the steps without one. *)
LEMMA LeftCounts ==
  ASSUME Ordered, NEW mode
  PROVE  Left(mode) = Cardinality(Undone(mode))
<1>1. \A k \in Keys : k <= k
  BY DEF Keys
<1>2. \A i, k \in Keys : i <= k => i = k \/ i < k
  BY DEF Keys
<1>3. {k \in StepsOf(mode) : \E i \in StepsOf(mode) : i <= k /\ step[i].status \notin Resolved} = Undone(mode)
  <2>1. ASSUME NEW k \in Keys, step[k].mode = mode, NEW i \in Keys, step[i].mode = mode, i <= k, ~Done(i)
        PROVE  ~Done(k)
    BY <1>2, <2>1 DEF Ordered
  <2> QED  BY <1>1, <2>1 DEF StepsOf, Undone, Done
<1> QED  BY <1>3 DEF Left

(* In the next state too. *)
LeftIsUndone == \A mode \in Modes : Left(mode) = Cardinality(Undone(mode))
LEMMA NextLeft == Ordered' => LeftIsUndone'
<1>1. Ordered => LeftIsUndone
  BY LeftCounts DEF LeftIsUndone
<1> QED  BY <1>1, PTL

(* One step done is one less to do. *)
LEMMA UndoneCounts ==
  ASSUME NEW mode
  PROVE  /\ IsFiniteSet(Undone(mode)) /\ Cardinality(Undone(mode)) \in 0 .. Last
         /\ \A k \in Undone(mode) : /\ Cardinality(Undone(mode) \ {k}) = Cardinality(Undone(mode)) - 1
                                  /\ Cardinality(Undone(mode)) > 0
<1>1. IsFiniteSet(Keys) /\ Cardinality(Keys) = Last /\ Last \in Nat
  <2>1. Last \in Nat /\ 1 \in Int /\ Last \in Int
    BY WorkflowAssumption
  <2>2. IsFiniteSet(1 .. Last) /\ Cardinality(1 .. Last) = IF 1 > Last THEN 0 ELSE Last - 1 + 1
    BY <2>1, FS_Interval
  <2>3. (IF 1 > Last THEN 0 ELSE Last - 1 + 1) = Last
    BY <2>1
  <2> QED  BY <2>1, <2>2, <2>3 DEF Keys
<1>2. Undone(mode) \subseteq Keys
  BY DEF Undone
<1>3. IsFiniteSet(Undone(mode)) /\ Cardinality(Undone(mode)) <= Cardinality(Keys)
  BY <1>1, <1>2, FS_Subset
<1>4. Cardinality(Undone(mode)) \in Nat
  BY <1>3, FS_CardinalityType
<1>5. Cardinality(Undone(mode)) \in 0 .. Last
  BY <1>1, <1>3, <1>4
<1>6. ASSUME NEW k \in Undone(mode)
      PROVE  /\ Cardinality(Undone(mode) \ {k}) = Cardinality(Undone(mode)) - 1
             /\ Cardinality(Undone(mode)) > 0
  <2>1. Cardinality(Undone(mode) \ {k}) = Cardinality(Undone(mode)) - 1
    BY <1>3, FS_RemoveElement
  <2>2. Cardinality(Undone(mode)) # 0
    BY <1>3, FS_EmptySet
  <2> QED  BY <1>4, <2>1, <2>2
<1> QED  BY <1>3, <1>5, <1>6

(* A step of a method is done by one pass at a time, and beside it nothing *)
(* else moves. *)
LEMMA UndoneMoves ==
  ASSUME Counted, Reached, [Next]_vars
  PROVE  \/ \A mode \in Modes : Undone(mode)' = Undone(mode)
         \/ \E p \in Procs, k \in Keys :
              /\ PassStep(p) /\ Writes(p) /\ pass[p].stage \in Stepping
              /\ pass[p].key = k /\ k \in Undone(pass[p].mode) /\ step'[k] # step[k]
              /\ \A mode \in Modes : Undone(mode)' = IF mode = pass[p].mode THEN Undone(mode) \ {k}
                                                                         ELSE Undone(mode)
<1>1. \A k \in Keys : step'[k].mode = step[k].mode
  BY KindsStay DEF Counted, SameKinds
<1>2. \A k \in Keys : Done(k)' <=> DoneNext(k)
  BY DEF Done, DoneNext
<1>3. CASE \A k \in Keys : Done(k) <=> DoneNext(k)
  BY <1>1, <1>2, <1>3 DEF Undone
<1>4. ASSUME NEW k \in Keys, ~(Done(k) <=> DoneNext(k))
      PROVE  \E p \in Procs :
               /\ PassStep(p) /\ Writes(p) /\ pass[p].stage \in Stepping
               /\ pass[p].key = k /\ k \in Undone(pass[p].mode) /\ step'[k] # step[k]
               /\ \A mode \in Modes : Undone(mode)' = IF mode = pass[p].mode THEN Undone(mode) \ {k}
                                                                          ELSE Undone(mode)
  <2>1. Done(k) # DoneNext(k)
    BY <1>4
  <2>2. PICK p \in Procs : /\ PassStep(p) /\ Writes(p) /\ pass[p].stage \in Stepping /\ pass[p].key = k
                          /\ \A i \in Keys : i # k => step'[i] = step[i]
    BY <2>1, DoneMoves
  <2>3. ~Done(k) /\ DoneNext(k)
    BY <2>1, DoneMoves
  <2>4. step[k].mode = pass[p].mode
    BY <2>2 DEF Counted, SoundPasses, SoundPass
  <2>5. \A i \in Keys : i # k => (Done(i) <=> DoneNext(i))
    BY <2>2 DEF Done, DoneNext
  <2>6. step'[k] # step[k]
    BY <2>3 DEF Done, DoneNext
  <2>7. k \in Undone(pass[p].mode)
    BY <2>3, <2>4 DEF Undone
  <2>8. ASSUME NEW mode \in Modes
        PROVE  Undone(mode)' = IF mode = pass[p].mode THEN Undone(mode) \ {k} ELSE Undone(mode)
    BY <1>1, <1>2, <2>3, <2>4, <2>5 DEF Undone
  <2> QED  BY <2>2, <2>6, <2>7, <2>8
<1> QED  BY <1>3, <1>4

(* A write of a step that changes its row keeps what the workflow is. *)
Phase == IF wf.status \in {"running", "sleeping", "waiting"} THEN "open" ELSE wf.status

(* What becomes of the workflow. *)
LEMMA PhaseMoves ==
  ASSUME Advanced, [Next]_vars
  PROVE  \/ Phase' = Phase
         \/ step' = step /\ Phase = "open" /\ Phase' = "cancelling"
         \/ step' = step /\ Phase \in {"open", "cancelling"} /\ Phase' = "failed"
         \/ step' = step /\ Phase = "cancelling" /\ Phase' = "cancelled"
         \/ /\ step' = step /\ Phase = "open" /\ Phase' = "completed"
            /\ \A k \in Keys : step[k].mode = "run" => Done(k)
<1> DEFINE Goal == 
         \/ Phase' = Phase
         \/ step' = step /\ Phase = "open" /\ Phase' = "cancelling"
         \/ step' = step /\ Phase \in {"open", "cancelling"} /\ Phase' = "failed"
         \/ step' = step /\ Phase = "cancelling" /\ Phase' = "cancelled"
         \/ /\ step' = step /\ Phase = "open" /\ Phase' = "completed"
            /\ \A k \in Keys : step[k].mode = "run" => Done(k)
<1>0. /\ Counted /\ Returned /\ TypeOK /\ wf.status \in WorkflowStatuses /\ Alive
      /\ \A p \in Procs : pass[p] \in Passes
  BY RowFields DEF Advanced, Counted, TypeOK
<1>1. wf.status \notin Ended \union {"cancelling"} => Phase = "open"
  BY <1>0 DEF Phase, WorkflowStatuses
<1>2. wf.status \in Ended \union {"cancelling"} => Phase = wf.status
  BY DEF Phase, Ended
<1>3. wf'.status = wf.status => Phase' = Phase
  BY DEF Phase
<1> HIDE DEF Goal
<1>4. ASSUME NEW p \in Procs, finish(p)
      PROVE  Goal
  <2>1. /\ pass[p].stage = "finish" /\ Holds(p) /\ pass[p].outcome # "none"
        /\ pass[p].outcome \in {"none", "completed", "failed", "sleeping", "waiting"}
        /\ pass[p].mode \in Modes /\ wf.status \notin Ended
        /\ pass[p].mode = "cancel" => wf.status = "cancelling"
    BY <1>0, <1>4, PassFields DEF finish, SoundPasses, SoundPass, Alive, AtWork, Counted
  <2>2. step' = step
    BY <1>4 DEF finish, LetsGo
  <2>3. CASE Stopped(p)
    <3>1. wf'.status = wf.status
      BY <1>4, <2>3 DEF finish, LetsGo, Workflow
    <3> QED  BY <1>3, <3>1 DEF Goal
  <2>4. CASE ~Stopped(p) /\ pass[p].mode = "cancel"
    <3>1. wf'.status \in {"cancelled", "cancelling"} /\ wf.status = "cancelling"
      BY <1>4, <2>1, <2>4 DEF finish, LetsGo, Workflow
    <3>2. Phase = "cancelling" /\ Phase' = wf'.status
      BY <3>1 DEF Phase
    <3> QED  BY <2>2, <3>1, <3>2 DEF Goal
  <2>5. CASE ~Stopped(p) /\ pass[p].mode = "run"
    <3>1. wf'.status = pass[p].outcome /\ wf.status # "cancelling"
      BY <1>4, <2>1, <2>5 DEF finish, LetsGo, Workflow, Stopped
    <3>2. Phase = "open"
      BY <1>1, <2>1, <3>1
    <3>3. CASE pass[p].outcome = "completed"
      <4>1. \A k \in Keys : step[k].mode = "run" => Done(k)
        BY <1>0, <2>1, <2>5, <3>3 DEF Returned
      <4>2. Phase' = "completed"
        BY <3>1, <3>3 DEF Phase
      <4> QED  BY <2>2, <3>2, <4>1, <4>2 DEF Goal
    <3>4. CASE pass[p].outcome = "failed"
      <4>1. Phase' = "failed"
        BY <3>1, <3>4 DEF Phase
      <4> QED  BY <2>2, <3>2, <4>1 DEF Goal
    <3>5. CASE pass[p].outcome \in {"sleeping", "waiting"}
      <4>1. Phase' = "open"
        BY <3>1, <3>5 DEF Phase
      <4> QED  BY <3>2, <4>1 DEF Goal
    <3> QED  BY <2>1, <3>3, <3>4, <3>5
  <2> QED  BY <2>1, <2>3, <2>4, <2>5 DEF Modes
<1>5. ASSUME NEW p \in Procs, runStep(p)
      PROVE  Goal
  <2>1. wf.status \notin Ended
    BY <1>0, <1>5 DEF runStep, Writes, Reaches, Alive, AtWork, Stepping
  <2>2. wf'.status = wf.status \/ (wf.status # "cancelling" /\ wf'.status = "running")
    BY <1>5 DEF runStep, Workflow
  <2>3. wf'.status = "running" => Phase' = "open"
    BY DEF Phase
  <2> QED  BY <1>1, <1>3, <2>1, <2>2, <2>3 DEF Goal
<1>6. ASSUME NEW p \in Procs, tickDeadLettered(p)
      PROVE  Goal
  <2>1. CASE wf.status \in Ended
    BY <1>3, <1>6, <2>1 DEF tickDeadLettered, Goal
  <2>2. CASE wf.status \notin Ended
    <3>1. wf'.status = "failed" /\ step' = step
      BY <1>6, <2>2 DEF tickDeadLettered, Workflow
    <3>2. Phase' = "failed"
      BY <3>1 DEF Phase
    <3>3. Phase \in {"open", "cancelling"}
      BY <1>1, <1>2, <2>2
    <3> QED  BY <3>1, <3>2, <3>3 DEF Goal
  <2> QED  BY <2>1, <2>2
<1>7. ASSUME cancel
      PROVE  Goal
  <2>1. wf'.status = "cancelling" /\ step' = step /\ wf.status \notin Ended \union {"cancelling"}
    BY <1>7 DEF cancel, Accepts, Workflow
  <2>2. Phase' = "cancelling"
    BY <2>1 DEF Phase
  <2> QED  BY <1>1, <2>1, <2>2 DEF Goal
<1>8. ASSUME NEW p \in Procs,
             \/ acquire(p) \/ letGo(p)
             \/ suspend(p) \/ loseLease(p) \/ seeCancelled(p) \/ returns(p) \/ throws(p)
             \/ sleepStep(p) \/ waitStep(p) \/ batchStep(p) \/ findBatch(p) \/ recordBatch(p)
             \/ complete(p) \/ fail(p) \/ deadLetter(p)
      PROVE  wf'.status = wf.status
  <2>1. CASE acquire(p) \/ letGo(p)
    BY <2>1 DEF acquire, letGo, LetsGo, Workflow
  <2>2. CASE ~(acquire(p) \/ letGo(p))
    <3>1. wf' = wf
      BY <1>8, <2>2 DEF suspend, loseLease, seeCancelled, returns, throws, sleepStep, waitStep, batchStep,
                        findBatch, recordBatch, complete, fail, deadLetter, Reports
    <3> QED  BY <3>1
  <2> QED  BY <2>1, <2>2
<1>9. ASSUME \/ \E p \in Procs : renew(p) \/ storeRejects(p) \/ crash(p) \/ \E j \in Jobs : claim(p, j)
             \/ \E j \in Jobs : LapseJob(j)
             \/ LapseHold \/ Elapse \/ UNCHANGED vars
             \/ \E k \in Keys : signal(k) \/ BatchEnds(k, "succeeded") \/ BatchEnds(k, "failed")
      PROVE  wf'.status = wf.status
  BY <1>9 DEF renew, storeRejects, crash, claim, LapseJob, LapseHold, Elapse, vars, signal, BatchEnds, Workflow
<1>10. Goal
  <2>1. wf'.status = wf.status => Goal
    BY <1>3 DEF Goal
  <2> QED  BY <1>4, <1>5, <1>6, <1>7, <1>8, <1>9, <2>1 DEF Next, PassStep
<1> QED  BY <1>10 DEF Goal

(* Beside all else a workflow goes on as its contract says: a pass does    *)
(* the next step, of run() while it is open and of onCancel() once it is   *)
(* cancelled, and it completes with every step done. *)
THEOREM ContractKept == Spec => KeepsContract
<1>1. Init => Contract!Init
  <2> SUFFICES ASSUME Init PROVE Contract!Init
    OBVIOUS
  <2>1. wf.status = "running" /\ \A k \in Keys : step[k].status = "none"
    BY DEF Init, Workflow, Step
  <2>2. Ordered
    BY <2>1 DEF Ordered, Done, Resolved
  <2>3. Left("run") \in 0 .. Last /\ Left("cancel") \in 0 .. Last
    BY <2>2, LeftCounts, UndoneCounts
  <2> QED  BY <2>1, <2>3 DEF Contract!Init
<1>2. Advanced /\ Advanced' /\ [Next]_vars => [Contract!Next]_(Contract!vars)
  <2> SUFFICES ASSUME Advanced, Advanced', [Next]_vars
               PROVE  [Contract!Next]_(Contract!vars)
    OBVIOUS
  <2>1. \A mode \in Modes : /\ Left(mode) = Cardinality(Undone(mode))
                           /\ Left(mode)' = Cardinality(Undone(mode)')
    <3>1. Ordered' => \A mode \in Modes : Left(mode)' = Cardinality(Undone(mode)')
      BY NextLeft DEF LeftIsUndone
    <3> QED  BY <3>1, LeftCounts DEF Advanced
  <2>2. CASE \A mode \in Modes : Undone(mode)' = Undone(mode)
    <3>1. Left("run")' = Left("run") /\ Left("cancel")' = Left("cancel")
      BY <2>1, <2>2 DEF Modes
    <3>2. (\A k \in Keys : step[k].mode = "run" => Done(k)) => Left("run") = 0
      <4>1. (\A k \in Keys : step[k].mode = "run" => Done(k)) => Undone("run") = {}
        BY DEF Undone
      <4> QED  BY <2>1, <4>1, FS_EmptySet DEF Modes
    <3> QED
      BY <3>1, <3>2, PhaseMoves DEF Phase, Contract!vars, Contract!Next, Contract!Cancel, Contract!Complete,
            Contract!Fail, Contract!EndCancelled
  <2>3. ASSUME NEW p \in Procs, NEW k \in Keys,
               /\ PassStep(p) /\ Writes(p) /\ pass[p].stage \in Stepping
               /\ pass[p].key = k /\ k \in Undone(pass[p].mode) /\ step'[k] # step[k]
               /\ \A mode \in Modes : Undone(mode)' = IF mode = pass[p].mode THEN Undone(mode) \ {k}
                                                                         ELSE Undone(mode)
        PROVE  [Contract!Next]_(Contract!vars)
    <3>1. Phase' = Phase
      BY <2>3, PhaseMoves
    <3>2. /\ pass[p].mode \in Modes /\ wf.status \in WorkflowStatuses /\ wf.status \notin Ended
          /\ pass[p].mode = "cancel" => wf.status = "cancelling"
          /\ pass[p].mode = "run" => wf.status # "cancelling"
      BY <2>3, PassFields, RowFields DEF Advanced, Counted, TypeOK, Alive, AtWork, Writes, Stopped
    <3>3. Cardinality(Undone(pass[p].mode) \ {k}) = Cardinality(Undone(pass[p].mode)) - 1
          /\ Cardinality(Undone(pass[p].mode)) > 0
      BY <2>3, UndoneCounts
    <3>4. CASE pass[p].mode = "run"
      <4>1. Left("run")' = Left("run") - 1 /\ Left("run") > 0 /\ Left("cancel")' = Left("cancel")
        BY <2>1, <2>3, <3>3, <3>4 DEF Modes
      <4>2. Phase = "open"
        BY <3>2, <3>4 DEF Phase, WorkflowStatuses
      <4> QED  BY <3>1, <4>1, <4>2 DEF Phase, Contract!Next, Contract!Advance
    <3>5. CASE pass[p].mode = "cancel"
      <4>1. Left("cancel")' = Left("cancel") - 1 /\ Left("cancel") > 0 /\ Left("run")' = Left("run")
        BY <2>1, <2>3, <3>3, <3>5 DEF Modes
      <4>2. Phase = "cancelling"
        BY <3>2, <3>5 DEF Phase
      <4> QED  BY <3>1, <4>1, <4>2 DEF Phase, Contract!Next, Contract!CleanUp
    <3> QED  BY <3>2, <3>4, <3>5 DEF Modes
  <2> QED  BY <2>2, <2>3, UndoneMoves DEF Advanced
<1> QED  BY <1>1, <1>2, AlwaysAdvanced, PTL DEF Spec, KeepsContract, Contract!Spec

-----------------------------------------------------------------------------
(* What comes to advance the workflow.                                     *)

(* Nothing is promised of a workflow that has ended, or whose tick ran out *)
(* of attempts, or that was taken by an attempt that was given up on. *)
Over == outdated # {} \/ wf.status \in Ended \/ Buried

(* A tick job that has yet to take the workflow, or to tell its holder.    *)
Arriving == Inside \union {"report"}
Coming(j) ==
  /\ Comes(j)
  /\ \A p \in Procs : pass[p].job = j /\ Current(p) => pass[p].stage \notin Arriving

(* The pass of the newest attempt has the hold if its job has, and has let *)
(* go of it when it reports. *)
Known ==
  \A p \in Procs : pass[p].stage \in Arriving /\ Current(p) /\ wf.job = pass[p].job =>
    wf.attempt = pass[p].attempt /\ pass[p].stage # "report"

HeldComes == wf.job # NoJob => Comes(wf.job)

LetGoEnded == \A p \in Procs : pass[p].stage = "letgo" => wf.status \in Ended

(* A tick job that is pending is nobody's yet. *)
LEMMA PendingComes ==
  ASSUME NEW j \in Jobs, tick[j].at = "pending"
  PROVE  Coming(j)
BY DEF Coming, Comes, Current

(* Nor is it afterwards. *)
LEMMA PendingComesNext ==
  ASSUME NEW j \in Jobs, tick'[j].at = "pending"
  PROVE  Coming(j)'
BY DEF Coming, Comes, Current

(* What a pass reports of its job. *)
LEMMA ReportedAs ==
  ASSUME TypeOK, NEW p \in Procs, pass[p].job \in Jobs, PassStep(p), TickReported(p)
  PROVE  \/ pass[p].stage = "report" /\ tick'[pass[p].job].at # "pending"
         \/ pass[p].stage = "retry" /\ tick'[pass[p].job].at = "pending"
         \/ tick'[pass[p].job].at = "dead"
<1>1. tick \in [Jobs -> Ticks] /\ pass \in [Procs -> Passes]
  BY DEF TypeOK
<1>2. Current(p) /\ pass[p].stage \in {"report", "retry", "bury", "dead"} /\ pass'[p].stage \in {"idle", "late"}
  BY DEF TickReported
<1>3. CASE complete(p)
  BY <1>1, <1>2, <1>3 DEF complete, Reports, NoTick, Tick
<1>4. CASE fail(p)
  <2>1. CASE pass[p].attempt < TickAttempts
    BY <1>1, <1>2, <1>4, <2>1 DEF fail, Reports, Tick
  <2>2. CASE ~(pass[p].attempt < TickAttempts)
    BY <1>1, <1>2, <1>4, <2>2 DEF fail, To, Pass
  <2> QED  BY <2>1, <2>2
<1>5. CASE deadLetter(p)
  BY <1>1, <1>2, <1>5 DEF deadLetter, Tick
<1>6. CASE tickDeadLettered(p)
  <2>1. pass[p].stage = "bury" /\ To(p, "dead")
    BY <1>2, <1>6 DEF tickDeadLettered, Buries
  <2> QED  BY <1>1, <1>2, <2>1 DEF To, Pass
<1>7. CASE \/ acquire(p) \/ letGo(p) \/ suspend(p) \/ loseLease(p) \/ seeCancelled(p) \/ runStep(p)
           \/ returns(p) \/ throws(p) \/ sleepStep(p) \/ waitStep(p) \/ batchStep(p) \/ findBatch(p)
           \/ recordBatch(p) \/ finish(p)
  BY <1>2, <1>7 DEF acquire, letGo, suspend, loseLease, seeCancelled, runStep, returns, throws, sleepStep,
                    waitStep, batchStep, findBatch, recordBatch, finish, AtWrite, Reaches
<1> QED  BY <1>3, <1>4, <1>5, <1>6, <1>7 DEF PassStep

(* It stays over. *)
LEMMA OverStays ==
  ASSUME Counted, [Next]_vars, ~Over'
  PROVE  /\ ~Over
         /\ \A p \in Procs : acquire(p) => Busy(p) \/ Current(p)
<1>0. TypeOK /\ SoundPasses
  BY DEF Counted
<1>1. \A p \in Procs : acquire(p) => Busy(p) \/ Current(p)
  BY DEF acquire, Over
<1>4. outdated \subseteq outdated'
  <2>1. ASSUME NEW p \in Procs, acquire(p)
        PROVE  outdated \subseteq outdated'
    BY <2>1 DEF acquire
  <2>2. ASSUME \/ \E p \in Procs : PassStep(p) /\ ~acquire(p)
               \/ \E p \in Procs : renew(p) \/ storeRejects(p) \/ crash(p) \/ \E j \in Jobs : claim(p, j)
               \/ \E j \in Jobs : LapseJob(j)
               \/ LapseHold \/ cancel \/ Elapse \/ UNCHANGED vars
               \/ \E k \in Keys : signal(k) \/ BatchEnds(k, "succeeded") \/ BatchEnds(k, "failed")
        PROVE  outdated' = outdated
    BY <2>2 DEF PassStep, letGo, LetsGo, suspend, loseLease, seeCancelled, runStep, returns, throws,
              sleepStep, waitStep, batchStep, findBatch, recordBatch, finish, tickDeadLettered, complete,
              fail, deadLetter, Reports, renew, claim, cancel, Elapse, vars, signal, BatchEnds, LapseHold,
              LapseJob, storeRejects, crash
  <2> QED  BY <2>1, <2>2 DEF Next
<1>2. wf.status \in Ended => wf'.status \in Ended
  BY EndStays
<1>3. ASSUME NEW j \in Jobs, tick[j].at = "dead"
      PROVE  tick'[j].at = "dead"
  <2>1. CASE TickKept(j)
    BY <1>3, <2>1 DEF TickKept
  <2>2. ~TickNew(j) /\ ~LapseJob(j) /\ \A p \in Procs : ~claim(p, j)
    BY <1>3 DEF TickNew, LapseJob, claim, Claimable
  <2>3. \A p \in Procs : ~(j = pass[p].job /\ TickReported(p))
    BY <1>3 DEF TickReported, Current
  <2> QED  BY <1>0, <2>1, <2>2, <2>3, NextTicks
<1> QED  BY <1>1, <1>2, <1>3, <1>4 DEF Over, Buried

(* A pass whose attempt is the newest had it already, or was just handed   *)
(* it. *)
LEMMA CurrentFrom ==
  ASSUME Counted, [Next]_vars, NEW p \in Procs, pass'[p].stage \notin {"idle", "take", "bury"}, Current(p)'
  PROVE  /\ Current(p) /\ pass[p].stage # "idle" /\ pass[p].job \in Jobs
         /\ pass'[p].job = pass[p].job /\ pass'[p].attempt = pass[p].attempt
         /\ pass'[p] = pass[p] \/ PassStep(p) \/ storeRejects(p)
<1>0. TypeOK /\ SoundPasses /\ SoundSteps /\ IdleHasNone /\ Apart /\ pass \in [Procs -> Passes]
  BY DEF Counted, TypeOK
<1>1. \A j \in Jobs : ~claim(p, j)
  BY <1>0 DEF claim, Pass
<1>2. pass'[p] # Idle
  BY DEF Idle, Pass
<1>3. /\ pass[p].stage # "idle" /\ pass'[p].job = pass[p].job /\ pass'[p].attempt = pass[p].attempt
      /\ pass'[p] = pass[p] \/ PassStep(p) \/ storeRejects(p)
  BY <1>0, <1>1, <1>2, NextPass
<1> DEFINE j == pass[p].job
<1>4. j \in Jobs
  BY <1>0, <1>3 DEF SoundPasses, SoundPass
<1>5. tick'[j].at = "claimed" /\ tick'[j].attempt = pass[p].attempt
  BY <1>3 DEF Current
<1>6. CASE TickKept(j)
  BY <1>3, <1>4, <1>5, <1>6 DEF TickKept, Current
<1>7. CASE LapseJob(j)
  BY <1>0, <1>3, <1>4, <1>5, <1>7 DEF LapseJob, Tick, Current, TypeOK
<1>8. ASSUME NEW q \in Procs, claim(q, j)
      PROVE  FALSE
  <2>1. q # p
    BY <1>1, <1>4, <1>8
  <2>2. Apart'
    BY <1>0, ApartStays
  <2>3. pass'[q].job = j /\ pass'[q].attempt = tick[j].attempt + 1 /\ tick'[j].attempt = tick[j].attempt + 1
    BY <1>0, <1>4, <1>8 DEF claim, Pass, Tick, TypeOK
  <2>4. pass'[p].attempt = pass'[q].attempt /\ pass'[p].job = pass'[q].job
    BY <1>3, <1>5, <2>3
  <2> QED  BY <2>1, <2>2, <2>4 DEF Apart
<1>9. ~TickNew(j) /\ \A q \in Procs : ~(j = pass[q].job /\ TickReported(q))
  BY <1>5 DEF TickNew, TickReported
<1> QED  BY <1>0, <1>3, <1>4, <1>6, <1>7, <1>8, <1>9, NextTicks

(* A pass that takes a workflow that has not ended is at work. *)
LEMMA TakesToWork ==
  ASSUME TypeOK, SoundPasses, SoundSteps, NEW p \in Procs, acquire(p), ~Busy(p), wf.status \notin Ended
  PROVE  pass'[p].stage \in AtWork
<1> DEFINE mode == IF wf.status = "cancelling" THEN "cancel" ELSE "run"
           cached == [k \in Keys |-> step[k].status]
           o == Pass(pass[p].job, pass[p].attempt, "letgo", mode, 0, cached, "none")
           r == Arrived(o, 1)
<1>1. pass \in [Procs -> Passes] /\ pass[p].job \in Jobs /\ pass[p].attempt \in Nat
      /\ "letgo" \in Stages /\ mode \in Modes
  BY PassFields DEF acquire, TypeOK, SoundPasses, SoundPass, Stages, Modes
<1>2. pass'[p] = r
  BY <1>1 DEF acquire
<1>3. cached \in [Keys -> StepStatuses]
  BY RowFields DEF TypeOK
<1>4. \A k \in Keys : SoundStatus(step[k].kind, cached[k])
  BY DEF SoundSteps, SoundStep
<1> HIDE DEF cached, mode
<1>5. o \in Passes
  BY <1>1, <1>3, PassType
<1>6. o.job = pass[p].job /\ o.cached = cached
  BY DEF Pass
<1> HIDE DEF o
<1>7. r.stage \in {"steps", "look", "finish"}
  BY <1>1, <1>4, <1>5, <1>6, Arrives
<1> HIDE DEF r
<1> QED  BY <1>2, <1>7 DEF AtWork, Stepping

(* From where a pass comes to report. *)
LEMMA ReportsFrom ==
  ASSUME Counted, NEW p \in Procs, PassStep(p) \/ storeRejects(p), pass'[p].stage = "report",
         pass[p].stage # "report"
  PROVE  letGo(p) \/ finish(p) \/ loseLease(p) \/ (acquire(p) /\ Busy(p))
<1>0. TypeOK /\ SoundPasses /\ SoundSteps /\ pass \in [Procs -> Passes]
  BY DEF Counted, TypeOK
<1>1. pass'[p].stage \notin AtWork /\ "report" \notin Stepping
  BY DEF AtWork, Stepping
<1>2. \A stage : To(p, stage) \/ Leaves(p, stage) => pass'[p].stage = stage
  BY <1>0 DEF To, Leaves, Pass
<1>3. pass' # [pass EXCEPT ![p] = Idle]
  BY <1>0 DEF Idle, Pass
<1>4. \A outcome : ~Finishes(p, outcome)
  BY <1>0 DEF Finishes, Pass
<1>5. GoesOn(p) => pass[p].stage \notin Stepping
  <2> SUFFICES ASSUME GoesOn(p), pass[p].stage \in Stepping PROVE FALSE
    OBVIOUS
  <2> DEFINE r == Arrived(pass[p], pass[p].key + 1)
  <2>1. pass[p] \in Passes /\ pass[p].key \in Nat /\ pass[p].key + 1 \in Nat
    BY <1>0, PassFields
  <2>2. pass[p].job \in Jobs /\ \A k \in Keys : SoundStatus(step[k].kind, pass[p].cached[k])
    BY <1>0 DEF SoundPasses, SoundPass, Stepping
  <2>3. r.stage \in {"steps", "look", "finish"}
    BY <1>0, <2>1, <2>2, Arrives
  <2>4. pass'[p] = r
    BY <1>0 DEF GoesOn
  <2> HIDE DEF r
  <2> QED  BY <2>3, <2>4
<1>6. ~(runStep(p) \/ returns(p) \/ throws(p) \/ suspend(p) \/ seeCancelled(p) \/ sleepStep(p) \/ waitStep(p)
        \/ batchStep(p) \/ findBatch(p) \/ recordBatch(p))
  BY <1>2, <1>4, <1>5 DEF runStep, returns, throws, suspend, seeCancelled, sleepStep, waitStep, batchStep,
                          findBatch, recordBatch, Reaches, Stepping
<1>7. ~(tickDeadLettered(p) \/ fail(p) \/ deadLetter(p) \/ complete(p))
  BY <1>2, <1>3 DEF tickDeadLettered, Buries, fail, deadLetter, complete, Reports
<1>8. ~storeRejects(p)
  BY <1>2, <1>3, <1>4 DEF storeRejects, Buries
<1>9. ASSUME acquire(p), ~Busy(p)
      PROVE  FALSE
  <2>1. Takes(p)
    BY <1>9 DEF acquire, Takes
  <2>2. CASE wf.status \in Ended
    BY <1>2, <1>9, <2>2 DEF acquire
  <2>3. CASE wf.status \notin Ended
    BY <1>0, <1>1, <1>9, <2>3, TakesToWork
  <2> QED  BY <2>2, <2>3
<1> QED  BY <1>6, <1>7, <1>8, <1>9 DEF PassStep

(* A pass comes to be inside, or to report, by taking the workflow or by   *)
(* finding it held. *)
LEMMA ArrivesBy ==
  ASSUME Counted, NEW p \in Procs, PassStep(p) \/ storeRejects(p),
         pass'[p].stage \in Arriving, pass[p].stage \notin Arriving
  PROVE  acquire(p)
<1>0. TypeOK /\ SoundPasses /\ pass \in [Procs -> Passes]
  BY DEF Counted, TypeOK
<1>1. CASE pass'[p].stage \in AtWork
  BY <1>0, <1>1, StaysAtWork DEF Arriving, Inside, Stepping
<1>2. CASE pass'[p].stage = "report"
  <2>1. ~letGo(p) /\ ~finish(p)
    BY DEF letGo, finish, Arriving, Inside
  <2>2. ~loseLease(p)
    BY DEF loseLease, AtWrite, Reaches, Arriving, Inside
  <2> QED  BY <1>2, <2>1, <2>2, ReportsFrom DEF Arriving
<1>3. CASE pass'[p].stage = "letgo"
  <2>1. ~(letGo(p) \/ suspend(p) \/ loseLease(p) \/ seeCancelled(p) \/ runStep(p) \/ returns(p) \/ throws(p)
          \/ sleepStep(p) \/ waitStep(p) \/ batchStep(p) \/ findBatch(p) \/ recordBatch(p) \/ finish(p))
    BY DEF letGo, suspend, loseLease, seeCancelled, runStep, returns, throws, sleepStep, waitStep, batchStep,
           findBatch, recordBatch, finish, AtWrite, Reaches, Arriving, Inside
  <2>2. \A stage : To(p, stage) \/ Leaves(p, stage) => pass'[p].stage = stage
    BY <1>0 DEF To, Leaves, Pass
  <2>3. pass' # [pass EXCEPT ![p] = Idle]
    BY <1>0, <1>3 DEF Idle, Pass
  <2>4. \A outcome : ~Finishes(p, outcome)
    BY <1>0, <1>3 DEF Finishes, Pass
  <2>5. ~(tickDeadLettered(p) \/ complete(p) \/ fail(p) \/ deadLetter(p) \/ storeRejects(p))
    BY <1>3, <2>2, <2>3, <2>4 DEF tickDeadLettered, Buries, complete, fail, deadLetter, Reports, storeRejects
  <2> QED  BY <2>1, <2>5 DEF PassStep
<1> QED  BY <1>1, <1>2, <1>3 DEF Arriving, Inside, AtWork, Stepping

(* A pass that takes the workflow goes to work, or to let go of one that   *)
(* has ended. *)
LEMMA TakesTo ==
  ASSUME Counted, NEW p \in Procs, acquire(p), ~Busy(p)
  PROVE  /\ Takes(p)
         /\ \/ wf.status \notin Ended /\ pass'[p].stage \in AtWork
            \/ wf.status \in Ended /\ pass'[p].stage = "letgo"
<1>1. Takes(p)
  BY DEF acquire, Takes
<1>2. CASE wf.status \in Ended
  BY <1>1, <1>2 DEF acquire, Leaves, Pass, Counted, TypeOK
<1>3. CASE wf.status \notin Ended
  BY <1>1, <1>3, TakesToWork DEF Counted
<1> QED  BY <1>1, <1>2, <1>3

(* Who lets go of the workflow was known to have it. *)
LEMMA KnownStays ==
  ASSUME Counted, Known, [Next]_vars, ~Over'
  PROVE  Known'
<1> SUFFICES ASSUME NEW p \in Procs, pass'[p].stage \in Arriving, Current(p)', wf'.job = pass'[p].job
             PROVE  wf'.attempt = pass'[p].attempt /\ pass'[p].stage # "report"
  BY DEF Known
<1>0. TypeOK /\ SoundPasses /\ SoundSteps /\ IdleHasNone /\ Apart
  BY DEF Counted
<1>1. pass'[p].stage \notin {"idle", "take", "bury"}
  BY DEF Arriving, Inside
<1>2. /\ Current(p) /\ pass[p].stage # "idle" /\ pass[p].job \in Jobs
      /\ pass'[p].job = pass[p].job /\ pass'[p].attempt = pass[p].attempt
      /\ pass'[p] = pass[p] \/ PassStep(p) \/ storeRejects(p)
  BY <1>1, CurrentFrom
<1>3. wf'.job # NoJob
  BY <1>2, WorkflowAssumption
<1>4. ASSUME Takes(p)
      PROVE  wf'.attempt = pass'[p].attempt /\ pass'[p].stage # "report"
  <2>1. wf'.attempt = pass[p].attempt
    BY <1>4 DEF Takes, Workflow
  <2>2. pass'[p].stage \in AtWork \union {"letgo"}
    BY <1>4, TakesTo DEF Takes
  <2> QED  BY <1>2, <2>1, <2>2 DEF AtWork, Stepping
<1>5. ASSUME NEW q \in Procs, q # p, Takes(q)
      PROVE  FALSE
  <2>1. wf'.job = pass[q].job /\ acquire(q) /\ ~Busy(q)
    BY <1>5 DEF Takes, Workflow
  <2>2. Current(q)
    BY <2>1, OverStays
  <2>3. pass[q].job = pass[p].job /\ pass[q].attempt = pass[p].attempt
    BY <1>2, <2>1, <2>2 DEF Current
  <2> QED  BY <1>0, <1>2, <1>5, <2>3 DEF Apart
<1>6. CASE HoldKept /\ ~Takes(p)
  <2>1. wf.job = pass[p].job
    BY <1>2, <1>6 DEF HoldKept
  <2>2. ~acquire(p)
    BY <1>6, <2>1, TakesTo DEF Busy
  <2>3. pass[p].stage \in Arriving
    BY <1>2, <2>2, ArrivesBy
  <2>4. wf.attempt = pass[p].attempt /\ pass[p].stage # "report"
    BY <1>2, <2>1, <2>3 DEF Known
  <2>5. ASSUME pass'[p].stage = "report"
        PROVE  FALSE
    <3>1. letGo(p) \/ finish(p) \/ loseLease(p)
      BY <1>2, <2>2, <2>4, <2>5, ReportsFrom
    <3>2. ~loseLease(p)
      BY <2>1, <2>4 DEF loseLease, Holds
    <3>3. letGo(p) \/ finish(p) => wf'.job = NoJob
      BY DEF letGo, finish, LetsGo, Workflow
    <3> QED  BY <1>3, <3>1, <3>2, <3>3
  <2> QED  BY <1>2, <1>6, <2>4, <2>5 DEF HoldKept
<1> QED  BY <1>0, <1>3, <1>4, <1>5, <1>6, NextHold

(* The job that has the workflow is in the queue. *)
LEMMA HeldComesStays ==
  ASSUME Counted, Known, HeldComes, [Next]_vars, ~Over'
  PROVE  HeldComes'
<1> SUFFICES ASSUME wf'.job # NoJob
             PROVE  tick'[wf'.job].at \in {"pending", "claimed"}
  BY DEF HeldComes, Comes
<1>0. TypeOK /\ SoundPasses
  BY DEF Counted
<1>1. CASE HoldKept
  <2> DEFINE own == wf.job
  <2>1. own \in Jobs /\ wf'.job = own /\ tick[own].at \in {"pending", "claimed"}
    BY <1>0, <1>1, RowFields DEF HoldKept, HeldComes, Comes, TypeOK
  <2>2. TickKept(own) => tick'[own].at = tick[own].at
    BY DEF TickKept
  <2>3. LapseJob(own) => tick'[own].at = "claimed"
    BY <1>0, <2>1 DEF LapseJob, Tick, TypeOK
  <2>4. ~TickNew(own)
    BY <2>1 DEF TickNew
  <2>5. ASSUME NEW p \in Procs, claim(p, own)
        PROVE  tick'[own].at = "claimed"
    BY <1>0, <2>1, <2>5 DEF claim, Tick, TypeOK
  <2>6. ASSUME NEW p \in Procs, PassStep(p), own = pass[p].job, TickReported(p)
        PROVE  tick'[own].at = "pending"
    <3>1. pass[p].stage = "report" \/ tick'[own].at \in {"pending", "dead"}
      BY <1>0, <2>1, <2>6, ReportedAs
    <3>2. tick'[own].at # "dead"
      BY <2>1 DEF Over, Buried
    <3>3. Current(p)
      BY <2>6 DEF TickReported
    <3>4. pass[p].stage # "report"
      BY <2>6, <3>3 DEF Known, Arriving
    <3> QED  BY <3>1, <3>2, <3>4
  <2> HIDE DEF own
  <2> QED  BY <1>0, <2>1, <2>2, <2>3, <2>4, <2>5, <2>6, NextTicks
<1>2. ASSUME NEW p \in Procs, Takes(p)
      PROVE  tick'[wf'.job].at = "claimed"
  <2>1. Current(p)
    BY <1>2, OverStays DEF Takes
  <2>2. wf'.job = pass[p].job /\ tick' = tick
    BY <1>2 DEF Takes, acquire, Workflow
  <2> QED  BY <2>1, <2>2 DEF Current
<1> QED  BY <1>0, <1>1, <1>2, NextHold

(* A tick job that comes goes on to come until it acquires the workflow.   *)
LEMMA ComingStays ==
  ASSUME Counted, [Next]_vars, ~Over', NEW j \in Jobs, Coming(j),
         \A q \in Procs : acquire(q) /\ Current(q) => pass[q].job # j
  PROVE  Coming(j)'
<1>0. TypeOK /\ SoundPasses
  BY DEF Counted
<1>1. tick[j].at \in {"pending", "claimed"}
  BY DEF Coming, Comes
<1>2. tick'[j].at \in {"pending", "claimed"}
  <2>1. TickKept(j) => tick'[j].at = tick[j].at
    BY DEF TickKept
  <2>2. LapseJob(j) => tick'[j].at = "claimed"
    BY <1>0 DEF LapseJob, Tick, TypeOK
  <2>3. ~TickNew(j)
    BY <1>1 DEF TickNew
  <2>4. ASSUME NEW p \in Procs, claim(p, j)
        PROVE  tick'[j].at = "claimed"
    BY <1>0, <2>4 DEF claim, Tick, TypeOK
  <2>5. ASSUME NEW p \in Procs, PassStep(p), j = pass[p].job, TickReported(p)
        PROVE  tick'[j].at = "pending"
    <3>1. pass[p].stage = "report" \/ tick'[j].at \in {"pending", "dead"}
      BY <1>0, <2>5, ReportedAs
    <3>2. tick'[j].at # "dead"
      BY DEF Over, Buried
    <3>3. pass[p].stage # "report"
      BY <2>5 DEF TickReported, Coming, Arriving
    <3> QED  BY <3>1, <3>2, <3>3
  <2> QED  BY <1>0, <1>1, <2>1, <2>2, <2>3, <2>4, <2>5, NextTicks
<1>3. ASSUME NEW p \in Procs, pass'[p].job = j, Current(p)', pass'[p].stage \in Arriving
      PROVE  FALSE
  <2>1. pass'[p].stage \notin {"idle", "take", "bury"}
    BY <1>3 DEF Arriving, Inside
  <2>2. /\ Current(p) /\ pass'[p].job = pass[p].job
        /\ pass'[p] = pass[p] \/ PassStep(p) \/ storeRejects(p)
    BY <1>3, <2>1, CurrentFrom
  <2>3. pass[p].stage \notin Arriving
    BY <1>3, <2>2 DEF Coming
  <2>4. acquire(p)
    BY <1>3, <2>2, <2>3, ArrivesBy
  <2> QED  BY <1>3, <2>2, <2>4
<1> QED  BY <1>2, <1>3 DEF Coming, Comes

(* A pass that has only to let go found a workflow that had ended. *)
LEMMA LetGoEndedStays ==
  ASSUME Counted, LetGoEnded, [Next]_vars
  PROVE  LetGoEnded'
<1> SUFFICES ASSUME NEW p \in Procs, pass'[p].stage = "letgo"
             PROVE  wf'.status \in Ended
  BY DEF LetGoEnded
<1>0. TypeOK /\ SoundPasses /\ SoundSteps
  BY DEF Counted
<1>1. wf.status \in Ended => wf'.status \in Ended
  BY EndStays
<1>2. CASE pass[p].stage = "letgo"
  BY <1>1, <1>2 DEF LetGoEnded
<1>3. CASE pass[p].stage # "letgo"
  <2>1. pass'[p] # pass[p] /\ pass'[p] # Idle
    BY <1>3 DEF Idle, Pass
  <2>2. \A j \in Jobs : ~claim(p, j)
    BY <1>0 DEF claim, Pass, TypeOK
  <2>3. PassStep(p) \/ storeRejects(p)
    BY <1>0, <2>1, <2>2, NextPass
  <2>4. acquire(p)
    <3>1. CASE pass[p].stage \in Arriving
      <4>1. \A stage : To(p, stage) \/ Leaves(p, stage) => pass'[p].stage = stage
        BY <1>0 DEF To, Leaves, Pass, TypeOK
      <4>2. pass' # [pass EXCEPT ![p] = Idle]
        BY <1>0 DEF Idle, Pass, TypeOK
      <4>3. \A outcome : ~Finishes(p, outcome)
        BY <1>0 DEF Finishes, Pass, TypeOK
      <4>4. GoesOn(p) => pass[p].stage \notin Stepping
        <5> SUFFICES ASSUME GoesOn(p), pass[p].stage \in Stepping PROVE FALSE
          OBVIOUS
        <5> DEFINE r == Arrived(pass[p], pass[p].key + 1)
        <5>1. pass[p] \in Passes /\ pass[p].key \in Nat /\ pass[p].key + 1 \in Nat
          BY <1>0, PassFields DEF TypeOK
        <5>2. pass[p].job \in Jobs /\ \A k \in Keys : SoundStatus(step[k].kind, pass[p].cached[k])
          BY <1>0 DEF SoundPasses, SoundPass, Stepping
        <5>3. r.stage \in {"steps", "look", "finish"}
          BY <1>0, <5>1, <5>2, Arrives
        <5>4. pass'[p] = r
          BY <1>0 DEF GoesOn, TypeOK
        <5> HIDE DEF r
        <5> QED  BY <5>3, <5>4
      <4>5. ~(runStep(p) \/ returns(p) \/ throws(p) \/ suspend(p) \/ seeCancelled(p) \/ sleepStep(p) \/ waitStep(p)
              \/ batchStep(p) \/ findBatch(p) \/ recordBatch(p))
        BY <4>1, <4>3, <4>4 DEF runStep, returns, throws, suspend, seeCancelled, sleepStep, waitStep, batchStep,
                                findBatch, recordBatch, Reaches, Stepping
      <4>6. ~(tickDeadLettered(p) \/ fail(p) \/ deadLetter(p) \/ complete(p) \/ letGo(p) \/ finish(p) \/ loseLease(p))
        BY <4>1, <4>2 DEF tickDeadLettered, Buries, fail, deadLetter, complete, Reports, letGo, finish, LetsGo,
                          loseLease
      <4>7. ~storeRejects(p)
        BY <4>1, <4>2, <4>3 DEF storeRejects, Buries
      <4> QED  BY <2>3, <4>5, <4>6, <4>7 DEF PassStep
    <3>2. CASE pass[p].stage \notin Arriving
      BY <2>3, <3>2, ArrivesBy DEF Arriving, Inside
    <3> QED  BY <3>1, <3>2
  <2>5. ~Busy(p)
    BY <1>0, <2>4 DEF acquire, Leaves, Pass, TypeOK
  <2> QED  BY <1>1, <2>4, <2>5, TakesTo DEF AtWork, Stepping
<1> QED  BY <1>2, <1>3

-----------------------------------------------------------------------------
(* What the rows of the steps say.                                         *)

(* What a pass may record of a step. *)
Recorded(k, status) ==
  \/ step[k].kind = "run" /\ status \in {"running", "completed", "failed", "retrying"}
  \/ step[k].kind = "sleep" /\ status \in {"sleeping", "completed"}
  \/ step[k].kind = "wait" /\ status \in {"waiting", "completed"}
  \/ step[k].kind = "timed" /\ status \in {"waiting", "completed", "timed_out"}
  \/ step[k].kind = "batch" /\ status \in {"batching", "completed", "failed"}

(* Which is all that it does to them. *)
LEMMA RecordsOf ==
  ASSUME Counted, NEW p \in Procs, PassStep(p), ~UNCHANGED <<step, batch>>
  PROVE  /\ Writes(p) /\ pass[p].stage \in Stepping /\ pass[p].key \in Keys
         /\ \A k \in Keys : k # pass[p].key => step'[k] = step[k] /\ batch'[k] = batch[k]
         /\ step'[pass[p].key] = step[pass[p].key] \/ Recorded(pass[p].key, step'[pass[p].key].status)
         /\ step'[pass[p].key].status = "batching" => batch'[pass[p].key] = "going"
         /\ step[pass[p].key].kind = "wait" => Reaches(p, {"wait", "timed"})
<1>0. TypeOK /\ SoundPasses /\ step \in [Keys -> StepRows] /\ SoundPass(pass[p], step)
      /\ batch \in [Keys -> {"none", "going", "cancelled", "succeeded", "failed"}]
  BY DEF Counted, TypeOK, SoundPasses
<1>1. /\ Writes(p) /\ pass[p].stage \in Stepping
      /\ \A k \in Keys : k # pass[p].key => step'[k] = step[k] /\ batch'[k] = batch[k]
  BY <1>0, StepWrites
<1>2. PICK k : k = pass[p].key
  OBVIOUS
<1>3. k \in Keys
  BY <1>0, <1>1, <1>2 DEF SoundPass
<1> DEFINE Goal == /\ step'[k] = step[k] \/ Recorded(k, step'[k].status)
                   /\ step'[k].status = "batching" => batch'[k] = "going"
                   /\ step[k].kind = "wait" => Reaches(p, {"wait", "timed"})
<1>4. \A status, attempt, wakeAt : Records(k, status, attempt, wakeAt) => step'[k].status = status
  BY <1>0, <1>3 DEF Records, Step
<1>5. pass[p].stage = "exec" => step[k].kind = "run"
  BY <1>0, <1>2 DEF SoundPass
<1>6. pass[p].stage = "record" => step[k].kind = "batch"
  BY <1>0, <1>2 DEF SoundPass
<1> SUFFICES Goal
  BY <1>1, <1>2, <1>3
<1>7. CASE runStep(p)
  <2>1. step[k].kind = "run"
    BY <1>2, <1>7 DEF runStep, Reaches
  <2>2. step'[k].status \in {"running", "failed"}
    <3>1. CASE MayRun(k)
      BY <1>0, <1>2, <1>3, <1>7, <3>1 DEF runStep, began, Step
    <3>2. CASE ~MayRun(k)
      BY <1>2, <1>4, <1>7, <3>2 DEF runStep
    <3> QED  BY <3>1, <3>2
  <2> QED  BY <2>1, <2>2 DEF Recorded
<1>8. CASE returns(p) \/ throws(p)
  <2>1. step[k].kind = "run"
    BY <1>5, <1>8 DEF returns, throws
  <2>2. step'[k].status \in {"completed", "failed", "retrying"}
    BY <1>2, <1>4, <1>8 DEF returns, throws
  <2> QED  BY <2>1, <2>2 DEF Recorded
<1>9. CASE sleepStep(p)
  <2>1. step[k].kind = "sleep"
    BY <1>2, <1>9 DEF sleepStep, Reaches
  <2>2. step'[k].status \in {"sleeping", "completed"}
    BY <1>2, <1>4, <1>9 DEF sleepStep
  <2> QED  BY <2>1, <2>2 DEF Recorded
<1>10. CASE waitStep(p)
  <2>1. step[k].kind \in {"wait", "timed"} /\ Reaches(p, {"wait", "timed"})
    BY <1>2, <1>10 DEF waitStep, Reaches
  <2>2. \/ step' = step
        \/ step'[k].status \in {"completed", "waiting"}
        \/ step'[k].status = "timed_out" /\ step[k].kind = "timed"
    BY <1>2, <1>4, <1>10 DEF waitStep, timedOut
  <2>3. step' = step => step'[k].status # "batching"
    BY <1>0, <1>3, <2>1 DEF Counted, SoundSteps, SoundStep, SoundStatus
  <2> QED  BY <2>1, <2>2, <2>3 DEF Recorded
<1>11. CASE batchStep(p)
  <2>1. step[k].kind = "batch"
    BY <1>2, <1>11 DEF batchStep, Reaches
  <2>2. step'[k].status = "batching" /\ batch'[k] = "going"
    BY <1>0, <1>2, <1>3, <1>4, <1>11 DEF batchStep
  <2> QED  BY <2>1, <2>2 DEF Recorded
<1>12. CASE recordBatch(p)
  <2>1. step[k].kind = "batch"
    BY <1>6, <1>12 DEF recordBatch
  <2>2. step'[k].status \in {"completed", "failed"}
    BY <1>2, <1>4, <1>12 DEF recordBatch
  <2> QED  BY <2>1, <2>2 DEF Recorded
<1>13. CASE \/ acquire(p) \/ letGo(p) \/ suspend(p) \/ loseLease(p) \/ seeCancelled(p)
            \/ findBatch(p) \/ finish(p) \/ tickDeadLettered(p) \/ complete(p) \/ fail(p)
            \/ deadLetter(p)
  BY <1>13 DEF acquire, letGo, LetsGo, suspend, loseLease, seeCancelled, findBatch, finish,
               tickDeadLettered, complete, fail, deadLetter, Reports
<1> QED
  BY <1>7, <1>8, <1>9, <1>10, <1>11, <1>12, <1>13 DEF PassStep

(* How the status of a step, and its batch, change otherwise. *)
LEMMA RowMoves ==
  ASSUME Counted, [Next]_vars, NEW k \in Keys, \A p \in Procs : PassStep(p) => UNCHANGED <<step, batch>>
  PROVE  /\ step'[k].status = step[k].status \/ (signal(k) /\ step'[k].status = "signalled")
         /\ \/ batch'[k] = batch[k] \/ (batch[k] = "going" /\ batch'[k] = "cancelled" /\ cancel)
            \/ BatchEnds(k, "succeeded") \/ BatchEnds(k, "failed")
<1>0. step \in [Keys -> StepRows]
      /\ batch \in [Keys -> {"none", "going", "cancelled", "succeeded", "failed"}]
  BY DEF Counted, TypeOK
<1>1. ASSUME \/ \E p \in Procs : renew(p) \/ storeRejects(p) \/ crash(p) \/ \E j \in Jobs : claim(p, j)
             \/ \E j \in Jobs : LapseJob(j)
             \/ LapseHold \/ UNCHANGED vars
             \/ \E p \in Procs : PassStep(p)
      PROVE  step' = step /\ batch' = batch
  BY <1>1 DEF renew, storeRejects, crash, claim, LapseJob, LapseHold, vars
<1>2. ASSUME Elapse
      PROVE  step'[k].status = step[k].status /\ batch' = batch
  BY <1>2 DEF Elapse, Step
<1>3. ASSUME NEW i \in Keys, signal(i)
      PROVE  batch' = batch /\ (step'[k].status = step[k].status \/ (k = i /\ step'[k].status = "signalled"))
  BY <1>0, <1>3 DEF signal, Records, Step
<1>4. ASSUME cancel
      PROVE  step' = step /\ (batch'[k] = batch[k] \/ (batch[k] = "going" /\ batch'[k] = "cancelled"))
  BY <1>0, <1>4 DEF cancel, batchCancelled
<1>5. ASSUME NEW i \in Keys, BatchEnds(i, "succeeded") \/ BatchEnds(i, "failed")
      PROVE  step' = step /\ (i # k => batch'[k] = batch[k])
  BY <1>0, <1>5 DEF BatchEnds
<1> QED  BY <1>1, <1>2, <1>3, <1>4, <1>5 DEF Next

(* A wait without a timeout has no statuses but these; what a step waits   *)
(* for was dispatched. *)
Waits == \A k \in Keys : step[k].kind = "wait" => step[k].status \in {"none", "waiting", "signalled", "completed"}
BatchThere == \A k \in Keys : step[k].status = "batching" => batch[k] # "none"

(* They stay so. *)
LEMMA RowsStay ==
  ASSUME Counted, Waits, BatchThere, [Next]_vars
  PROVE  Waits' /\ BatchThere'
<1>0. TypeOK /\ SoundPasses /\ step \in [Keys -> StepRows]
  BY DEF Counted, TypeOK
<1>1. \A k \in Keys : step'[k].kind = step[k].kind
  BY <1>0, KindsStay DEF SameKinds
<1> SUFFICES ASSUME NEW k \in Keys
             PROVE  /\ step[k].kind = "wait" => step'[k].status \in {"none", "waiting", "signalled", "completed"}
                    /\ step'[k].status = "batching" => batch'[k] # "none"
  BY <1>1 DEF Waits, BatchThere
<1>2. /\ step[k].kind = "wait" => step[k].status \in {"none", "waiting", "signalled", "completed"}
      /\ step[k].status = "batching" => batch[k] # "none"
  BY DEF Waits, BatchThere
<1>3. CASE \A p \in Procs : PassStep(p) => UNCHANGED <<step, batch>>
  <2>1. step'[k].status \in {step[k].status, "signalled"}
    BY <1>3, RowMoves
  <2>2. batch[k] # "none" => batch'[k] # "none"
    BY <1>3, RowMoves DEF BatchEnds, Counted, TypeOK
  <2> QED  BY <1>2, <2>1, <2>2
<1>4. ASSUME NEW p \in Procs, PassStep(p), ~UNCHANGED <<step, batch>>
      PROVE  /\ step[k].kind = "wait" => step'[k].status \in {"none", "waiting", "signalled", "completed"}
             /\ step'[k].status = "batching" => batch'[k] # "none"
  <2>1. CASE k # pass[p].key
    BY <1>2, <1>4, <2>1, RecordsOf
  <2>2. CASE k = pass[p].key
    BY <1>2, <1>4, <2>2, RecordsOf DEF Recorded
  <2> QED  BY <2>1, <2>2
<1> QED  BY <1>3, <1>4

(* What going on leads to. *)
LEMMA ArrivesLooking ==
  ASSUME NEW q, NEW from
  PROVE  LET r == Arrived(q, from) IN
           /\ r.stage \in {"steps", "look", "finish"}
           /\ r.stage = "look" => q.cached[r.key] = "batching" /\ r.cached = q.cached
           /\ r.stage = "finish" => r.outcome \in {"completed", "failed"}
<1> DEFINE left == {k \in StepsOf(q.mode) : k >= from /\ q.cached[k] \notin Resolved}
           next == CHOOSE k \in left : \A i \in left : k <= i
           Ends(key, outcome) == Pass(q.job, q.attempt, "finish", q.mode, key, Idle.cached, outcome)
           At(stage) == Pass(q.job, q.attempt, stage, q.mode, next, q.cached, "none")
<1>1. \A job, attempt, stage, mode, key, cached, outcome :
        LET r == Pass(job, attempt, stage, mode, key, cached, outcome) IN
          r.stage = stage /\ r.key = key /\ r.cached = cached /\ r.outcome = outcome
  BY DEF Pass
<1>2. \/ Arrived(q, from) = Ends(q.key, "completed")
      \/ Arrived(q, from) = Ends(next, "failed")
      \/ q.cached[next] = "batching" /\ Arrived(q, from) = At("look")
      \/ Arrived(q, from) = At("steps")
  BY DEF Arrived
<1> HIDE DEF next, left
<1> QED  BY <1>1, <1>2

-----------------------------------------------------------------------------
(* What a pass with the hold goes by.                                      *)

(* A pass that looks at a batch is at a step that waits for it. *)
Looking ==
  \A p \in Procs : pass[p].stage \in {"look", "record"} /\ Holds(p) => step[pass[p].key].status = "batching"

(* How a pass is found to be at a step: it took the workflow, it is where  *)
(* it was, or it went on. *)
LEMMA TakenAs ==
  ASSUME Counted, NEW p \in Procs, Takes(p), pass'[p].stage \in AtWork
  PROVE  /\ step' = step /\ batch' = batch /\ tick' = tick
         /\ pass'[p].stage \in Stepping => pass'[p].cached = [k \in Keys |-> step[k].status]
         /\ pass'[p].stage \in {"steps", "look", "finish"}
         /\ pass'[p].stage = "look" => pass'[p].cached[pass'[p].key] = "batching"
         /\ pass'[p].stage = "finish" => pass'[p].outcome \in {"completed", "failed"}
<1>0. TypeOK /\ SoundPasses /\ SoundSteps
  BY DEF Counted
<1>1. /\ step' = step /\ wf.status \notin Ended
      /\ pass'[p].stage \in Stepping => pass'[p].cached = [k \in Keys |-> step[k].status]
  BY <1>0, Found
<1>2. batch' = batch /\ tick' = tick
  BY DEF Takes, acquire
<1>3. PICK q : pass'[p] = Arrived(q, 1)
  <2> DEFINE q == Pass(pass[p].job, pass[p].attempt, "letgo",
                       IF wf.status = "cancelling" THEN "cancel" ELSE "run", 0,
                       [k \in Keys |-> step[k].status], "none")
  <2>1. pass' = [pass EXCEPT ![p] = Arrived(q, 1)]
    BY <1>1 DEF Takes, acquire
  <2>2. pass'[p] = Arrived(q, 1)
    BY <1>0, <2>1 DEF TypeOK
  <2> QED  BY <2>2
<1>4. /\ pass'[p].stage \in {"steps", "look", "finish"}
      /\ pass'[p].stage = "look" => pass'[p].cached[pass'[p].key] = "batching"
      /\ pass'[p].stage = "finish" => pass'[p].outcome \in {"completed", "failed"}
  BY <1>3, ArrivesLooking
<1> QED  BY <1>1, <1>2, <1>4

(* It goes on to wait while the pass looks: only that pass records it. *)
LEMMA LookingStays ==
  ASSUME Counted, Looking, [Next]_vars
  PROVE  Looking'
<1> SUFFICES ASSUME NEW p \in Procs, pass'[p].stage \in {"look", "record"}, Holds(p)'
             PROVE  step'[pass'[p].key].status = "batching"
  BY DEF Looking
<1>0. TypeOK /\ SoundPasses /\ SoundSteps /\ IdleHasNone /\ Apart /\ SoundPasses' /\ pass \in [Procs -> Passes]
  BY CountedStays DEF Counted, TypeOK
<1>1. pass'[p].stage \in AtWork /\ pass'[p].stage \in Stepping
  BY DEF AtWork, Stepping
<1>2. PICK k : k = pass'[p].key
  OBVIOUS
<1>3. k \in Keys /\ step'[k].kind = "batch" /\ step[k].kind = "batch"
  BY <1>0, <1>1, <1>2, KindsStay DEF SoundPasses, SoundPass, SameKinds
<1>4. CASE Takes(p)
  <2>1. /\ step' = step /\ pass'[p].cached = [i \in Keys |-> step[i].status] /\ pass'[p].stage = "look"
        /\ pass'[p].cached[k] = "batching"
    BY <1>1, <1>2, <1>4, TakenAs
  <2> QED  BY <1>2, <1>3, <2>1
<1>5. CASE ~Takes(p)
  <2>1. Holds(p) /\ pass[p].stage \in AtWork
        /\ (pass'[p] = pass[p] \/ ((PassStep(p) \/ storeRejects(p)) /\ ~acquire(p)))
    BY <1>0, <1>1, <1>5, TookOrHeld
  <2>2. CASE ~PassStep(p)
    <3>1. pass'[p] = pass[p]
      BY <1>0, <2>1, <2>2 DEF storeRejects, Finishes, Leaves, Buries, To, Pass, Idle
    <3>2. step[k].status = "batching"
      BY <1>2, <2>1, <3>1 DEF Looking
    <3>3. ASSUME NEW q \in Procs, PassStep(q), Writes(q), pass[q].stage \in Stepping
          PROVE  FALSE
      <4>1. q = p
        BY <1>0, <2>1, <3>3, OneHolds DEF Writes, Stepping
      <4> QED  BY <2>2, <3>3, <4>1
    <3> QED  BY <1>0, <1>2, <1>3, <3>2, <3>3, BatchRowsStay
  <2>3. CASE PassStep(p) /\ (batchStep(p) \/ findBatch(p))
    <3>1. CASE batchStep(p)
      <4>1. pass'[p].key = pass[p].key /\ k = pass[p].key
        BY <1>0, <1>2, <3>1 DEF batchStep, To, Pass
      <4> QED
        BY <1>0, <1>2, <1>3, <3>1, <4>1 DEF batchStep, Records, Step, TypeOK
    <3>2. CASE findBatch(p)
      <4>1. pass[p].stage = "look" /\ step' = step
        BY <3>2 DEF findBatch
      <4>2. k = pass[p].key
        BY <1>0, <1>2, <3>2 DEF findBatch, To, Finishes, Pass
      <4> QED  BY <1>2, <2>1, <4>1, <4>2 DEF Looking
    <3> QED  BY <2>3, <3>1, <3>2
  <2>4. CASE PassStep(p) /\ ~batchStep(p) /\ ~findBatch(p)
    <3>1. \A stage : To(p, stage) \/ Leaves(p, stage) => pass'[p].stage = stage
      BY <1>0 DEF To, Leaves, Pass
    <3>2. pass' # [pass EXCEPT ![p] = Idle]
      BY <1>0 DEF Idle, Pass
    <3>3. \A outcome : ~Finishes(p, outcome)
      BY <1>0 DEF Finishes, Pass
    <3>4. ~acquire(p)
      BY <2>1 DEF acquire, AtWork, Stepping
    <3>5. ~(letGo(p) \/ suspend(p) \/ loseLease(p) \/ seeCancelled(p) \/ runStep(p) \/ throws(p) \/ finish(p)
            \/ tickDeadLettered(p) \/ complete(p) \/ fail(p) \/ deadLetter(p))
      BY <3>1, <3>2, <3>3 DEF letGo, LetsGo, suspend, loseLease, seeCancelled, runStep, throws, finish,
                             tickDeadLettered, Buries, complete, fail, deadLetter, Reports
    <3>6. GoesOn(p)
      BY <2>4, <3>3, <3>4, <3>5 DEF PassStep, returns, sleepStep, waitStep, recordBatch
    <3>7. pass'[p].stage = "look" /\ pass'[p].cached = pass[p].cached /\ pass[p].cached[k] = "batching"
      <4>1. pass'[p] = Arrived(pass[p], pass[p].key + 1)
        BY <1>0, <3>6 DEF GoesOn
      <4> QED  BY <1>2, <4>1, ArrivesLooking
    <3>8. pass[p].stage \in Stepping /\ pass[p].key \in Nat /\ k > pass[p].key
      <4>1. pass[p].stage \in Stepping
        BY <1>0, <1>1, <2>4, <3>4, StaysAtWork
      <4>2. pass[p] \in Passes /\ pass[p].key \in Nat /\ pass[p].key + 1 \in Nat /\ k \in Nat
        BY <1>0, <1>3, PassFields DEF Keys
      <4>3. k >= pass[p].key + 1
        <5>1. pass'[p] = Arrived(pass[p], pass[p].key + 1)
          BY <1>0, <3>6 DEF GoesOn
        <5> QED  BY <1>0, <1>1, <1>2, <4>2, <5>1, ArrivesAt
      <4> QED  BY <4>1, <4>2, <4>3
    <3>9. step[k].status = "batching"
      BY <1>3, <2>1, <3>7, <3>8 DEF Counted, Fresh
    <3>10. step'[k] = step[k]
      <4>1. k # pass[p].key
        BY <1>3, <3>8 DEF Keys
      <4> QED  BY <1>0, <1>3, <2>4, <4>1, StepWrites
    <3> QED  BY <1>2, <3>9, <3>10
  <2> QED  BY <2>2, <2>3, <2>4
<1> QED  BY <1>4, <1>5

(* The holder was told of a tick that came by, or another tick comes. *)
Told(p) == wf.retick = "yes" \/ \E j \in Jobs : j # pass[p].job /\ Coming(j)

(* And it stays so until it lets go. *)
LEMMA RetickKept ==
  ASSUME Counted, [Next]_vars, HoldKept, wf.job # NoJob, wf.retick = "yes", \A p \in Procs : ~Takes(p)
  PROVE  wf'.retick = "yes"
<1>1. \A status, wakeAt, job, attempt, lease, retick :
        Workflow(status, wakeAt, job, attempt, lease, retick).retick = retick
  BY DEF Workflow
<1>2. ASSUME NEW p \in Procs, letGo(p) \/ finish(p)
      PROVE  FALSE
  BY <1>2 DEF letGo, finish, LetsGo, Workflow, HoldKept
<1>3. ASSUME NEW p \in Procs, tickDeadLettered(p)
      PROVE  wf' = wf
  BY <1>3 DEF tickDeadLettered, Workflow, HoldKept
<1>4. ASSUME NEW p \in Procs, acquire(p)
      PROVE  wf'.retick = "yes"
  BY <1>1, <1>4 DEF acquire, Takes
<1>5. ASSUME NEW p \in Procs, PassStep(p)
      PROVE  wf'.retick = "yes"
  BY <1>1, <1>2, <1>3, <1>4, <1>5
    DEF PassStep, suspend, loseLease, seeCancelled, runStep, returns, throws, sleepStep, waitStep, batchStep,
        findBatch, recordBatch, complete, fail, deadLetter, Reports
<1>6. ASSUME \/ \E p \in Procs : renew(p) \/ storeRejects(p) \/ crash(p) \/ \E j \in Jobs : claim(p, j)
             \/ \E j \in Jobs : LapseJob(j)
             \/ LapseHold \/ cancel \/ UNCHANGED vars \/ Elapse
             \/ \E i \in Keys : signal(i) \/ BatchEnds(i, "succeeded") \/ BatchEnds(i, "failed")
      PROVE  wf'.retick = "yes"
  BY <1>1, <1>6 DEF renew, storeRejects, crash, claim, LapseJob, LapseHold, cancel, vars, BatchEnds, signal, Elapse
<1> QED  BY <1>5, <1>6 DEF Next

(* Or that tick goes on to come, unless it finds the workflow held. *)
LEMMA ToldStays ==
  ASSUME Counted, [Next]_vars, ~Over', NEW p \in Procs, pass[p].stage \in AtWork, Holds(p), HoldKept,
         pass'[p].job = pass[p].job, Told(p)
  PROVE  Told(p)'
<1>0. TypeOK /\ SoundPasses /\ Apart
  BY DEF Counted
<1>1. pass[p].stage # "idle" /\ wf.job = pass[p].job /\ pass[p].job \in Jobs /\ wf.job # NoJob
  BY <1>0, WorkflowAssumption DEF AtWork, Stepping, Holds, SoundPasses, SoundPass
<1>2. ASSUME NEW q \in Procs, Takes(q)
      PROVE  FALSE
  <2>1. Holds(q) /\ pass[q].stage = "take"
    BY <1>2 DEF Takes, acquire, Workflow, HoldKept, Holds
  <2>2. q = p
    BY <1>0, <1>1, <2>1, OneHolds
  <2> QED  BY <2>1, <2>2 DEF AtWork, Stepping
<1>3. CASE wf.retick = "yes"
  BY <1>1, <1>2, <1>3, RetickKept DEF Told
<1>4. ASSUME NEW j \in Jobs, j # pass[p].job, Coming(j)
      PROVE  Told(p)'
  <2>1. CASE \A q \in Procs : acquire(q) /\ Current(q) => pass[q].job # j
    BY <1>4, <2>1, ComingStays DEF Told
  <2>2. ASSUME NEW q \in Procs, acquire(q), pass[q].job = j
        PROVE  wf'.retick = "yes"
    <3>1. Busy(q)
      BY <1>2, <2>2, TakesTo
    <3> QED  BY <2>2, <3>1 DEF acquire, Workflow
  <2> QED  BY <2>1, <2>2 DEF Told
<1> QED  BY <1>3, <1>4 DEF Told

-----------------------------------------------------------------------------
(* What was there to come when a pass ends.                                *)

(* While there are names for them, a tick that is scheduled comes. *)
LEMMA PlusComes ==
  ASSUME NEW T \in [Jobs -> Ticks], Spare(T) # {}, NEW delay \in Int
  PROVE  \E j \in Spare(T) :
           Plus(T, delay)[j].at = "pending" /\ Plus(T, delay)[j].due = IF delay > 0 THEN delay ELSE 0
<1> DEFINE j == CHOOSE i \in Spare(T) : \A h \in Spare(T) : i <= h
           row == Tick("pending", 0, IF delay > 0 THEN delay ELSE 0, "live")
<1>1. Spare(T) \in SUBSET Nat
  BY WorkflowAssumption DEF Spare
<1>2. \E i \in Spare(T) : \A h \in Spare(T) : i <= h
  BY <1>1, Least
<1>3. j \in Spare(T)
  BY <1>2
<1>4. Plus(T, delay) = [T EXCEPT ![j] = row]
  BY DEF Plus
<1>5. row.at = "pending" /\ row.due = IF delay > 0 THEN delay ELSE 0
  BY DEF Tick
<1>6. j \in Jobs
  BY <1>3 DEF Spare
<1> HIDE DEF j, row
<1>7. Plus(T, delay)[j] = row
  BY <1>4, <1>6
<1> QED  BY <1>3, <1>5, <1>7

(* And stays when another is scheduled beside it. *)
LEMMA RetickedKeeps ==
  ASSUME NEW T \in [Jobs -> Ticks], NEW j \in Jobs, T[j].at = "pending"
  PROVE  Reticked(T)[j] = T[j]
<1>1. Plus(T, 0)[j] = T[j]
  BY PlusType
<1> QED  BY <1>1 DEF Reticked

(* It is nobody's. *)
LEMMA PlusTold ==
  ASSUME Counted, Spare(tick) # {}, tick' = Plus(tick, 0)
  PROVE  \E j \in Jobs : Coming(j)' /\ \A p \in Procs : pass[p].job # j
<1>1. PICK j \in Spare(tick) : Plus(tick, 0)[j].at = "pending"
  BY PlusComes DEF Counted, TypeOK
<1>2. j \in Jobs /\ \A p \in Procs : pass[p].job # j
  BY <1>1 DEF Spare
<1>3. Coming(j)'
  BY <1>1, <1>2, PendingComesNext
<1> QED  BY <1>2, <1>3

(* A wait that a pass found waiting still is, or its signal has scheduled  *)
(* a tick. *)
Signals ==
  \A p \in Procs : pass[p].stage \in Stepping /\ Holds(p) =>
    \A k \in Keys : step[k].kind = "wait" /\ pass[p].cached[k] = "waiting" => step[k].status = "waiting" \/ Told(p)

(* A signal comes with a tick. *)
LEMMA SignalsStay ==
  ASSUME Counted, Signals, Spare(tick) # {}, [Next]_vars, ~Over'
  PROVE  Signals'
<1>0. TypeOK /\ SoundPasses /\ SoundSteps /\ IdleHasNone /\ Apart /\ pass \in [Procs -> Passes]
  BY DEF Counted, TypeOK
<1>00. \A k \in Keys : step'[k].kind = step[k].kind
  BY <1>0, KindsStay DEF SameKinds
<1> SUFFICES ASSUME NEW p \in Procs, pass'[p].stage \in Stepping, Holds(p)',
                    NEW k \in Keys, step[k].kind = "wait", pass'[p].cached[k] = "waiting"
             PROVE  step'[k].status = "waiting" \/ Told(p)'
  BY <1>00 DEF Signals
<1>1. pass'[p].stage \in AtWork
  BY DEF AtWork
<1>2. CASE Takes(p)
  <2>1. step' = step /\ pass'[p].cached = [i \in Keys |-> step[i].status]
    BY <1>1, <1>2, TakenAs
  <2>2. pass'[p].cached[k] = step[k].status
    BY <2>1
  <2> QED  BY <2>1, <2>2
<1>3. CASE ~Takes(p)
  <2>1. Holds(p) /\ pass[p].stage \in AtWork /\ HoldKept
        /\ (pass'[p] = pass[p] \/ ((PassStep(p) \/ storeRejects(p)) /\ ~acquire(p)))
    BY <1>0, <1>1, <1>3, TookOrHeld
  <2>2. pass[p].stage \in Stepping /\ pass'[p].cached = pass[p].cached
    BY <1>0, <1>1, <2>1, StaysAtWork
  <2>3. pass'[p].job = pass[p].job
    BY <2>1 DEF HoldKept, Holds
  <2>4. Told(p) => Told(p)'
    BY <2>1, <2>3, ToldStays
  <2>5. step[k].status = "waiting" \/ Told(p)
    BY <2>1, <2>2 DEF Signals
  <2>6. ASSUME step[k].status = "waiting", step'[k].status # "waiting"
        PROVE  Told(p)'
    <3>1. ASSUME NEW q \in Procs, PassStep(q), ~UNCHANGED <<step, batch>>
          PROVE  FALSE
      <4>1. Holds(q) /\ pass[q].stage \in Stepping /\ (k # pass[q].key => step'[k] = step[k])
            /\ (step[pass[q].key].kind = "wait" => Reaches(q, {"wait", "timed"}))
        BY <3>1, RecordsOf DEF Writes
      <4>2. q = p /\ k = pass[q].key
        BY <1>0, <2>1, <2>6, <4>1, OneHolds DEF Stepping
      <4>3. ~Pending(p)
        BY <4>1, <4>2 DEF Reaches
      <4>4. pass[p].cached[k] = "waiting"
        BY <2>2
      <4> QED  BY <4>2, <4>3, <4>4 DEF Pending
    <3>2. signal(k)
      BY <2>6, <3>1, RowMoves
    <3>3. tick' = Plus(tick, 0)
      BY <2>6, <3>2 DEF signal
    <3>4. PICK j \in Jobs : Coming(j)' /\ \A q \in Procs : pass[q].job # j
      BY <3>3, PlusTold
    <3> QED  BY <2>3, <3>4 DEF Told
  <2> QED  BY <2>4, <2>5, <2>6
<1> QED  BY <1>2, <1>3

(* A pass that ends because it waits has a step that does: a tick wakes    *)
(* it, or a signal or a batch that has not come, or it was told. *)
Finishing ==
  \A p \in Procs : pass[p].stage = "finish" /\ pass[p].outcome = "waiting" /\ Holds(p) /\ ~Stopped(p) =>
    /\ pass[p].key \in Keys /\ step[pass[p].key].mode = pass[p].mode
    /\ \/ step[pass[p].key].kind = "timed"
       \/ step[pass[p].key].kind = "wait" /\ (step[pass[p].key].status = "waiting" \/ Told(p))
       \/ /\ step[pass[p].key].status = "batching"
          /\ batch[pass[p].key] \in {"going", "cancelled"} \/ Told(p)

(* What it waits for comes with a tick. *)
LEMMA WaitingStays ==
  ASSUME Counted, Spare(tick) # {}, [Next]_vars, ~Over', NEW p \in Procs,
         pass[p].stage = "finish", pass'[p] = pass[p], Holds(p), HoldKept, Finishing, ~Stopped(p),
         pass[p].outcome = "waiting"
  PROVE  \/ step'[pass[p].key].kind = "timed"
         \/ step'[pass[p].key].kind = "wait" /\ (step'[pass[p].key].status = "waiting" \/ Told(p)')
         \/ /\ step'[pass[p].key].status = "batching"
            /\ batch'[pass[p].key] \in {"going", "cancelled"} \/ Told(p)'
<1>0. TypeOK /\ SoundPasses /\ SoundSteps /\ Apart
      /\ batch \in [Keys -> {"none", "going", "cancelled", "succeeded", "failed"}]
  BY DEF Counted, TypeOK
<1>1. PICK k : k = pass[p].key
  OBVIOUS
<1>2. /\ k \in Keys
      /\ \/ step[k].kind = "timed"
         \/ step[k].kind = "wait" /\ (step[k].status = "waiting" \/ Told(p))
         \/ step[k].status = "batching" /\ (batch[k] \in {"going", "cancelled"} \/ Told(p))
  BY <1>1 DEF Finishing
<1>3. step'[k].kind = step[k].kind
  BY <1>0, <1>2, KindsStay DEF SameKinds
<1>4. pass[p].stage \in AtWork
  BY DEF AtWork
<1>5. Told(p) => Told(p)'
  BY <1>4, ToldStays
<1>6. \A q \in Procs : PassStep(q) => UNCHANGED <<step, batch>>
  <2> SUFFICES ASSUME NEW q \in Procs, PassStep(q), ~UNCHANGED <<step, batch>>
               PROVE  FALSE
    OBVIOUS
  <2>1. Holds(q) /\ pass[q].stage \in Stepping
    BY RecordsOf DEF Writes
  <2>2. q = p
    BY <1>0, <2>1, OneHolds DEF Stepping
  <2> QED  BY <2>1, <2>2 DEF Stepping
<1>7. ASSUME tick' = Plus(tick, 0)
      PROVE  Told(p)'
  <2>1. PICK j \in Jobs : Coming(j)' /\ \A q \in Procs : pass[q].job # j
    BY <1>7, PlusTold
  <2> QED  BY <2>1 DEF Told
<1>8. step'[k].status = step[k].status \/ (signal(k) /\ step'[k].status = "signalled")
  BY <1>2, <1>6, RowMoves
<1>9. step[k].status = "waiting" /\ signal(k) => tick' = Plus(tick, 0)
  BY DEF signal
<1>10. ASSUME step[k].status = "batching", batch[k] \in {"going", "cancelled"}
       PROVE  step'[k].status = "batching" /\ (batch'[k] \in {"going", "cancelled"} \/ Told(p)')
  <2>1. ~signal(k)
    BY <1>10 DEF signal
  <2>2. BatchEnds(k, "succeeded") \/ BatchEnds(k, "failed") => tick' = Plus(tick, 0)
    BY DEF BatchEnds
  <2>3. \/ batch'[k] = batch[k] \/ batch'[k] = "cancelled"
        \/ BatchEnds(k, "succeeded") \/ BatchEnds(k, "failed")
    BY <1>2, <1>6, RowMoves
  <2> QED  BY <1>7, <1>8, <1>10, <2>1, <2>2, <2>3
<1>11. ASSUME step[k].status = "batching"
       PROVE  step'[k].status = "batching"
  BY <1>8, <1>11 DEF signal
<1> QED  BY <1>1, <1>2, <1>3, <1>5, <1>7, <1>8, <1>9, <1>10, <1>11

(* And a pass ends so in no other way. *)
LEMMA FinishingStays ==
  ASSUME Advanced, Waits, BatchThere, Looking, Signals, Finishing, Spare(tick) # {}, [Next]_vars, ~Over'
  PROVE  Finishing'
<1>0. Counted /\ TypeOK /\ SoundPasses /\ SoundSteps /\ IdleHasNone /\ Apart /\ pass \in [Procs -> Passes]
  BY DEF Advanced, Counted, TypeOK
<1>00. SameKinds(step, step') /\ step \in [Keys -> StepRows]
  BY <1>0, KindsStay DEF TypeOK
<1> SUFFICES ASSUME NEW p \in Procs, pass'[p].stage = "finish", pass'[p].outcome = "waiting", Holds(p)', ~Stopped(p)'
             PROVE  /\ pass'[p].key \in Keys /\ step'[pass'[p].key].mode = pass'[p].mode
                    /\ \/ step'[pass'[p].key].kind = "timed"
                       \/ step'[pass'[p].key].kind = "wait" /\ (step'[pass'[p].key].status = "waiting" \/ Told(p)')
                       \/ /\ step'[pass'[p].key].status = "batching"
                          /\ batch'[pass'[p].key] \in {"going", "cancelled"} \/ Told(p)'
  BY DEF Finishing
<1>1. pass'[p].stage \in AtWork /\ pass'[p].stage \notin Stepping
  BY DEF AtWork, Stepping
<1>2. ~Takes(p)
  BY <1>0, <1>1, TakenAs
<1>3. Holds(p) /\ pass[p].stage \in AtWork /\ pass'[p].mode = pass[p].mode /\ HoldKept
      /\ (pass'[p] = pass[p] \/ ((PassStep(p) \/ storeRejects(p)) /\ ~acquire(p)))
  BY <1>0, <1>1, <1>2, TookOrHeld
<1>4. pass'[p].job = pass[p].job
  BY <1>3 DEF HoldKept, Holds
<1>5. wf.job # NoJob
  BY <1>0, <1>3, WorkflowAssumption DEF SoundPasses, SoundPass, AtWork, Stepping, Holds
<1>6. ~Stopped(p)
  <2>1. wf.status = "cancelling" => wf'.status = "cancelling"
    BY <1>0, <1>3, <1>5, HeldStatus
  <2> QED  BY <1>3, <2>1 DEF Stopped
<1>7. CASE pass'[p] = pass[p]
  BY <1>0, <1>00, <1>3, <1>6, <1>7, WaitingStays DEF Finishing, SameKinds
<1>8. CASE (PassStep(p) \/ storeRejects(p)) /\ ~acquire(p)
  <2>1. pass[p].stage \in Stepping
    BY <1>0, <1>1, <1>8, StaysAtWork
  <2>2. PICK k : k = pass[p].key
    OBVIOUS
  <2>3. k \in Keys /\ step[k].mode = pass[p].mode /\ step'[k].mode = step[k].mode /\ step'[k].kind = step[k].kind
    BY <1>0, <1>00, <2>1, <2>2 DEF SoundPasses, SoundPass, SameKinds
  <2>4. Told(p) => Told(p)'
    BY <1>0, <1>3, <1>4, ToldStays
  <2>5. \A outcome : Finishes(p, outcome) => pass'[p].key = k /\ pass'[p].outcome = outcome
    BY <1>0, <2>2 DEF Finishes, Pass
  <2>6. \A stage : To(p, stage) \/ Leaves(p, stage) => pass'[p].stage = stage
    BY <1>0 DEF To, Leaves, Pass
  <2>7. pass' # [pass EXCEPT ![p] = Idle]
    BY <1>0 DEF Idle, Pass
  <2>8. ~GoesOn(p)
    <3> SUFFICES ASSUME GoesOn(p) PROVE FALSE
      OBVIOUS
    <3>1. pass'[p] = Arrived(pass[p], pass[p].key + 1)
      BY <1>0 DEF GoesOn
    <3> QED  BY <3>1, ArrivesLooking
  <2>9. ~(Finishes(p, "failed") \/ Finishes(p, "sleeping"))
    BY <2>5
  <2>10. ~storeRejects(p)
    BY <2>6, <2>7, <2>9 DEF storeRejects, Buries
  <2>11. ~(letGo(p) \/ loseLease(p) \/ runStep(p) \/ returns(p) \/ throws(p) \/ sleepStep(p) \/ batchStep(p)
           \/ recordBatch(p) \/ finish(p) \/ tickDeadLettered(p) \/ complete(p) \/ fail(p) \/ deadLetter(p))
    BY <2>6, <2>7, <2>8, <2>9 DEF letGo, LetsGo, loseLease, runStep, returns, throws, sleepStep, batchStep,
         recordBatch, finish, tickDeadLettered, Buries, complete, fail, deadLetter, Reports
  <2>12. ~seeCancelled(p)
    BY <1>6 DEF seeCancelled
  <2>13. CASE suspend(p)
    <3>1. step[k].kind \in {"wait", "timed"} /\ Pending(p) /\ step' = step /\ pass[p].stage = "steps"
          /\ Finishes(p, "waiting")
      BY <2>2, <2>9, <2>13 DEF suspend
    <3>2. step[k].kind = "wait" => step[k].status = "waiting" \/ Told(p)
      <4>1. step[k].kind = "wait" => pass[p].cached[k] = "waiting"
        BY <2>2, <3>1 DEF Pending
      <4> QED  BY <1>3, <2>1, <2>3, <4>1 DEF Signals
    <3> QED  BY <1>3, <2>3, <2>4, <2>5, <3>1, <3>2
  <2>14. CASE waitStep(p)
    <3>1. step[k].kind \in {"wait", "timed"}
      BY <2>2, <2>14 DEF waitStep, Reaches
    <3>2. CASE step[k].kind = "timed"
      BY <1>3, <2>3, <2>5, <2>8, <2>14, <3>2 DEF waitStep
    <3>3. CASE step[k].kind = "wait"
      <4>1. step[k].status \in {"none", "waiting", "signalled"}
        <5>1. step[k].status \notin Resolved
          BY <1>3, <2>1, <2>2 DEF Advanced, Reached, Done
        <5>2. step[k].status \in {"none", "waiting", "signalled", "completed"}
          BY <2>3, <3>3 DEF Waits
        <5> QED  BY <5>1, <5>2 DEF Resolved
      <4>2. step[k].status # "signalled" /\ ~timedOut(p, k)
        BY <2>2, <2>8, <2>14, <3>3 DEF waitStep, timedOut
      <4>3. Finishes(p, "waiting")
        BY <2>2, <2>14, <4>2 DEF waitStep
      <4>4. step'[k].status = "waiting"
        <5>1. CASE step[k].status = "none"
          <6>1. \E wakeAt : Records(k, "waiting", 0, wakeAt)
            BY <2>2, <2>14, <4>2, <5>1 DEF waitStep
          <6> QED  BY <1>00, <2>3, <6>1 DEF Records, Step
        <5>2. CASE step[k].status = "waiting"
          BY <2>2, <2>14, <4>2, <5>2 DEF waitStep
        <5> QED  BY <4>1, <4>2, <5>1, <5>2
      <4> QED  BY <1>3, <2>3, <2>5, <3>3, <4>3, <4>4
    <3> QED  BY <3>1, <3>2, <3>3
  <2>15. CASE findBatch(p)
    <3>1. pass[p].stage = "look" /\ step' = step /\ batch' = batch
      BY <2>15 DEF findBatch
    <3>2. batch[k] \notin {"succeeded", "failed"} /\ Finishes(p, "waiting")
      BY <2>2, <2>6, <2>15 DEF findBatch
    <3>3. step[k].status = "batching"
      BY <1>3, <2>2, <3>1 DEF Looking
    <3>4. batch[k] \in {"going", "cancelled"}
      BY <1>0, <2>3, <3>2, <3>3 DEF BatchThere, TypeOK
    <3> QED  BY <1>3, <2>3, <2>5, <3>1, <3>2, <3>3, <3>4
  <2> QED  BY <1>8, <2>10, <2>11, <2>12, <2>13, <2>14, <2>15 DEF PassStep
<1> QED  BY <1>3, <1>7, <1>8

-----------------------------------------------------------------------------
(* The tick that is to wake the workflow.                                  *)

(* While the moment that a wake-up was scheduled for is to come, its tick  *)
(* is in the queue. *)
WakeTick ==
  \A p \in Procs : wf.wakeAt > Now(p) =>
    \E j \in Jobs : tick[j].at = "pending" /\ tick[j].due = wf.wakeAt - Now(p)

(* The clocks of the processes agree, and the past is told from what is to *)
(* come by each of them. *)
ClocksAgree == \A p, q \in Procs : Skew[p] = Skew[q] /\ Past <= Skew[p]

(* A tick job that is pending stays as it is until it is due and claimed,  *)
(* but that time passes. *)
LEMMA PendingStays ==
  ASSUME Counted, [Next]_vars, NEW j \in Jobs, tick[j].at = "pending"
  PROVE  \/ tick'[j] = tick[j]
         \/ Elapse /\ tick'[j].at = "pending" /\ tick'[j].due = Earlier(tick[j].due, 0)
         \/ tick[j].due <= 0 /\ tick'[j].at = "claimed"
<1>0. tick \in [Jobs -> Ticks] /\ TypeOK /\ SoundPasses
  BY DEF Counted, TypeOK
<1>1. \A T \in [Jobs -> Ticks], delay \in Int :
        T[j].at = "pending" => Plus(T, delay) \in [Jobs -> Ticks] /\ Plus(T, delay)[j] = T[j]
  BY PlusType
<1>2. \A T \in [Jobs -> Ticks] : T[j].at = "pending" => Reticked(T)[j] = T[j]
  BY RetickedKeeps
<1>3. ASSUME NEW p \in Procs, Current(p)
      PROVE  pass[p].job # j
  BY <1>3 DEF Current
<1>4. ASSUME NEW p \in Procs, PassStep(p)
      PROVE  tick'[j] = tick[j]
  <2>1. CASE complete(p) \/ fail(p) \/ deadLetter(p)
    BY <1>0, <1>3, <2>1 DEF complete, fail, deadLetter, Reports
  <2>2. CASE letGo(p) \/ tickDeadLettered(p)
    BY <1>0, <1>2, <2>2 DEF letGo, LetsGo, tickDeadLettered
  <2>3. CASE finish(p)
    <3>1. HasWake(p) => WakeAt(p) - Now(p) \in Int
      <4>1. HasWake(p) => pass[p].key \in Keys
        BY <1>0, <2>3 DEF finish, HasWake, SoundPasses, SoundPass
      <4> QED
        BY <1>0, <4>1, RowFields, WorkflowAssumption DEF WakeAt, Now, TypeOK
    <3>2. \/ tick' = Reticked(tick) \/ tick' = Reticked(Plus(tick, 0))
          \/ HasWake(p) /\ tick' = Reticked(Plus(tick, WakeAt(p) - Now(p)))
      BY <2>3 DEF finish, LetsGo
    <3>3. ASSUME NEW delay \in Int, tick' = Reticked(Plus(tick, delay))
          PROVE  tick'[j] = tick[j]
      BY <1>0, <1>1, <1>2, <3>3
    <3> QED  BY <1>0, <1>2, <3>1, <3>2, <3>3
  <2>4. CASE \/ acquire(p) \/ suspend(p) \/ loseLease(p) \/ seeCancelled(p) \/ runStep(p) \/ returns(p)
             \/ throws(p) \/ sleepStep(p) \/ waitStep(p) \/ batchStep(p) \/ findBatch(p) \/ recordBatch(p)
    BY <2>4 DEF acquire, suspend, loseLease, seeCancelled, runStep, returns, throws, sleepStep,
                waitStep, batchStep, findBatch, recordBatch
  <2> QED  BY <1>4, <2>1, <2>2, <2>3, <2>4 DEF PassStep
<1>5. ASSUME NEW p \in Procs, NEW i \in Jobs, claim(p, i)
      PROVE  tick'[j] = tick[j] \/ (tick[j].due <= 0 /\ tick'[j].at = "claimed")
  <2>1. CASE i # j
    BY <1>0, <1>5, <2>1 DEF claim
  <2>2. CASE i = j
    BY <1>0, <1>5, <2>2 DEF claim, Claimable, Tick
  <2> QED  BY <2>1, <2>2
<1>6. ASSUME \/ \E p \in Procs : renew(p) \/ storeRejects(p) \/ crash(p)
             \/ LapseHold \/ UNCHANGED vars
      PROVE  tick' = tick
  BY <1>6 DEF renew, storeRejects, crash, LapseHold, vars
<1>7. ASSUME \/ cancel
             \/ \E k \in Keys : signal(k) \/ BatchEnds(k, "succeeded") \/ BatchEnds(k, "failed")
      PROVE  tick'[j] = tick[j]
  <2>1. tick' = tick \/ tick' = Plus(tick, 0)
    BY <1>7 DEF signal, BatchEnds, cancel
  <2> QED  BY <1>0, <1>1, <2>1
<1>8. ASSUME NEW i \in Jobs, LapseJob(i)
      PROVE  tick'[j] = tick[j]
  BY <1>0, <1>8 DEF LapseJob
<1>9. ASSUME Elapse
      PROVE  tick'[j].at = "pending" /\ tick'[j].due = Earlier(tick[j].due, 0)
  BY <1>0, <1>9 DEF Elapse, Tick
<1> QED  BY <1>4, <1>5, <1>6, <1>7, <1>8, <1>9 DEF Next

(* What becomes of the moment: it comes nearer, or a pass has ended. *)
LEMMA WakeMoves ==
  ASSUME Counted, [Next]_vars
  PROVE  \/ wf'.wakeAt = wf.wakeAt
         \/ Elapse /\ wf'.wakeAt = Earlier(wf.wakeAt, Past)
         \/ wf'.wakeAt = Past
         \/ \E p \in Procs : /\ finish(p) /\ HasWake(p) /\ wf'.wakeAt = WakeAt(p)
                             /\ tick' = Reticked(Plus(tick, WakeAt(p) - Now(p)))
<1>1. \A status, wakeAt, job, attempt, lease, retick :
        Workflow(status, wakeAt, job, attempt, lease, retick).wakeAt = wakeAt
  BY DEF Workflow
<1>2. ASSUME NEW p \in Procs, PassStep(p), ~finish(p)
      PROVE  wf'.wakeAt = wf.wakeAt
  BY <1>1, <1>2 DEF PassStep, acquire, letGo, LetsGo, suspend, loseLease, seeCancelled, runStep, returns, throws,
        sleepStep, waitStep, batchStep, findBatch, recordBatch, tickDeadLettered, complete, fail, deadLetter, Reports
<1>3. ASSUME NEW p \in Procs, finish(p)
      PROVE  \/ wf'.wakeAt = wf.wakeAt
             \/ wf'.wakeAt = Past
             \/ HasWake(p) /\ wf'.wakeAt = WakeAt(p) /\ tick' = Reticked(Plus(tick, WakeAt(p) - Now(p)))
  BY <1>1, <1>3 DEF finish, LetsGo
<1>4. ASSUME \/ \E p \in Procs : renew(p) \/ storeRejects(p) \/ crash(p) \/ \E j \in Jobs : claim(p, j)
             \/ \E j \in Jobs : LapseJob(j)
             \/ LapseHold \/ cancel \/ UNCHANGED vars
             \/ \E k \in Keys : signal(k) \/ BatchEnds(k, "succeeded") \/ BatchEnds(k, "failed")
      PROVE  wf'.wakeAt = wf.wakeAt
  BY <1>1, <1>4 DEF renew, storeRejects, crash, claim, LapseJob, LapseHold, cancel, vars, BatchEnds, signal
<1>5. ASSUME Elapse
      PROVE  wf'.wakeAt = Earlier(wf.wakeAt, Past)
  BY <1>1, <1>5 DEF Elapse
<1> QED  BY <1>2, <1>3, <1>4, <1>5 DEF Next

(* Whoever scheduled it, all read the same clock. *)
LEMMA WakeTickStays ==
  ASSUME Counted, ClocksAgree, WakeTick, Spare(tick) # {}, [Next]_vars
  PROVE  WakeTick'
<1> SUFFICES ASSUME NEW p \in Procs, wf'.wakeAt > Now(p)
             PROVE  \E j \in Jobs : tick'[j].at = "pending" /\ tick'[j].due = wf'.wakeAt - Now(p)
  BY DEF WakeTick, Now
<1>0. /\ tick \in [Jobs -> Ticks] /\ TypeOK /\ SoundPasses /\ wf.wakeAt \in Int /\ Now(p) \in Int
      /\ Past \in Int /\ Past <= Now(p)
  BY RowFields, WorkflowAssumption DEF Counted, TypeOK, Now, Past, ClocksAgree
<1>1. wf'.wakeAt # Past
  BY <1>0
<1>2. ASSUME wf'.wakeAt = wf.wakeAt, ~Elapse
      PROVE  \E j \in Jobs : tick'[j].at = "pending" /\ tick'[j].due = wf'.wakeAt - Now(p)
  <2>1. PICK j \in Jobs : tick[j].at = "pending" /\ tick[j].due = wf.wakeAt - Now(p)
    BY <1>2 DEF WakeTick
  <2>2. tick[j].due > 0
    BY <1>0, <1>2, <2>1
  <2>3. tick[j].due \in Int
    BY <1>0, RowFields
  <2>4. ~(tick[j].due <= 0)
    BY <2>2, <2>3
  <2>5. tick'[j] = tick[j]
    BY <1>2, <2>1, <2>4, PendingStays
  <2> QED  BY <1>2, <2>1, <2>5
<1>3. ASSUME Elapse
      PROVE  \E j \in Jobs : tick'[j].at = "pending" /\ tick'[j].due = wf'.wakeAt - Now(p)
  <2>1. wf'.wakeAt = Earlier(wf.wakeAt, Past)
    BY <1>3 DEF Elapse, Workflow
  <2>2. wf'.wakeAt = wf.wakeAt - 1 /\ wf.wakeAt - Now(p) > 1
    BY <1>0, <1>1, <2>1 DEF Earlier
  <2>3. PICK j \in Jobs : tick[j].at = "pending" /\ tick[j].due = wf.wakeAt - Now(p)
    BY <1>0, <2>2 DEF WakeTick
  <2>4. tick[j].due > 0
    BY <1>0, <2>2, <2>3
  <2>5. tick'[j] = Tick(tick[j].at, tick[j].attempt, Earlier(tick[j].due, 0), tick[j].lease)
    BY <1>3 DEF Elapse
  <2>6. tick'[j].at = "pending" /\ tick'[j].due = tick[j].due - 1
    BY <2>3, <2>4, <2>5 DEF Tick, Earlier
  <2> QED  BY <1>0, <2>2, <2>3, <2>6
<1>4. ASSUME NEW q \in Procs, finish(q), HasWake(q), wf'.wakeAt = WakeAt(q),
             tick' = Reticked(Plus(tick, WakeAt(q) - Now(q)))
      PROVE  \E j \in Jobs : tick'[j].at = "pending" /\ tick'[j].due = wf'.wakeAt - Now(p)
  <2>1. Now(q) = Now(p)
    BY DEF ClocksAgree, Now
  <2>2. WakeAt(q) \in Int
    <3>1. pass[q].key \in Keys
      BY <1>0, <1>4 DEF finish, HasWake, SoundPasses, SoundPass
    <3> QED  BY <1>0, <3>1, RowFields DEF WakeAt, TypeOK
  <2>3. PICK delay \in Int : delay = WakeAt(q) - Now(q) /\ delay = wf'.wakeAt - Now(p) /\ delay > 0
    BY <1>0, <1>4, <2>1, <2>2
  <2>4. PICK T : T = Plus(tick, delay)
    OBVIOUS
  <2>5. T \in [Jobs -> Ticks]
    BY <1>0, <2>4, PlusType
  <2>6. PICK j \in Spare(tick) : T[j].at = "pending" /\ T[j].due = delay
    BY <1>0, <2>3, <2>4, PlusComes
  <2>7. j \in Jobs
    BY <2>6 DEF Spare
  <2>8. tick' = Reticked(T)
    BY <1>4, <2>3, <2>4
  <2>9. tick'[j] = T[j]
    BY <2>5, <2>6, <2>7, <2>8, RetickedKeeps
  <2> QED  BY <2>3, <2>6, <2>7, <2>9
<1> QED  BY <1>1, <1>2, <1>3, <1>4, WakeMoves

-----------------------------------------------------------------------------
(* A workflow that nobody has is advanced.                                 *)

(* It waits for a signal or a batch, or a tick job comes. *)
Advancing == wf.job = NoJob => Parked \/ \E j \in Jobs : Coming(j)

(* Nobody has it, and nobody takes it: it only is cancelled. *)
LEMMA FreeStatus ==
  ASSUME Counted, [Next]_vars, ~Over', wf.job = NoJob, wf'.job = NoJob, ~cancel
  PROVE  wf'.status = wf.status
<1>0. \A p \in Procs : pass[p].stage # "idle" => ~Holds(p)
  BY WorkflowAssumption DEF Counted, SoundPasses, SoundPass, Holds
<1>1. \A status, wakeAt, job, attempt, lease, retick :
        Workflow(status, wakeAt, job, attempt, lease, retick).status = status
  BY DEF Workflow
<1>2. ASSUME NEW p \in Procs, PassStep(p)
      PROVE  wf'.status = wf.status
  <2>1. ~(letGo(p) \/ finish(p) \/ runStep(p))
    BY <1>0 DEF letGo, finish, runStep, Reaches, Writes
  <2>2. tickDeadLettered(p) => wf'.status = wf.status
    BY <1>1 DEF tickDeadLettered, Over, Ended
  <2> QED
    BY <1>1, <1>2, <2>1, <2>2 DEF PassStep, acquire, suspend, loseLease, seeCancelled, returns, throws, sleepStep,
         waitStep, batchStep, findBatch, recordBatch, complete, fail, deadLetter, Reports
<1>3. ASSUME \/ \E p \in Procs : renew(p) \/ storeRejects(p) \/ crash(p) \/ \E j \in Jobs : claim(p, j)
             \/ \E j \in Jobs : LapseJob(j)
             \/ LapseHold \/ UNCHANGED vars \/ Elapse
             \/ \E k \in Keys : signal(k) \/ BatchEnds(k, "succeeded") \/ BatchEnds(k, "failed")
      PROVE  wf'.status = wf.status
  BY <1>1, <1>3 DEF renew, storeRejects, crash, claim, LapseJob, LapseHold, vars, BatchEnds, signal, Elapse
<1> QED  BY <1>2, <1>3 DEF Next

(* What it waits for comes with a tick. *)
LEMMA ParkedStays ==
  ASSUME Counted, [Next]_vars, ~Over', Spare(tick) # {}, wf.job = NoJob, wf'.job = NoJob, Parked
  PROVE  Parked' \/ \E j \in Jobs : Coming(j)'
<1>0. TypeOK /\ SoundPasses /\ SoundSteps
      /\ batch \in [Keys -> {"none", "going", "cancelled", "succeeded", "failed"}]
  BY DEF Counted, TypeOK
<1>1. CASE tick' = Plus(tick, 0)
  BY <1>1, PlusTold
<1>2. CASE tick' # Plus(tick, 0)
  <2>1. ~cancel /\ \A i \in Keys : ~BatchEnds(i, "succeeded") /\ ~BatchEnds(i, "failed")
    BY <1>2 DEF cancel, BatchEnds
  <2>2. wf'.status = wf.status
    BY <2>1, FreeStatus
  <2>3. \A p \in Procs : PassStep(p) => UNCHANGED <<step, batch>>
    <3> SUFFICES ASSUME NEW p \in Procs, PassStep(p), ~UNCHANGED <<step, batch>>
                 PROVE  FALSE
      OBVIOUS
    <3>1. Holds(p) /\ pass[p].stage \in Stepping
      BY RecordsOf DEF Writes
    <3>2. pass[p].job \in Jobs
      BY <1>0, <3>1 DEF SoundPasses, SoundPass, Stepping
    <3> QED  BY <3>1, <3>2, WorkflowAssumption DEF Holds
  <2>4. PICK k \in StepsOf(Mode) :
          \/ step[k].kind = "wait" /\ step[k].status = "waiting"
          \/ step[k].status = "batching" /\ batch[k] \in {"going", "cancelled"}
    BY DEF Parked
  <2>5. k \in Keys /\ step[k].mode = Mode
    BY <2>4 DEF StepsOf
  <2>6. step'[k].kind = step[k].kind /\ step'[k].mode = step[k].mode
    BY <1>0, <2>5, KindsStay DEF SameKinds
  <2>7. k \in StepsOf(Mode)'
    BY <2>2, <2>5, <2>6 DEF StepsOf, Mode
  <2>8. ~signal(k) \/ step[k].status = "none"
    BY <1>2 DEF signal
  <2>9. step[k].status # "none" => step'[k].status = step[k].status
    BY <2>3, <2>5, <2>8, RowMoves
  <2>10. batch'[k] = batch[k]
    BY <2>1, <2>3, <2>5, RowMoves
  <2>11. \/ step'[k].kind = "wait" /\ step'[k].status = "waiting"
         \/ step'[k].status = "batching" /\ batch'[k] \in {"going", "cancelled"}
    BY <2>4, <2>6, <2>9, <2>10
  <2> QED  BY <2>7, <2>11 DEF Parked
<1> QED  BY <1>1, <1>2

(* A pass that ends leaves the workflow parked, or a tick that comes. *)
LEMMA FinishLeaves ==
  ASSUME Counted, [Next]_vars, ~Over', Spare(tick) # {}, WakeTick, Finishing, NEW p \in Procs, finish(p),
         \A q \in Procs : ~acquire(q)
  PROVE  Parked' \/ \E j \in Jobs : Coming(j)'
<1>0. TypeOK /\ SoundPasses /\ tick \in [Jobs -> Ticks]
  BY DEF Counted, TypeOK
<1>1. \A status, wakeAt, job, attempt, lease, retick :
        Workflow(status, wakeAt, job, attempt, lease, retick).status = status
  BY DEF Workflow
<1>2. pass[p].stage = "finish" /\ Holds(p) /\ pass[p].mode \in Modes
      /\ pass[p].outcome \in {"completed", "failed", "sleeping", "waiting"}
  BY <1>0, PassFields DEF finish, SoundPasses, SoundPass
<1>3. ASSUME NEW delay \in Int, tick' = Reticked(Plus(tick, delay))
      PROVE  \E j \in Jobs : Coming(j)'
  <2>1. PICK T : T = Plus(tick, delay)
    OBVIOUS
  <2>2. T \in [Jobs -> Ticks]
    BY <1>0, <2>1, PlusType
  <2>3. PICK j \in Spare(tick) : T[j].at = "pending"
    BY <1>0, <2>1, PlusComes
  <2>4. j \in Jobs
    BY <2>3 DEF Spare
  <2>5. tick' = Reticked(T)
    BY <1>3, <2>1
  <2>6. tick'[j].at = "pending"
    BY <2>2, <2>3, <2>4, <2>5, RetickedKeeps
  <2> QED  BY <2>4, <2>6, PendingComesNext
<1>4. CASE Stopped(p)
  BY <1>3, <1>4 DEF finish, LetsGo
<1>5. CASE ~Stopped(p) /\ pass[p].outcome \in {"completed", "failed"}
  <2>1. wf'.status \in {"cancelled", "completed", "failed"}
    BY <1>1, <1>5 DEF finish, LetsGo
  <2> QED  BY <2>1 DEF Over, Ended
<1>6. CASE ~Stopped(p) /\ pass[p].outcome \in {"sleeping", "waiting"} /\ HasWake(p)
  <2>1. WakeAt(p) \in Int /\ Now(p) \in Int
    <3>1. pass[p].key \in Keys
      BY <1>0, <1>2, <1>6 DEF SoundPasses, SoundPass
    <3> QED
      BY <1>0, <3>1, RowFields, WorkflowAssumption DEF WakeAt, Now, TypeOK
  <2>2. CASE ~scheduled(p)
    <3>1. tick' = Reticked(Plus(tick, WakeAt(p) - Now(p)))
      BY <1>6, <2>2 DEF finish, LetsGo
    <3>2. WakeAt(p) - Now(p) \in Int
      BY <2>1
    <3> QED  BY <1>3, <3>1, <3>2
  <2>3. CASE scheduled(p)
    <3>1. tick' = Reticked(tick)
      BY <1>6, <2>3 DEF finish, LetsGo
    <3>2. PICK j \in Jobs : tick[j].at = "pending"
      BY <2>3 DEF scheduled, WakeTick
    <3>3. tick'[j].at = "pending"
      BY <1>0, <3>1, <3>2, RetickedKeeps
    <3> QED  BY <3>3, PendingComesNext
  <2> QED  BY <2>2, <2>3
<1>7. CASE ~Stopped(p) /\ pass[p].outcome \in {"sleeping", "waiting"} /\ ~HasWake(p)
  <2>1. /\ tick' = Reticked(tick) /\ step' = step /\ batch' = batch
        /\ wf'.status = IF pass[p].mode = "cancel" THEN "cancelling" ELSE "waiting"
        /\ pass[p].outcome = "waiting"
    BY <1>1, <1>7 DEF finish, LetsGo, HasWake
  <2>2. PICK k \in Keys : k = pass[p].key
    BY <1>2, <1>7, <2>1 DEF Finishing
  <2>3. /\ step[k].mode = pass[p].mode /\ step[k].kind # "timed"
        /\ \/ step[k].kind = "wait" /\ step[k].status = "waiting"
           \/ step[k].status = "batching" /\ batch[k] \in {"going", "cancelled"}
           \/ Told(p)
    BY <1>2, <1>7, <2>1, <2>2 DEF Finishing, HasWake
  <2>4. Mode' = pass[p].mode
    BY <1>2, <2>1 DEF Mode, Modes
  <2>5. k \in StepsOf(Mode)'
    BY <2>1, <2>3, <2>4 DEF StepsOf
  <2>6. CASE Told(p)
    <3>1. CASE wf.retick = "yes"
      <4>1. tick' = Plus(tick, 0)
        BY <2>1, <3>1 DEF Reticked
      <4> QED  BY <4>1, PlusTold
    <3>2. CASE \E j \in Jobs : Coming(j)
      BY <3>2, ComingStays
    <3> QED  BY <2>6, <3>1, <3>2 DEF Told
  <2>7. CASE ~Told(p)
    BY <2>1, <2>3, <2>5, <2>7 DEF Parked
  <2> QED  BY <2>6, <2>7
<1> QED  BY <1>2, <1>4, <1>5, <1>6, <1>7

(* Nobody takes a workflow that nobody has next. *)
LEMMA NoneTakes ==
  ASSUME Counted, [Next]_vars, wf'.job = NoJob
  PROVE  \A q \in Procs : ~acquire(q)
BY WorkflowAssumption DEF Counted, acquire, Busy, Workflow, SoundPasses, SoundPass

(* One that was held, and goes on, was let go by a pass that ended. *)
LEMMA LetGoBy ==
  ASSUME Counted, LetGoEnded, [Next]_vars, ~Over', wf.job # NoJob, wf'.job = NoJob
  PROVE  \E p \in Procs : finish(p)
<1>1. \A q \in Procs : ~acquire(q)
  BY NoneTakes
<1>2. ASSUME NEW p \in Procs, letGo(p)
      PROVE  FALSE
  <2>1. wf'.status \in Ended
    BY <1>2 DEF letGo, LetsGo, LetGoEnded, Workflow
  <2> QED  BY <2>1 DEF Over
<1>3. ASSUME NEW p \in Procs, tickDeadLettered(p)
      PROVE  FALSE
  <2>1. wf' = wf \/ wf'.status = "failed"
    BY <1>3 DEF tickDeadLettered, Workflow
  <2> QED  BY <2>1 DEF Over, Ended
<1>4. \A status, wakeAt, job, attempt, lease, retick :
        Workflow(status, wakeAt, job, attempt, lease, retick).job = job
  BY DEF Workflow
<1>5. ASSUME NEW p \in Procs, PassStep(p), ~finish(p)
      PROVE  FALSE
  BY <1>1, <1>2, <1>3, <1>4, <1>5
    DEF PassStep, suspend, loseLease, seeCancelled, runStep, returns, throws, sleepStep, waitStep, batchStep,
        findBatch, recordBatch, complete, fail, deadLetter, Reports
<1>6. ~(\/ \E p \in Procs : renew(p) \/ storeRejects(p) \/ crash(p) \/ \E j \in Jobs : claim(p, j)
        \/ \E j \in Jobs : LapseJob(j)
        \/ LapseHold \/ cancel \/ UNCHANGED vars \/ Elapse
        \/ \E i \in Keys : signal(i) \/ BatchEnds(i, "succeeded") \/ BatchEnds(i, "failed"))
  BY <1>4 DEF renew, storeRejects, crash, claim, LapseJob, LapseHold, cancel, vars, BatchEnds, signal, Elapse
<1> QED  BY <1>5, <1>6 DEF Next

(* And so after every step. *)
LEMMA AdvancingStays ==
  ASSUME Counted, LetGoEnded, WakeTick, Finishing, Advancing, Spare(tick) # {}, [Next]_vars, ~Over'
  PROVE  Advancing'
<1> SUFFICES ASSUME wf'.job = NoJob
             PROVE  Parked' \/ \E j \in Jobs : Coming(j)'
  BY DEF Advancing
<1>1. \A q \in Procs : ~acquire(q)
  BY NoneTakes
<1>2. CASE wf.job = NoJob
  <2>1. CASE Parked
    BY <1>2, <2>1, ParkedStays
  <2>2. ASSUME NEW j \in Jobs, Coming(j)
        PROVE  Coming(j)'
    BY <1>1, <2>2, ComingStays
  <2> QED  BY <1>2, <2>1, <2>2 DEF Advancing
<1>3. CASE wf.job # NoJob
  BY <1>1, <1>3, LetGoBy, FinishLeaves
<1> QED  BY <1>2, <1>3

-----------------------------------------------------------------------------
(* There is a name for every tick job, when there is one for every number. *)

Unused(j) == tick[j].at = "none" /\ wf.job # j /\ \A p \in Procs : pass[p].job # j

(* Only so many are used at once. *)
Roomy == \E n \in Nat : \A j \in Jobs : j >= n => Unused(j)

(* So one is left. *)
LEMMA RoomySpare ==
  ASSUME Jobs = Nat, Roomy
  PROVE  Spare(tick) # {}
<1>1. PICK n \in Nat : \A j \in Jobs : j >= n => Unused(j)
  BY DEF Roomy
<1>2. n \in Jobs /\ Unused(n)
  BY <1>1
<1> QED  BY <1>2 DEF Spare, Unused

(* A step schedules no more than it needs. *)
LEMMA PlusFew ==
  ASSUME NEW T \in [Jobs -> Ticks], NEW delay \in Int
  PROVE  \E m \in Nat : \A j \in Jobs : j >= m => Plus(T, delay)[j] = T[j]
<1> DEFINE j == CHOOSE i \in Spare(T) : \A h \in Spare(T) : i <= h
           row == Tick("pending", 0, IF delay > 0 THEN delay ELSE 0, "live")
<1>1. CASE Spare(T) = {}
  BY <1>1 DEF Plus
<1>2. CASE Spare(T) # {}
  <2>1. Spare(T) \in SUBSET Nat
    BY WorkflowAssumption DEF Spare
  <2>2. \E i \in Spare(T) : \A h \in Spare(T) : i <= h
    BY <1>2, <2>1, Least
  <2>3. j \in Nat
    BY <2>1, <2>2
  <2>4. Plus(T, delay) = [T EXCEPT ![j] = row]
    BY <1>2 DEF Plus
  <2> HIDE DEF j, row
  <2>5. j + 1 \in Nat /\ \A i \in Jobs : i >= j + 1 => i # j
    BY <2>3, WorkflowAssumption
  <2>6. \A i \in Jobs : i >= j + 1 => Plus(T, delay)[i] = T[i]
    BY <2>4, <2>5
  <2> QED  BY <2>5, <2>6
<1> QED  BY <1>1, <1>2

(* Nor for a tick that came by. *)
LEMMA RetickedFew ==
  ASSUME NEW T \in [Jobs -> Ticks]
  PROVE  \E m \in Nat : \A j \in Jobs : j >= m => Reticked(T)[j] = T[j]
BY PlusFew DEF Reticked

(* Nor both. *)
LEMMA BothFew ==
  ASSUME NEW T \in [Jobs -> Ticks], NEW delay \in Int
  PROVE  \E m \in Nat : \A j \in Jobs : j >= m => Reticked(Plus(T, delay))[j] = T[j]
<1>1. PICK U : U = Plus(T, delay)
  OBVIOUS
<1>2. U \in [Jobs -> Ticks]
  BY <1>1, PlusType
<1>3. PICK m \in Nat : \A j \in Jobs : j >= m => U[j] = T[j]
  BY <1>1, PlusFew
<1>4. PICK n \in Nat : \A j \in Jobs : j >= n => Reticked(U)[j] = U[j]
  BY <1>2, RetickedFew
<1>5. PICK l \in Nat : l >= m /\ l >= n
  BY <1>3, <1>4
<1>6. \A j \in Jobs : j >= l => j >= m /\ j >= n
  BY <1>5, WorkflowAssumption
<1> QED  BY <1>1, <1>3, <1>4, <1>5, <1>6

(* Only so many tick jobs are new after a step. *)
LEMMA FewNew ==
  ASSUME Counted, [Next]_vars
  PROVE  \E m \in Nat : \A j \in Jobs : j >= m => ~TickNew(j)
<1>0. TypeOK /\ SoundPasses /\ tick \in [Jobs -> Ticks]
  BY DEF Counted, TypeOK
<1>1. ASSUME \E m \in Nat : \A j \in Jobs : j >= m => tick'[j] = tick[j]
      PROVE  \E m \in Nat : \A j \in Jobs : j >= m => ~TickNew(j)
  <2>1. PICK m \in Nat : \A j \in Jobs : j >= m => tick'[j] = tick[j]
    BY <1>1
  <2>2. \A j \in Jobs : j >= m => ~TickNew(j)
    BY <2>1 DEF TickNew
  <2> QED  BY <2>2
<1>2. ASSUME NEW j \in Jobs, \A i \in Jobs : i # j => tick'[i] = tick[i]
      PROVE  \E m \in Nat : \A i \in Jobs : i >= m => tick'[i] = tick[i]
  <2>1. j \in Nat /\ j + 1 \in Nat /\ \A i \in Jobs : i >= j + 1 => i # j
    BY WorkflowAssumption
  <2> QED  BY <1>2, <2>1
<1>3. CASE tick' = tick
  <2>1. \A j \in Jobs : j >= 0 => tick'[j] = tick[j]
    BY <1>3
  <2> QED  BY <1>1, <2>1
<1>4. ASSUME NEW p \in Procs, PassStep(p)
      PROVE  \E m \in Nat : \A j \in Jobs : j >= m => ~TickNew(j)
  <2>1. CASE complete(p) \/ fail(p) \/ deadLetter(p)
    <3>1. pass[p].job \in Jobs
      BY <1>0, <2>1 DEF complete, fail, deadLetter, SoundPasses, SoundPass
    <3>2. \A i \in Jobs : i # pass[p].job => tick'[i] = tick[i]
      BY <1>0, <2>1 DEF complete, fail, deadLetter, Reports
    <3> QED  BY <1>1, <1>2, <3>1, <3>2
  <2>2. CASE letGo(p) \/ tickDeadLettered(p)
    <3>1. tick' = tick \/ tick' = Reticked(tick)
      BY <2>2 DEF letGo, LetsGo, tickDeadLettered
    <3> QED  BY <1>0, <1>1, <1>3, <3>1, RetickedFew
  <2>3. CASE finish(p)
    <3>1. HasWake(p) => WakeAt(p) - Now(p) \in Int
      <4>1. HasWake(p) => pass[p].key \in Keys
        BY <1>0, <2>3 DEF finish, HasWake, SoundPasses, SoundPass
      <4> QED
        BY <1>0, <4>1, RowFields, WorkflowAssumption DEF WakeAt, Now, TypeOK
    <3>2. \/ tick' = Reticked(tick) \/ tick' = Reticked(Plus(tick, 0))
          \/ HasWake(p) /\ tick' = Reticked(Plus(tick, WakeAt(p) - Now(p)))
      BY <2>3 DEF finish, LetsGo
    <3>3. tick' = Reticked(tick) \/ \E delay \in Int : tick' = Reticked(Plus(tick, delay))
      BY <3>1, <3>2
    <3> QED  BY <1>0, <1>1, <3>3, RetickedFew, BothFew
  <2>4. CASE \/ acquire(p) \/ suspend(p) \/ loseLease(p) \/ seeCancelled(p) \/ runStep(p) \/ returns(p)
             \/ throws(p) \/ sleepStep(p) \/ waitStep(p) \/ batchStep(p) \/ findBatch(p) \/ recordBatch(p)
    BY <1>3, <2>4 DEF acquire, suspend, loseLease, seeCancelled, runStep, returns, throws, sleepStep,
                waitStep, batchStep, findBatch, recordBatch
  <2> QED  BY <1>4, <2>1, <2>2, <2>3, <2>4 DEF PassStep
<1>5. ASSUME NEW p \in Procs, NEW j \in Jobs, claim(p, j)
      PROVE  \E m \in Nat : \A i \in Jobs : i >= m => ~TickNew(i)
  <2>1. \A i \in Jobs : i # j => tick'[i] = tick[i]
    BY <1>0, <1>5 DEF claim
  <2> QED  BY <1>1, <1>2, <2>1
<1>6. ASSUME NEW j \in Jobs, LapseJob(j)
      PROVE  \E m \in Nat : \A i \in Jobs : i >= m => ~TickNew(i)
  <2>1. \A i \in Jobs : i # j => tick'[i] = tick[i]
    BY <1>0, <1>6 DEF LapseJob
  <2> QED  BY <1>1, <1>2, <2>1
<1>7. ASSUME \/ \E p \in Procs : renew(p) \/ storeRejects(p) \/ crash(p)
             \/ LapseHold \/ UNCHANGED vars
      PROVE  tick' = tick
  BY <1>7 DEF renew, storeRejects, crash, LapseHold, vars
<1>8. ASSUME \/ cancel
             \/ \E k \in Keys : signal(k) \/ BatchEnds(k, "succeeded") \/ BatchEnds(k, "failed")
      PROVE  \E m \in Nat : \A i \in Jobs : i >= m => ~TickNew(i)
  <2>1. tick' = tick \/ tick' = Plus(tick, 0)
    BY <1>8 DEF signal, BatchEnds, cancel
  <2> QED  BY <1>0, <1>1, <1>3, <2>1, PlusFew
<1>9. ASSUME Elapse
      PROVE  \E m \in Nat : \A i \in Jobs : i >= m => ~TickNew(i)
  <2>1. \A j \in Jobs : tick'[j].at = tick[j].at
    BY <1>9 DEF Elapse, Tick
  <2>2. \A j \in Jobs : j >= 0 => ~TickNew(j)
    BY <2>1 DEF TickNew
  <2> QED  BY <2>2
<1> QED  BY <1>3, <1>4, <1>5, <1>6, <1>7, <1>8, <1>9 DEF Next

(* Only so many are used then, too. *)
LEMMA RoomyStays ==
  ASSUME Counted, Roomy, [Next]_vars
  PROVE  Roomy'
<1>0. TypeOK /\ SoundPasses /\ SoundSteps
  BY DEF Counted
<1>1. PICK n \in Nat : \A j \in Jobs : j >= n => Unused(j)
  BY DEF Roomy
<1>2. PICK m \in Nat : \A j \in Jobs : j >= m => ~TickNew(j)
  BY FewNew
<1>3. PICK l \in Nat : l >= m /\ l >= n
  BY <1>1, <1>2
<1> SUFFICES ASSUME NEW j \in Jobs, j >= l
             PROVE  tick'[j].at = "none" /\ wf'.job # j /\ \A p \in Procs : pass'[p].job # j
  BY DEF Roomy, Unused
<1>4. Unused(j) /\ ~TickNew(j)
  BY <1>1, <1>2, <1>3, WorkflowAssumption
<1>5. \A p \in Procs : ~claim(p, j)
  BY <1>4 DEF Unused, claim, Claimable
<1>6. tick'[j].at = "none"
  <2>1. ~LapseJob(j)
    BY <1>4 DEF Unused, LapseJob
  <2>2. \A p \in Procs : ~(j = pass[p].job)
    BY <1>4 DEF Unused
  <2>3. TickKept(j)
    BY <1>0, <1>4, <1>5, <2>1, <2>2, NextTicks
  <2> QED  BY <1>4, <2>3 DEF Unused, TickKept
<1>7. ASSUME NEW p \in Procs
      PROVE  pass'[p].job # j
  <2>1. Idle.job = NoJob /\ NoJob # j
    BY WorkflowAssumption DEF Idle, Pass
  <2>2. ASSUME NEW i \in Jobs, claim(p, i)
        PROVE  pass'[p].job = i
    BY <1>0, <2>2 DEF claim, Pass, TypeOK
  <2> QED  BY <1>0, <1>4, <1>5, <2>1, <2>2, NextPass DEF Unused
<1>8. wf'.job # j
  <2>1. NoJob # j
    BY WorkflowAssumption
  <2>2. \A p \in Procs : Takes(p) => wf'.job = pass[p].job
    BY DEF Takes, Workflow
  <2> QED  BY <1>0, <1>4, <2>1, <2>2, NextHold DEF HoldKept, Unused
<1> QED  BY <1>6, <1>7, <1>8

-----------------------------------------------------------------------------
(* So it is never stranded.                                                *)

ComingOn == Over \/ (Known /\ HeldComes /\ Signals /\ Finishing /\ Advancing)

(* What holds beside it, of every workflow. *)
Sound == Advanced /\ LetGoEnded /\ Waits /\ BatchThere /\ Looking /\ WakeTick /\ Roomy

(* It goes on so. *)
LEMMA ComingOnStays ==
  ASSUME Jobs = Nat, Sound, ComingOn, [Next]_vars
  PROVE  ComingOn'
<1>1. Spare(tick) # {} /\ Counted
  BY RoomySpare DEF Sound, Advanced
<1>2. CASE Over'
  BY <1>2 DEF ComingOn
<1>3. CASE ~Over'
  <2>1. Known /\ HeldComes /\ Signals /\ Finishing /\ Advancing
    BY <1>1, <1>3, OverStays DEF ComingOn
  <2>2. Known' /\ HeldComes'
    BY <1>1, <1>3, <2>1, KnownStays, HeldComesStays
  <2>3. Signals'
    BY <1>1, <1>3, <2>1, SignalsStay
  <2>4. Finishing'
    BY <1>1, <1>3, <2>1, FinishingStays DEF Sound
  <2>5. Advancing'
    BY <1>1, <1>3, <2>1, AdvancingStays DEF Sound
  <2> QED  BY <2>2, <2>3, <2>4, <2>5 DEF ComingOn
<1> QED  BY <1>2, <1>3

(* At first the one tick job comes. *)
LEMMA InitComing ==
  ASSUME Init, ClocksAgree
  PROVE  LetGoEnded /\ Waits /\ BatchThere /\ Looking /\ WakeTick /\ Roomy /\ ComingOn
<1>1. \A k \in Keys : step[k].status = "none"
  BY DEF Init, Step
<1>2. \A p \in Procs : pass[p].stage = "idle" /\ pass[p].job = NoJob
  BY DEF Init, Idle, Pass
<1>3. wf.job = NoJob /\ wf.wakeAt = Past
  BY DEF Init, Workflow
<1>4. PICK first \in Jobs :
        tick = [j \in Jobs |-> IF j = first THEN Tick("pending", 0, 0, "live") ELSE NoTick]
  BY DEF Init
<1>5. tick[first].at = "pending" /\ \A j \in Jobs : j # first => tick[j].at = "none"
  BY <1>4 DEF Tick, NoTick
<1>6. WakeTick
  <2>1. \A p \in Procs : Now(p) \in Int /\ Past \in Int /\ Past <= Now(p)
    BY WorkflowAssumption DEF ClocksAgree, Now, Past
  <2>2. \A p \in Procs : ~(wf.wakeAt > Now(p))
    BY <1>3, <2>1
  <2> QED  BY <2>2 DEF WakeTick
<1>7. Roomy
  <2>1. first + 1 \in Nat /\ \A j \in Jobs : j >= first + 1 => j # first /\ j # NoJob
    BY WorkflowAssumption
  <2> QED  BY <1>2, <1>3, <1>5, <2>1 DEF Roomy, Unused
<1>8. Coming(first)
  BY <1>5, PendingComes
<1>9. LetGoEnded /\ Waits /\ BatchThere /\ Looking
  BY <1>1, <1>2 DEF LetGoEnded, Waits, BatchThere, Looking
<1>10. Known /\ Signals /\ Finishing
  BY <1>2 DEF Known, Signals, Finishing, Arriving, Inside, Stepping
<1>11. HeldComes /\ Advancing
  BY <1>3, <1>8 DEF HeldComes, Advancing
<1> QED  BY <1>6, <1>7, <1>9, <1>10, <1>11 DEF ComingOn

(* All of it, always. *)
LEMMA AlwaysComing ==
  ASSUME Jobs = Nat, ClocksAgree
  PROVE  Spec => [](Sound /\ ComingOn)
<1> DEFINE Rest == LetGoEnded /\ Waits /\ BatchThere /\ Looking /\ WakeTick /\ Roomy /\ ComingOn
<1>1. Init => Rest
  BY InitComing
<1>2. Advanced /\ Rest /\ [Next]_vars => Rest'
  <2> SUFFICES ASSUME Advanced, Rest, [Next]_vars
               PROVE  Rest'
    OBVIOUS
  <2>1. Counted /\ Spare(tick) # {}
    BY RoomySpare DEF Advanced
  <2>2. LetGoEnded' /\ Waits' /\ BatchThere' /\ Looking' /\ Roomy'
    BY <2>1, LetGoEndedStays, RowsStay, LookingStays, RoomyStays
  <2>3. WakeTick'
    BY <2>1, WakeTickStays
  <2>4. ComingOn'
    BY ComingOnStays DEF Sound
  <2> QED  BY <2>2, <2>3, <2>4
<1>3. Advanced /\ Rest => Sound /\ ComingOn
  BY DEF Sound
<1> HIDE DEF Rest
<1> QED  BY <1>1, <1>2, <1>3, AlwaysAdvanced, PTL DEF Spec

(* A workflow that has not ended, and whose tick has not run out of        *)
(* attempts, has a tick in the queue or waits for somebody: whatever       *)
(* finish(), acquire() and the callers leave to a tick that is there       *)
(* already, and whatever crashes, stalls or is rejected, while the clocks  *)
(* of the processes agree (the `early` run has two that do not) and there  *)
(* is no bound on the tick jobs there are at once. *)
THEOREM NothingStranded ==
  ASSUME Jobs = Nat, \A p, q \in Procs : Skew[p] = Skew[q] /\ -Horizon <= Skew[p]
  PROVE  Spec => []NeverStranded
<1>1. ClocksAgree
  BY DEF ClocksAgree, Past
<1>2. Sound /\ ComingOn => NeverStranded
  <2> SUFFICES ASSUME Sound, ComingOn, ~Over
               PROVE  Parked \/ \E j \in Jobs : Comes(j)
    BY DEF NeverStranded, Over
  <2>1. HeldComes /\ Advancing
    BY DEF ComingOn
  <2>2. CASE wf.job = NoJob
    BY <2>1, <2>2 DEF Advancing, Coming
  <2>3. CASE wf.job # NoJob
    <3>1. wf.job \in Jobs
      BY <2>3, RowFields DEF Sound, Advanced, Counted, TypeOK
    <3> QED  BY <2>1, <2>3, <3>1 DEF HeldComes
  <2> QED  BY <2>2, <2>3
<1> QED  BY <1>1, <1>2, AlwaysComing, PTL

-----------------------------------------------------------------------------
(* A tick job has attempts to spare.                                       *)

(* What the mishaps come to, but for the faults. *)
Blows == mishaps.crashes + mishaps.stalls

(* A mishap is counted, and each is counted once. *)
LEMMA BlowsMove ==
  ASSUME TypeOK, [Next]_vars, mishaps'.faults = 0
  PROVE  /\ mishaps.faults = 0 /\ Blows \in Nat /\ Blows' \in Nat
         /\ \A p \in Procs : ~storeRejects(p)
         /\ Blows' = Blows \/ (Blows' = Blows + 1 /\ Blows < MaxMishaps)
         /\ (\E p \in Procs : crash(p)) \/ (\E j \in Jobs : LapseJob(j)) => Blows' = Blows + 1
<1>1. mishaps \in [crashes : Nat, stalls : Nat, faults : Nat]
  BY DEF TypeOK
<1>2. ~Mishap("faults")
  BY <1>1 DEF Mishap
<1>3. \A p \in Procs : ~storeRejects(p)
  BY <1>2 DEF storeRejects
<1>4. ASSUME Mishap("crashes") \/ Mishap("stalls")
      PROVE  mishaps.faults = 0 /\ Blows' = Blows + 1 /\ Blows < MaxMishaps /\ Blows \in Nat /\ Blows' \in Nat
  BY <1>1, <1>4 DEF Mishap, Blows
<1>5. ASSUME mishaps' = mishaps
      PROVE  mishaps.faults = 0 /\ Blows' = Blows /\ Blows \in Nat /\ Blows' \in Nat
  BY <1>1, <1>5 DEF Blows
<1>6. ASSUME (\E p \in Procs : crash(p)) \/ (\E j \in Jobs : LapseJob(j))
      PROVE  Mishap("crashes") \/ Mishap("stalls")
  BY <1>6 DEF crash, LapseJob
<1>7. mishaps' = mishaps \/ Mishap("crashes") \/ Mishap("stalls")
  <2>1. ASSUME \/ \E p \in Procs : PassStep(p) \/ renew(p) \/ \E j \in Jobs : claim(p, j)
               \/ cancel \/ Elapse \/ UNCHANGED vars
               \/ \E k \in Keys : signal(k) \/ BatchEnds(k, "succeeded") \/ BatchEnds(k, "failed")
        PROVE  mishaps' = mishaps
    BY <2>1 DEF PassStep, acquire, letGo, LetsGo, suspend, loseLease, seeCancelled, runStep, returns, throws,
                sleepStep, waitStep, batchStep, findBatch, recordBatch, finish, tickDeadLettered, complete,
                fail, deadLetter, Reports, renew, claim, cancel, Elapse, vars, signal, BatchEnds
  <2> QED  BY <1>3, <1>6, <2>1 DEF Next, LapseHold
<1> QED  BY <1>3, <1>4, <1>5, <1>6, <1>7

(* The stages of a pass that fails. *)
Failing == {"retry", "bury", "dead", "late"}

(* A pass that does not fail goes on, or has reported. *)
LEMMA PassGoes ==
  ASSUME Counted, NEW p \in Procs, PassStep(p), pass[p].stage \notin Failing
  PROVE  complete(p) \/ pass'[p].stage \in AtWork \union {"letgo", "report"}
<1>0. TypeOK /\ SoundPasses /\ SoundSteps /\ pass \in [Procs -> Passes]
  BY DEF Counted, TypeOK
<1>1. \A stage : To(p, stage) \/ Leaves(p, stage) => pass'[p].stage = stage
  BY <1>0 DEF To, Leaves, Pass
<1>2. \A outcome : Finishes(p, outcome) => pass'[p].stage = "finish"
  BY <1>0 DEF Finishes, Pass
<1>3. ASSUME GoesOn(p), pass[p].stage \in Stepping
      PROVE  pass'[p].stage \in AtWork
  <2> DEFINE r == Arrived(pass[p], pass[p].key + 1)
  <2>1. pass[p] \in Passes /\ pass[p].key \in Nat /\ pass[p].key + 1 \in Nat
    BY <1>0, PassFields
  <2>2. pass[p].job \in Jobs /\ \A k \in Keys : SoundStatus(step[k].kind, pass[p].cached[k])
    BY <1>0, <1>3 DEF SoundPasses, SoundPass, Stepping
  <2>3. r.stage \in {"steps", "look", "finish"}
    BY <1>0, <2>1, <2>2, Arrives
  <2>4. pass'[p] = r
    BY <1>0, <1>3 DEF GoesOn
  <2> HIDE DEF r
  <2> QED  BY <2>3, <2>4 DEF AtWork, Stepping
<1>4. CASE acquire(p)
  <2>1. CASE Busy(p)
    BY <1>1, <1>4, <2>1 DEF acquire
  <2>2. CASE ~Busy(p)
    BY <1>4, <2>2, TakesTo
  <2> QED  BY <2>1, <2>2
<1>5. CASE letGo(p) \/ loseLease(p) \/ finish(p)
  BY <1>1, <1>5 DEF letGo, loseLease, finish, LetsGo
<1>6. CASE \/ suspend(p) \/ seeCancelled(p) \/ runStep(p) \/ returns(p) \/ throws(p) \/ sleepStep(p)
           \/ waitStep(p) \/ batchStep(p) \/ findBatch(p) \/ recordBatch(p)
  <2>1. \/ \E stage \in Stepping : To(p, stage)
        \/ \E outcome : Finishes(p, outcome)
        \/ GoesOn(p) /\ pass[p].stage \in Stepping
    BY <1>6 DEF suspend, seeCancelled, runStep, returns, throws, sleepStep, waitStep, batchStep, findBatch,
                recordBatch, Reaches, Stepping
  <2> QED  BY <1>1, <1>2, <1>3, <2>1 DEF AtWork
<1>7. ~(tickDeadLettered(p) \/ fail(p) \/ deadLetter(p))
  BY DEF tickDeadLettered, fail, deadLetter, Failing
<1> QED  BY <1>4, <1>5, <1>6, <1>7 DEF PassStep

(* With no fault a tick job is claimed once, and once more for a crash or  *)
(* a stall of its pass; no pass fails. *)
Spared ==
  mishaps.faults = 0 =>
    /\ Blows <= MaxMishaps
    /\ \A p \in Procs : pass[p].stage \notin Failing
    /\ \A j \in Jobs :
         /\ tick[j].at # "dead"
         /\ tick[j].at = "pending" => tick[j].attempt = 0
         /\ tick[j].at = "claimed" => tick[j].attempt <= Blows + 1
         /\ tick[j].at = "claimed" /\ (tick[j].lease = "lapsed" \/ ~Extended(j)) => tick[j].attempt <= Blows

(* A pass that extends the lease of its tick job goes on to. *)
LEMMA ExtendedStays ==
  ASSUME Counted, Spared, [Next]_vars, mishaps'.faults = 0, NEW j \in Jobs, Extended(j),
         tick[j].at = "claimed", tick'[j].at = "claimed", tick'[j].attempt = tick[j].attempt,
         \A p \in Procs : ~crash(p)
  PROVE  Extended(j)'
<1>0. TypeOK /\ SoundPasses /\ SoundSteps /\ tick \in [Jobs -> Ticks] /\ pass \in [Procs -> Passes]
  BY DEF Counted, TypeOK
<1>1. PICK p \in Procs : pass[p].job = j /\ pass[p].attempt = tick[j].attempt
  BY DEF Extended
<1>2. pass[p].stage # "idle"
  BY <1>1, WorkflowAssumption DEF Counted, IdleHasNone
<1>3. mishaps.faults = 0 /\ ~storeRejects(p)
  BY <1>0, BlowsMove
<1>4. \A i \in Jobs : ~claim(p, i)
  BY <1>2 DEF claim
<1>5. ~complete(p)
  BY <1>0, <1>1 DEF complete, Reports, Current, NoTick, Tick
<1>6. pass'[p] # Idle
  <2> SUFFICES ASSUME pass'[p] = Idle PROVE FALSE
    OBVIOUS
  <2>1. pass'[p].stage = "idle" /\ pass'[p] # pass[p]
    BY <1>2 DEF Idle, Pass
  <2>2. ~PassStep(p)
    BY <1>3, <1>5, <2>1, PassGoes DEF Spared, AtWork, Stepping
  <2>3. ASSUME NEW q \in Procs, q # p, PassStep(q) \/ storeRejects(q) \/ crash(q)
        PROVE  pass'[p] = pass[p]
    <3>1. Gone(q) \/ \E r : GoesOnIn(q, r)
      BY <1>0, <2>3, PassMoves
    <3> QED  BY <1>0, <2>3, <3>1 DEF Gone, GoesOnIn
  <2>4. ASSUME NEW q \in Procs, NEW i \in Jobs, claim(q, i)
        PROVE  pass'[p] = pass[p]
    BY <1>0, <1>4, <2>4 DEF claim
  <2>5. ASSUME \/ \E q \in Procs : renew(q)
               \/ \E i \in Jobs : LapseJob(i)
               \/ LapseHold \/ cancel \/ Elapse \/ UNCHANGED vars
               \/ \E k \in Keys : signal(k) \/ BatchEnds(k, "succeeded") \/ BatchEnds(k, "failed")
        PROVE  pass' = pass
    BY <2>5 DEF renew, LapseJob, LapseHold, cancel, Elapse, vars, signal, BatchEnds
  <2> QED  BY <1>3, <2>1, <2>2, <2>3, <2>4, <2>5 DEF Next
<1>7. pass'[p].job = pass[p].job /\ pass'[p].attempt = pass[p].attempt
  BY <1>0, <1>4, <1>6, NextPass
<1> QED  BY <1>1, <1>7 DEF Extended

(* Each claim after the first is for a mishap of its own. *)
LEMMA SparedStays ==
  ASSUME MaxMishaps < TickAttempts, Counted, Spared, [Next]_vars
  PROVE  Spared'
<1> SUFFICES ASSUME mishaps'.faults = 0
             PROVE  /\ Blows' <= MaxMishaps
                    /\ \A p \in Procs : pass'[p].stage \notin Failing
                    /\ \A j \in Jobs :
                         /\ tick'[j].at # "dead"
                         /\ tick'[j].at = "pending" => tick'[j].attempt = 0
                         /\ tick'[j].at = "claimed" => tick'[j].attempt <= Blows' + 1
                         /\ tick'[j].at = "claimed" /\ (tick'[j].lease = "lapsed" \/ ~Extended(j)') => tick'[j].attempt <= Blows'
  BY DEF Spared
<1>0. TypeOK /\ SoundPasses /\ SoundSteps /\ tick \in [Jobs -> Ticks] /\ pass \in [Procs -> Passes]
      /\ MaxMishaps \in Nat /\ TickAttempts \in Nat
  BY WorkflowAssumption DEF Counted, TypeOK
<1>1. /\ mishaps.faults = 0 /\ Blows \in Nat /\ Blows' \in Nat
      /\ \A p \in Procs : ~storeRejects(p)
      /\ Blows' = Blows \/ (Blows' = Blows + 1 /\ Blows < MaxMishaps)
      /\ (\E p \in Procs : crash(p)) \/ (\E j \in Jobs : LapseJob(j)) => Blows' = Blows + 1
  BY <1>0, BlowsMove
<1>2. /\ Blows <= MaxMishaps
      /\ \A p \in Procs : pass[p].stage \notin Failing
      /\ \A j \in Jobs :
           /\ tick[j].at # "dead"
           /\ tick[j].at = "pending" => tick[j].attempt = 0
           /\ tick[j].at = "claimed" => tick[j].attempt <= Blows + 1
           /\ tick[j].at = "claimed" /\ (tick[j].lease = "lapsed" \/ ~Extended(j)) => tick[j].attempt <= Blows
  BY <1>1 DEF Spared
<1>3. \A j \in Jobs : tick[j].attempt \in Nat /\ tick[j].lease \in {"live", "lapsed"}
  BY <1>0, RowFields
<1>4. ASSUME NEW p \in Procs, NEW j \in Jobs, claim(p, j)
      PROVE  /\ tick'[j].at = "claimed" /\ tick'[j].attempt = tick[j].attempt + 1 /\ tick'[j].lease = "live"
             /\ tick[j].attempt <= Blows /\ tick[j].attempt < TickAttempts
             /\ pass'[p].job = j /\ pass'[p].attempt = tick[j].attempt + 1 /\ pass'[p].stage = "take"
  <2>1. tick[j].attempt <= Blows
    <3>1. CASE tick[j].at = "pending"
      BY <1>1, <1>2, <3>1
    <3>2. CASE tick[j].at = "claimed" /\ (tick[j].lease = "lapsed" \/ ~Extended(j))
      BY <1>2, <3>2
    <3> QED  BY <1>4, <3>1, <3>2 DEF claim, Claimable
  <2>2. tick[j].attempt < TickAttempts
    BY <1>0, <1>1, <1>2, <1>3, <2>1
  <2>3. ~(tick[j].attempt + 1 > TickAttempts)
    BY <1>0, <1>3, <2>2
  <2>4. pass' = [pass EXCEPT ![p] = Pass(j, tick[j].attempt + 1, "take", "run", 0, Idle.cached, "none")]
    BY <1>4, <2>3 DEF claim
  <2>5. pass'[p].job = j /\ pass'[p].attempt = tick[j].attempt + 1 /\ pass'[p].stage = "take"
    BY <1>0, <2>4 DEF Pass
  <2>6. tick'[j].at = "claimed" /\ tick'[j].attempt = tick[j].attempt + 1 /\ tick'[j].lease = "live"
    BY <1>0, <1>4 DEF claim, Tick
  <2> QED  BY <2>1, <2>2, <2>5, <2>6
<1>5. ASSUME NEW p \in Procs
      PROVE  pass'[p].stage \notin Failing
  <2>1. CASE pass'[p] = pass[p]
    BY <1>2, <2>1
  <2>2. CASE pass'[p] = Idle
    BY <2>2 DEF Idle, Pass, Failing
  <2>3. CASE PassStep(p) /\ pass'[p].stage # "idle"
    <3>1. complete(p) => pass'[p].stage = "idle"
      BY <1>0 DEF complete, Reports, Idle, Pass
    <3>2. pass'[p].stage \in AtWork \union {"letgo", "report"}
      BY <1>2, <2>3, <3>1, PassGoes
    <3> QED  BY <3>2 DEF AtWork, Stepping, Failing
  <2>4. ASSUME NEW j \in Jobs, claim(p, j)
        PROVE  pass'[p].stage \notin Failing
    BY <1>4, <2>4 DEF Failing
  <2> QED  BY <1>0, <1>1, <2>1, <2>2, <2>3, <2>4, NextPass
<1>6. ASSUME NEW j \in Jobs
      PROVE  /\ tick'[j].at # "dead"
             /\ tick'[j].at = "pending" => tick'[j].attempt = 0
             /\ tick'[j].at = "claimed" => tick'[j].attempt <= Blows' + 1
             /\ tick'[j].at = "claimed" /\ (tick'[j].lease = "lapsed" \/ ~Extended(j)') => tick'[j].attempt <= Blows'
  <2>1. CASE TickKept(j)
    <3>1. tick'[j].at = tick[j].at /\ tick'[j].attempt = tick[j].attempt /\ tick'[j].lease = tick[j].lease
      BY <2>1 DEF TickKept
    <3>2. tick[j].at = "claimed" => tick[j].attempt <= Blows' + 1
      BY <1>1, <1>2, <1>3
    <3>3. ASSUME tick[j].at = "claimed", tick[j].lease = "lapsed" \/ ~Extended(j)'
          PROVE  tick[j].attempt <= Blows'
      <4>1. CASE \E p \in Procs : crash(p)
        <5>1. tick[j].attempt <= Blows + 1
          BY <1>2, <3>3
        <5>2. Blows' = Blows + 1
          BY <1>1, <4>1
        <5> QED  BY <5>1, <5>2
      <4>2. CASE \A p \in Procs : ~crash(p)
        <5>1. tick[j].lease = "lapsed" \/ ~Extended(j)
          BY <3>1, <3>3, <4>2, ExtendedStays
        <5>2. tick[j].attempt <= Blows
          BY <1>2, <3>3, <5>1
        <5> QED  BY <1>1, <1>3, <5>2
      <4> QED  BY <4>1, <4>2
    <3> QED  BY <1>2, <3>1, <3>2, <3>3
  <2>2. CASE TickNew(j)
    BY <2>2 DEF TickNew
  <2>3. CASE LapseJob(j)
    <3>1. tick'[j].at = "claimed" /\ tick'[j].attempt = tick[j].attempt /\ tick[j].at = "claimed"
      BY <1>0, <2>3 DEF LapseJob, Tick
    <3>2. tick[j].attempt <= Blows + 1 /\ Blows' = Blows + 1
      BY <1>1, <1>2, <2>3, <3>1
    <3> QED  BY <1>1, <1>3, <3>1, <3>2
  <2>4. ASSUME NEW p \in Procs, claim(p, j)
        PROVE  /\ tick'[j].at = "claimed" /\ tick'[j].lease = "live" /\ Extended(j)'
               /\ tick'[j].attempt <= Blows' + 1
    <3>1. Extended(j)'
      BY <1>4, <2>4 DEF Extended
    <3>2. tick'[j].attempt <= Blows' + 1
      BY <1>1, <1>3, <1>4, <2>4
    <3> QED  BY <1>4, <2>4, <3>1, <3>2
  <2>5. ASSUME NEW p \in Procs, PassStep(p), j = pass[p].job, TickReported(p)
        PROVE  tick'[j].at = "none"
    <3>1. pass[p].stage = "report"
      BY <1>2, <2>5 DEF TickReported, Failing
    <3>2. complete(p)
      <4>1. pass'[p].stage \in {"idle", "late"}
        BY <2>5 DEF TickReported
      <4> QED  BY <1>2, <2>5, <4>1, PassGoes DEF AtWork, Stepping
    <3>3. Current(p)
      BY <2>5 DEF TickReported
    <3> QED  BY <1>0, <2>5, <3>2, <3>3 DEF complete, Reports, NoTick, Tick
  <2> QED  BY <1>0, <2>1, <2>2, <2>3, <2>4, <2>5, NextTicks
<1>7. Blows' <= MaxMishaps
  BY <1>0, <1>1, <1>2
<1> QED  BY <1>5, <1>6, <1>7

(* At first there is only one tick job, and it is pending. *)
LEMMA InitSpared ==
  ASSUME Init
  PROVE  Spared
<1>1. mishaps.crashes = 0 /\ mishaps.stalls = 0 /\ MaxMishaps \in Nat
  BY WorkflowAssumption DEF Init
<1>2. Blows <= MaxMishaps
  BY <1>1 DEF Blows
<1>3. \A p \in Procs : pass[p].stage = "idle"
  BY DEF Init, Idle, Pass
<1>4. \A j \in Jobs : tick[j].at \in {"none", "pending"} /\ tick[j].attempt = 0
  BY DEF Init, NoTick, Tick
<1> QED  BY <1>2, <1>3, <1>4 DEF Spared, Failing

-----------------------------------------------------------------------------
(* Where a workflow is suspended.                                          *)

(* A step that a pass has come to. *)
Begun(k) == step[k].status \notin {"none", "signalled"}

BegunNext(k) == step'[k].status \notin {"none", "signalled"}

(* No step of a method is begun before the ones before it are done. *)
InTurn == \A i, k \in Keys : i < k /\ step[i].mode = step[k].mode /\ Begun(k) => Done(i)

(* Only the pass with the hold begins a step, the one it is at. *)
LEMMA InTurnStays ==
  ASSUME Counted, Ordered, Reached, InTurn, [Next]_vars
  PROVE  InTurn'
<1>1. \A k \in Keys : Done(k) => DoneNext(k)
  BY OrderedStays
<1>2. \A k \in Keys : step'[k].mode = step[k].mode
  BY KindsStay DEF Counted, SameKinds
<1>3. \A k \in Keys : (Done(k)' <=> DoneNext(k)) /\ (Begun(k)' <=> BegunNext(k))
  BY DEF Done, DoneNext, Begun, BegunNext
<1>4. ASSUME NEW i \in Keys, NEW k \in Keys, i < k, step[i].mode = step[k].mode, BegunNext(k)
      PROVE  DoneNext(i)
  <2>1. CASE Begun(k)
    BY <1>1, <1>4, <2>1 DEF InTurn
  <2>2. CASE ~Begun(k)
    <3>1. PICK p \in Procs : PassStep(p) /\ ~UNCHANGED <<step, batch>>
      BY <1>4, <2>2, RowMoves DEF Begun, BegunNext
    <3>2. Writes(p) /\ pass[p].stage \in Stepping /\ pass[p].key = k
      BY <1>4, <2>2, <3>1, RecordsOf DEF Begun, BegunNext
    <3>3. step[k].mode = pass[p].mode
      BY <3>2 DEF Counted, SoundPasses, SoundPass
    <3> QED  BY <1>1, <1>4, <3>2, <3>3 DEF Reached, Writes
  <2> QED  BY <2>1, <2>2
<1> QED  BY <1>2, <1>3, <1>4 DEF InTurn

(* A pass is suspended at the first step that is not done. *)
Suspended ==
  \A p \in Procs : pass[p].stage = "finish" /\ pass[p].outcome \in {"sleeping", "waiting"} /\ Holds(p) =>
    /\ pass[p].key \in Keys /\ step[pass[p].key].mode = pass[p].mode
    /\ ~Done(pass[p].key)
    /\ \A k \in Keys : step[k].mode = pass[p].mode /\ k < pass[p].key => Done(k)

(* It stays the first: nobody else does a step. *)
LEMMA SuspendedStays ==
  ASSUME Advanced, Suspended, [Next]_vars
  PROVE  Suspended'
<1>0. Counted /\ Ordered /\ Reached /\ TypeOK /\ SoundPasses /\ SoundSteps /\ IdleHasNone /\ Apart
  BY DEF Advanced, Counted
<1>1. /\ \A k \in Keys : Done(k) => DoneNext(k)
      /\ \A k \in Keys : Done(k)' <=> DoneNext(k)
      /\ \A k \in Keys : step'[k].mode = step[k].mode
  BY <1>0, OrderedStays, KindsStay DEF Done, DoneNext, SameKinds
<1> SUFFICES ASSUME NEW p \in Procs, pass'[p].stage = "finish", pass'[p].outcome \in {"sleeping", "waiting"},
                    Holds(p)'
             PROVE  /\ pass'[p].key \in Keys /\ step[pass'[p].key].mode = pass'[p].mode
                    /\ ~DoneNext(pass'[p].key)
                    /\ \A k \in Keys : step[k].mode = pass'[p].mode /\ k < pass'[p].key => DoneNext(k)
  BY <1>1 DEF Suspended
<1>2. pass'[p].stage \in AtWork /\ pass'[p].stage \notin Stepping
  BY DEF AtWork, Stepping
<1>3. ~Takes(p)
  BY <1>0, <1>2, TakenAs
<1>4. Holds(p) /\ pass[p].stage \in AtWork /\ pass'[p].mode = pass[p].mode
      /\ (pass'[p] = pass[p] \/ ((PassStep(p) \/ storeRejects(p)) /\ ~acquire(p)))
  BY <1>0, <1>2, <1>3, TookOrHeld
<1>5. pass[p].stage # "idle"
  BY <1>4 DEF AtWork, Stepping
<1>6. CASE pass'[p] = pass[p]
  <2>1. PICK k \in Keys : k = pass[p].key
    BY <1>4, <1>6 DEF Suspended
  <2>2. ~Done(k) /\ step[k].mode = pass[p].mode /\ \A i \in Keys : step[i].mode = pass[p].mode /\ i < k => Done(i)
    BY <1>4, <1>6, <2>1 DEF Suspended
  <2>3. ASSUME DoneNext(k)
        PROVE  FALSE
    <3>1. PICK q \in Procs : Writes(q) /\ pass[q].stage \in Stepping
      BY <1>0, <2>2, <2>3, DoneMoves
    <3>2. q = p
      BY <1>0, <1>4, <1>5, <3>1, OneHolds DEF Writes
    <3> QED  BY <1>2, <1>6, <3>1, <3>2
  <2> QED  BY <1>1, <1>6, <2>1, <2>2, <2>3
<1>7. CASE (PassStep(p) \/ storeRejects(p)) /\ ~acquire(p)
  <2>1. ~GoesOn(p)
    <3> SUFFICES ASSUME GoesOn(p) PROVE FALSE
      OBVIOUS
    <3>1. pass'[p] = Arrived(pass[p], pass[p].key + 1)
      BY <1>0 DEF GoesOn, TypeOK
    <3> QED  BY <3>1, ArrivesLooking
  <2>2. /\ pass[p].stage \in Stepping /\ pass'[p].key = pass[p].key
        /\ step' = step \/ ~DoneNext(pass[p].key)
    BY <1>0, <1>2, <1>7, <2>1, WorkMoves
  <2>3. PICK k \in Keys : k = pass[p].key
    BY <1>0, <2>2 DEF SoundPasses, SoundPass
  <2>4. ~Done(k) /\ step[k].mode = pass[p].mode /\ \A i \in Keys : step[i].mode = pass[p].mode /\ i < k => Done(i)
    BY <1>0, <1>4, <2>2, <2>3 DEF Reached, SoundPasses, SoundPass
  <2>5. ~DoneNext(k)
    BY <2>2, <2>3, <2>4 DEF Done, DoneNext
  <2> QED  BY <1>1, <1>4, <2>2, <2>3, <2>4, <2>5
<1> QED  BY <1>4, <1>6, <1>7

-----------------------------------------------------------------------------
(* A tick is there in time.                                                *)

(* With no fault a tick job that is claimed is so until it has reported.   *)
LEMMA ClaimedStays ==
  ASSUME Counted, Spared, [Next]_vars, ~Over', mishaps'.faults = 0, NEW j \in Jobs, tick[j].at = "claimed",
         \A p \in Procs : pass[p].stage = "report" /\ Current(p) => pass[p].job # j
  PROVE  tick'[j].at = "claimed"
<1>0. TypeOK /\ SoundPasses /\ tick \in [Jobs -> Ticks]
  BY DEF Counted, TypeOK
<1>1. \A p \in Procs : pass[p].stage # "retry"
  BY <1>0, BlowsMove DEF Spared, Failing
<1>2. TickKept(j) => tick'[j].at = "claimed"
  BY DEF TickKept
<1>3. LapseJob(j) => tick'[j].at = "claimed"
  BY <1>0 DEF LapseJob, Tick
<1>4. ~TickNew(j)
  BY DEF TickNew
<1>5. ASSUME NEW p \in Procs, claim(p, j)
      PROVE  tick'[j].at = "claimed"
  BY <1>0, <1>5 DEF claim, Tick
<1>6. ASSUME NEW p \in Procs, PassStep(p), j = pass[p].job, TickReported(p)
      PROVE  FALSE
  <2>1. pass[p].stage = "report" \/ tick'[j].at = "dead"
    BY <1>0, <1>1, <1>6, ReportedAs
  <2>2. tick'[j].at # "dead"
    BY DEF Over, Buried
  <2>3. Current(p)
    BY <1>6 DEF TickReported
  <2> QED  BY <1>6, <2>1, <2>2, <2>3
<1> QED  BY <1>0, <1>2, <1>3, <1>4, <1>5, <1>6, NextTicks

(* So is the one that has the workflow. *)
HeldClaimed == wf.job # NoJob => tick[wf.job].at = "claimed"

(* It lets go before it reports. *)
LEMMA HeldClaimedStays ==
  ASSUME Counted, Known, Spared, HeldClaimed, [Next]_vars, ~Over', mishaps'.faults = 0
  PROVE  HeldClaimed'
<1> SUFFICES ASSUME wf'.job # NoJob
             PROVE  tick'[wf'.job].at = "claimed"
  BY DEF HeldClaimed
<1>0. TypeOK /\ SoundPasses
  BY DEF Counted
<1>1. CASE HoldKept
  <2>1. wf.job \in Jobs /\ wf'.job = wf.job /\ tick[wf.job].at = "claimed"
    BY <1>0, <1>1, RowFields DEF HoldKept, HeldClaimed, TypeOK
  <2>2. \A p \in Procs : pass[p].stage = "report" /\ Current(p) => pass[p].job # wf.job
    BY DEF Known, Arriving
  <2> QED  BY <2>1, <2>2, ClaimedStays
<1>2. ASSUME NEW p \in Procs, Takes(p)
      PROVE  tick'[wf'.job].at = "claimed"
  <2>1. Current(p)
    BY <1>2, OverStays DEF Takes
  <2>2. wf'.job = pass[p].job /\ tick' = tick
    BY <1>2 DEF Takes, acquire, Workflow
  <2> QED  BY <2>1, <2>2 DEF Current
<1> QED  BY <1>0, <1>1, <1>2, NextHold

(* A step whose moment is to wake the workflow, and a tick job that does.  *)
Sleeps(k) ==
  \/ step[k].status \in {"sleeping", "retrying"}
  \/ step[k].status = "waiting" /\ step[k].kind = "timed"
Wakes(j, k) ==
  \/ tick[j].at = "claimed"
  \/ tick[j].at = "pending" /\ tick[j].due <= Latest(step[k].wakeAt)

(* A tick job comes to advance a workflow that nobody has, in time.        *)
WokenFree ==
  wf.job = NoJob => \A k \in StepsOf(Mode) : Sleeps(k) => \E j \in Jobs : Coming(j) /\ Wakes(j, k)

(* One that is due is in time for all. *)
LEMMA DueWakes ==
  ASSUME Counted, [Next]_vars, NEW j \in Jobs, tick'[j].at = "pending", tick'[j].due = 0
  PROVE  WokenFree'
<1>1. step' \in [Keys -> StepRows]
  BY CountedStays DEF Counted, TypeOK
<1>2. ASSUME NEW k \in Keys
      PROVE  Wakes(j, k)'
  <2>1. step'[k].wakeAt \in Int
    BY <1>1, RowFields
  <2>2. 0 <= Latest(step'[k].wakeAt)
    BY <2>1 DEF Latest
  <2> QED  BY <2>2 DEF Wakes
<1>3. Coming(j)'
  BY PendingComesNext
<1>4. StepsOf(Mode)' \subseteq Keys
  BY DEF StepsOf
<1> QED  BY <1>2, <1>3, <1>4 DEF WokenFree

(* What a step that nobody writes waits until. *)
LEMMA RowWaits ==
  ASSUME Counted, [Next]_vars, NEW k \in Keys, \A p \in Procs : PassStep(p) => UNCHANGED <<step, batch>>
  PROVE  \/ step'[k] = step[k] /\ ~Elapse
         \/ Elapse /\ step'[k].status = step[k].status /\ step'[k].wakeAt = Earlier(step[k].wakeAt, Past)
         \/ step'[k].status = "signalled"
<1>0. step \in [Keys -> StepRows]
  BY DEF Counted, TypeOK
<1>1. ASSUME \/ \E p \in Procs : renew(p) \/ storeRejects(p) \/ crash(p) \/ \E j \in Jobs : claim(p, j)
             \/ \E j \in Jobs : LapseJob(j)
             \/ LapseHold \/ UNCHANGED vars \/ cancel
             \/ \E p \in Procs : PassStep(p)
             \/ \E i \in Keys : BatchEnds(i, "succeeded") \/ BatchEnds(i, "failed")
      PROVE  step' = step
  BY <1>1 DEF renew, storeRejects, crash, claim, LapseJob, LapseHold, vars, cancel, BatchEnds
<1>2. ASSUME Elapse
      PROVE  step'[k].status = step[k].status /\ step'[k].wakeAt = Earlier(step[k].wakeAt, Past)
  BY <1>2 DEF Elapse, Step
<1>3. ASSUME NEW i \in Keys, signal(i)
      PROVE  step'[k] = step[k] \/ step'[k].status = "signalled"
  BY <1>0, <1>3 DEF signal, Records, Step
<1> QED  BY <1>1, <1>2, <1>3 DEF Next

(* Time brings both nearer. *)
LEMMA EarlierBoth ==
  ASSUME NEW due \in Int, NEW wakeAt \in Int, due <= Latest(wakeAt)
  PROVE  Earlier(due, 0) <= Latest(Earlier(wakeAt, Past))
<1>1. Past \in Int /\ Past <= 0
  BY WorkflowAssumption DEF Past
<1> QED  BY <1>1 DEF Earlier, Latest

(* While nobody has the workflow the tick that comes goes on to be in time. *)
LEMMA FreeWaits ==
  ASSUME Counted, Spared, WokenFree, Spare(tick) # {}, [Next]_vars, ~Over', mishaps'.faults = 0,
         wf.job = NoJob, wf'.job = NoJob
  PROVE  WokenFree'
<1>0. TypeOK /\ SoundPasses /\ tick \in [Jobs -> Ticks] /\ step \in [Keys -> StepRows]
  BY DEF Counted, TypeOK
<1>1. CASE cancel
  <2>1. tick' = Plus(tick, 0)
    BY <1>1 DEF cancel
  <2>2. PICK j \in Spare(tick) : tick'[j].at = "pending" /\ tick'[j].due = 0
    BY <1>0, <2>1, PlusComes
  <2>3. j \in Jobs
    BY <2>2 DEF Spare
  <2> QED  BY <2>2, <2>3, DueWakes
<1>2. CASE ~cancel
  <2>1. wf'.status = wf.status
    BY <1>2, FreeStatus
  <2>2. \A p \in Procs : PassStep(p) => UNCHANGED <<step, batch>>
    <3> SUFFICES ASSUME NEW p \in Procs, PassStep(p), ~UNCHANGED <<step, batch>>
                 PROVE  FALSE
      OBVIOUS
    <3>1. Holds(p) /\ pass[p].stage \in Stepping
      BY RecordsOf DEF Writes
    <3>2. pass[p].job \in Jobs
      BY <1>0, <3>1 DEF SoundPasses, SoundPass, Stepping
    <3> QED  BY <3>1, <3>2, WorkflowAssumption DEF Holds
  <2> SUFFICES ASSUME NEW k \in Keys, step'[k].mode = Mode', Sleeps(k)'
               PROVE  \E j \in Jobs : Coming(j)' /\ Wakes(j, k)'
    BY DEF WokenFree, StepsOf
  <2>3. step'[k].kind = step[k].kind /\ step'[k].mode = step[k].mode
    BY <1>0, KindsStay DEF Counted, SameKinds
  <2>4. \/ step'[k] = step[k] /\ ~Elapse
        \/ Elapse /\ step'[k].status = step[k].status /\ step'[k].wakeAt = Earlier(step[k].wakeAt, Past)
    BY <2>2, RowWaits DEF Sleeps
  <2>5. Sleeps(k) /\ k \in StepsOf(Mode)
    BY <2>1, <2>3, <2>4 DEF Sleeps, StepsOf, Mode
  <2>6. PICK j \in Jobs : Coming(j) /\ Wakes(j, k)
    BY <2>5 DEF WokenFree
  <2>7. Coming(j)'
    BY <2>6, ComingStays, NoneTakes
  <2>8. CASE tick[j].at = "claimed"
    <3>1. \A p \in Procs : pass[p].stage = "report" /\ Current(p) => pass[p].job # j
      BY <2>6 DEF Coming, Arriving
    <3>2. tick'[j].at = "claimed"
      BY <2>8, <3>1, ClaimedStays
    <3> QED  BY <2>7, <3>2 DEF Wakes
  <2>9. CASE tick[j].at = "pending" /\ tick[j].due <= Latest(step[k].wakeAt)
    <3>1. CASE tick'[j] = tick[j] /\ step'[k] = step[k]
      BY <2>7, <2>9, <3>1 DEF Wakes
    <3>2. CASE Elapse
      <4>1. tick'[j].at = "pending" /\ tick'[j].due = Earlier(tick[j].due, 0)
        BY <3>2, <2>9 DEF Elapse, Tick
      <4>2. step'[k].wakeAt = Earlier(step[k].wakeAt, Past)
        BY <2>4, <3>2
      <4>3. tick[j].due \in Int /\ step[k].wakeAt \in Int
        BY <1>0, RowFields
      <4>4. tick'[j].due <= Latest(step'[k].wakeAt)
        BY <2>9, <4>1, <4>2, <4>3, EarlierBoth
      <4> QED  BY <2>7, <4>1, <4>4 DEF Wakes
    <3>3. CASE tick'[j].at = "claimed"
      BY <2>7, <3>3 DEF Wakes
    <3> QED  BY <2>4, <2>9, <3>1, <3>2, <3>3, PendingStays
  <2> QED  BY <2>6, <2>8, <2>9 DEF Wakes
<1> QED  BY <1>1, <1>2

(* A tick that is scheduled is due as it was scheduled, whatever is        *)
(* scheduled beside it. *)
LEMMA PlusDue ==
  ASSUME NEW T \in [Jobs -> Ticks], Spare(T) # {}, NEW delay \in Int
  PROVE  \E j \in Jobs : /\ Reticked(Plus(T, delay))[j].at = "pending"
                         /\ Reticked(Plus(T, delay))[j].due = IF delay > 0 THEN delay ELSE 0
<1>1. PICK U : U = Plus(T, delay)
  OBVIOUS
<1>2. U \in [Jobs -> Ticks]
  BY <1>1, PlusType
<1>3. PICK j \in Spare(T) : U[j].at = "pending" /\ U[j].due = IF delay > 0 THEN delay ELSE 0
  BY <1>1, PlusComes
<1>4. j \in Jobs
  BY <1>3 DEF Spare
<1>5. Reticked(U)[j] = U[j]
  BY <1>2, <1>3, <1>4, RetickedKeeps
<1> QED  BY <1>1, <1>3, <1>4, <1>5

(* Of the steps of its method only the one a pass is suspended at has a    *)
(* moment to wait for. *)
LEMMA OneSleeps ==
  ASSUME Counted, InTurn, Suspended, NEW p \in Procs,
         pass[p].stage = "finish", pass[p].outcome \in {"sleeping", "waiting"}, Holds(p),
         NEW k \in Keys, step[k].mode = pass[p].mode, Sleeps(k)
  PROVE  k = pass[p].key
<1>1. PICK i \in Keys : i = pass[p].key
  BY DEF Suspended
<1>2. step[i].mode = pass[p].mode /\ ~Done(i) /\ (k < i => Done(k))
  BY <1>1 DEF Suspended
<1>3. ~Done(k) /\ Begun(k)
  BY DEF Sleeps, Done, Resolved, Begun
<1>4. ~(i < k)
  BY <1>2, <1>3 DEF InTurn
<1>5. ~(k < i)
  BY <1>2, <1>3
<1>6. i \in Int /\ k \in Int
  BY DEF Keys
<1> QED  BY <1>1, <1>4, <1>5, <1>6

(* The clocks agree, and are not behind the database's. *)
ClocksAhead == \A p, q \in Procs : Skew[p] = Skew[q] /\ 0 <= Skew[p]

(* A pass that ends leaves a tick that is in time. *)
LEMMA FinishWakes ==
  ASSUME ClocksAhead, Counted, [Next]_vars, ~Over', Spare(tick) # {}, Waits, WakeTick, Finishing, InTurn, Suspended,
         NEW p \in Procs, finish(p)
  PROVE  WokenFree'
<1>0. TypeOK /\ SoundPasses /\ tick \in [Jobs -> Ticks] /\ step' = step
      /\ step \in [Keys -> StepRows]
  BY DEF Counted, TypeOK, finish, LetsGo
<1>1. \A status, wakeAt, job, attempt, lease, retick :
        Workflow(status, wakeAt, job, attempt, lease, retick).status = status
  BY DEF Workflow
<1>2. pass[p].stage = "finish" /\ Holds(p) /\ pass[p].mode \in Modes
      /\ pass[p].outcome \in {"completed", "failed", "sleeping", "waiting"}
  BY <1>0, PassFields DEF finish, SoundPasses, SoundPass
<1>4. CASE Stopped(p)
  <2>1. tick' = Reticked(Plus(tick, 0))
    BY <1>4 DEF finish, LetsGo
  <2>2. PICK j \in Jobs : tick'[j].at = "pending" /\ tick'[j].due = 0
    BY <1>0, <2>1, PlusDue
  <2> QED  BY <2>2, DueWakes
<1>5. CASE ~Stopped(p) /\ pass[p].outcome \in {"completed", "failed"}
  <2>1. wf'.status \in {"cancelled", "completed", "failed"}
    BY <1>1, <1>5 DEF finish, LetsGo
  <2> QED  BY <2>1 DEF Over, Ended
<1>6. ASSUME ~Stopped(p), pass[p].outcome \in {"sleeping", "waiting"}
      PROVE  WokenFree'
  <2>1. Mode' = pass[p].mode
    <3>1. wf'.status = IF pass[p].mode = "cancel" THEN "cancelling" ELSE pass[p].outcome
      BY <1>1, <1>6 DEF finish, LetsGo
    <3> QED  BY <1>2, <1>6, <3>1 DEF Mode, Modes
  <2> SUFFICES ASSUME NEW k \in Keys, step[k].mode = pass[p].mode, Sleeps(k)'
               PROVE  \E j \in Jobs : Coming(j)' /\ Wakes(j, k)'
    BY <1>0, <2>1 DEF WokenFree, StepsOf
  <2>2. Sleeps(k)
    BY <1>0 DEF Sleeps
  <2>3. k = pass[p].key
    BY <1>2, <1>6, <2>2, OneSleeps
  <2>4. HasWake(p)
    <3> SUFFICES ASSUME ~HasWake(p) PROVE FALSE
      OBVIOUS
    <3>1. pass[p].outcome = "waiting" /\ step[k].kind # "timed"
      BY <1>6, <2>3 DEF HasWake
    <3>2. step[k].kind = "wait" \/ step[k].status = "batching"
      BY <1>2, <1>6, <2>3, <3>1 DEF Finishing
    <3> QED  BY <2>2, <3>1, <3>2 DEF Sleeps, Waits
  <2>5. step[k].wakeAt \in Int /\ Now(p) \in Int /\ 0 <= Now(p) /\ WakeAt(p) = step[k].wakeAt
    BY <1>0, <2>3, RowFields, WorkflowAssumption DEF WakeAt, Now, ClocksAhead
  <2>6. ASSUME NEW j \in Jobs, tick'[j].at = "pending", tick'[j].due <= Latest(step[k].wakeAt)
        PROVE  Coming(j)' /\ Wakes(j, k)'
    <3>1. Wakes(j, k)'
      BY <1>0, <2>6 DEF Wakes
    <3> QED  BY <2>6, <3>1, PendingComesNext
  <2>7. CASE ~scheduled(p)
    <3>1. PICK delay \in Int : delay = step[k].wakeAt - Now(p)
      BY <2>5
    <3>2. tick' = Reticked(Plus(tick, delay))
      BY <1>6, <2>4, <2>5, <2>7, <3>1 DEF finish, LetsGo
    <3>3. PICK j \in Jobs : tick'[j].at = "pending" /\ tick'[j].due = IF delay > 0 THEN delay ELSE 0
      BY <1>0, <3>2, PlusDue
    <3>4. tick'[j].due <= Latest(step[k].wakeAt)
      BY <2>5, <3>1, <3>3 DEF Latest
    <3> QED  BY <2>6, <3>3, <3>4
  <2>8. CASE scheduled(p)
    <3>1. tick' = Reticked(tick)
      BY <1>6, <2>4, <2>8 DEF finish, LetsGo
    <3>2. wf.wakeAt > Now(p) /\ wf.wakeAt <= step[k].wakeAt
      BY <2>5, <2>8 DEF scheduled
    <3>3. PICK j \in Jobs : tick[j].at = "pending" /\ tick[j].due = wf.wakeAt - Now(p)
      BY <3>2 DEF WakeTick
    <3>4. tick'[j] = tick[j]
      BY <1>0, <3>1, <3>3, RetickedKeeps
    <3>5. wf.wakeAt \in Int
      BY <1>0, RowFields DEF TypeOK
    <3>6. tick[j].due <= Latest(step[k].wakeAt)
      BY <2>5, <3>2, <3>3, <3>5 DEF Latest
    <3> QED  BY <2>6, <3>3, <3>4, <3>6
  <2> QED  BY <2>7, <2>8
<1> QED  BY <1>2, <1>4, <1>5, <1>6

(* It goes on so, until there is nothing to promise. *)
LEMMA WokenFreeStays ==
  ASSUME ClocksAhead, Sound, Known, Finishing, Spared, InTurn, Suspended, WokenFree, Spare(tick) # {}, [Next]_vars,
         ~Over', mishaps'.faults = 0
  PROVE  WokenFree'
<1>0. Counted /\ LetGoEnded /\ Waits /\ WakeTick
  BY DEF Sound, Advanced
<1>1. CASE wf'.job # NoJob
  BY <1>1 DEF WokenFree
<1>2. CASE wf'.job = NoJob /\ wf.job = NoJob
  BY <1>0, <1>2, FreeWaits
<1>3. CASE wf'.job = NoJob /\ wf.job # NoJob
  BY <1>0, <1>3, LetGoBy, FinishWakes
<1> QED  BY <1>1, <1>2, <1>3

(* Whoever has it, or nobody. *)
OnTime == Over \/ mishaps.faults > 0 \/ (HeldClaimed /\ WokenFree)

(* After every step there is. *)
LEMMA OnTimeStays ==
  ASSUME Jobs = Nat, ClocksAhead, Sound, ComingOn, Spared, InTurn, Suspended, OnTime, [Next]_vars
  PROVE  OnTime'
<1>0. Counted /\ TypeOK /\ Spare(tick) # {} /\ mishaps'.faults \in Nat
  <2>1. Counted /\ TypeOK /\ Spare(tick) # {}
    BY RoomySpare DEF Sound, Advanced, Counted
  <2>2. mishaps' \in [crashes : Nat, stalls : Nat, faults : Nat]
    BY <2>1, CountedStays DEF Counted, TypeOK
  <2> QED  BY <2>1, <2>2
<1>1. CASE Over' \/ mishaps'.faults > 0
  BY <1>1 DEF OnTime
<1>2. CASE ~Over' /\ mishaps'.faults = 0
  <2>1. ~Over /\ mishaps.faults = 0
    BY <1>0, <1>2, OverStays, BlowsMove
  <2>2. Known /\ Finishing /\ HeldClaimed /\ WokenFree
    BY <2>1 DEF ComingOn, OnTime
  <2>3. HeldClaimed'
    BY <1>0, <1>2, <2>2, HeldClaimedStays
  <2>4. WokenFree'
    BY <1>0, <1>2, <2>2, WokenFreeStays
  <2> QED  BY <2>3, <2>4 DEF OnTime
<1> QED  BY <1>0, <1>1, <1>2

(* A sleep, a timeout or the delay of a retry is not missed: whatever      *)
(* crashes or stalls, a tick is due by then or one is at it, though        *)
(* finish() schedules none if one is due earlier, and cancel() and the     *)
(* passes leave the ones that are there alone.  So while no call of the    *)
(* store rejects, a tick job has an attempt for every mishap, no clock is  *)
(* behind the database's, and there is no bound on the tick jobs.          *)
THEOREM NothingOverslept ==
  ASSUME Jobs = Nat, MaxMishaps < TickAttempts, \A p, q \in Procs : Skew[p] = Skew[q] /\ 0 <= Skew[p]
  PROVE  Spec => []WokenInTime
<1>0. ClocksAgree /\ ClocksAhead
  BY WorkflowAssumption DEF ClocksAgree, ClocksAhead, Past
<1> DEFINE Rest == Spared /\ InTurn /\ Suspended /\ OnTime
<1>1. Init => Rest
  <2> SUFFICES ASSUME Init
               PROVE  Rest
    OBVIOUS
  <2>1. \A k \in Keys : step[k].status = "none"
    BY DEF Init, Step
  <2>2. \A p \in Procs : pass[p].stage = "idle"
    BY DEF Init, Idle, Pass
  <2>3. wf.job = NoJob
    BY DEF Init, Workflow
  <2>4. \A k \in StepsOf(Mode) : ~Sleeps(k)
    BY <2>1 DEF Sleeps, StepsOf
  <2>5. Spared
    BY InitSpared
  <2> QED  BY <2>1, <2>2, <2>3, <2>4, <2>5 DEF InTurn, Begun, Suspended, OnTime, HeldClaimed, WokenFree
<1>2. (Sound /\ ComingOn) /\ Rest /\ [Next]_vars => Rest'
  <2> SUFFICES ASSUME Sound, ComingOn, Rest, [Next]_vars
               PROVE  Rest'
    OBVIOUS
  <2>1. Advanced /\ Counted /\ Ordered /\ Reached
    BY DEF Sound, Advanced
  <2>2. Spared' /\ InTurn' /\ Suspended'
    BY <2>1, SparedStays, InTurnStays, SuspendedStays
  <2>3. OnTime'
    BY <1>0, OnTimeStays
  <2> QED  BY <2>2, <2>3
<1>3. (Sound /\ ComingOn) /\ Rest => WokenInTime
  <2> SUFFICES ASSUME Sound, Rest, outdated = {}, mishaps.faults = 0, wf.status \notin Ended,
                      NEW k \in StepsOf(Mode), Sleeps(k)
               PROVE  \E j \in Jobs : Wakes(j, k)
    BY DEF WokenInTime, Sleeps, Wakes
  <2>1. ~Over /\ ~(mishaps.faults > 0)
    BY DEF Spared, Over, Buried
  <2>2. HeldClaimed /\ WokenFree
    BY <2>1 DEF OnTime
  <2>3. CASE wf.job = NoJob
    BY <2>2, <2>3 DEF WokenFree
  <2>4. CASE wf.job # NoJob
    <3>1. wf.job \in Jobs
      BY <2>4, RowFields DEF Sound, Advanced, Counted, TypeOK
    <3> QED  BY <2>2, <2>4, <3>1 DEF HeldClaimed, Wakes
  <2> QED  BY <2>3, <2>4
<1> HIDE DEF Rest
<1> QED  BY <1>0, <1>1, <1>2, <1>3, AlwaysComing, PTL DEF Spec

=============================================================================
