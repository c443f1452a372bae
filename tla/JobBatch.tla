------------------------------ MODULE JobBatch ------------------------------
(***************************************************************************)
(* One job batch: the rules of batch.ts, and the transactions in which     *)
(* DatabaseQueueDriver applies them.  A report on a job of the batch locks *)
(* the batch row, ends the job's row, counts it, ends the waiting jobs if  *)
(* that failure cancels the batch, and stores the counters with the        *)
(* callbacks they made due.  Those are statements, so claims and releases  *)
(* of other jobs come between them, and the connection may be lost at any  *)
(* of them.  (On SQLite, and in the memory driver, nothing comes between.) *)
(***************************************************************************)
EXTENDS Integers, FiniteSets

CONSTANTS
  Jobs,          \* the jobs of the batch
  NoJob,         \* no job: the transaction is cancelBatch's
  MaxAttempts,   \* Job.maxAttempts
  MaxLapses,     \* bound: leases that lapse under a run
  MaxFaults,     \* bound: transactions and runs that are lost
  MaxReleases    \* bound: releases

ASSUME BatchAssumption ==
  /\ IsFiniteSet(Jobs) /\ NoJob \notin Jobs
  /\ MaxAttempts \in Int
  /\ MaxLapses \in Nat /\ MaxFaults \in Nat /\ MaxReleases \in Nat

VARIABLES
  job,       \* the jobs' rows
  batch,     \* the batch's row
  calls,     \* how often each callback was enqueued
  runs,      \* the claims in hand, in any process
  tx,        \* how far the transaction that has the batch row locked is
  who, how,  \* the claim it reports on, and what it reports
  next,      \* the counters it has computed
  writes,    \* the rows it has written, not yet committed
  released,  \* history: jobs that gave an attempt back
  used       \* how much of each bound is used

vars == <<job, batch, calls, runs, tx, who, how, next, writes, released, used>>
txVars == <<tx, who, how, next, writes>>

Outcomes == {"succeeded", "failed", "cancelled"}
LastAttempt == IF MaxAttempts > 1 THEN MaxAttempts ELSE 1

Row(status, attempts) == [status |-> status, attempts |-> attempts]
Taken(j, attempt, stage) == [job |-> j, attempt |-> attempt, stage |-> stage]
Nothing == Taken(NoJob, 0, "none")
Same == [j \in Jobs |-> "same"]

(* newBatchRecord's shape.  A time is "null" or "set". *)
Record(pending, succeeded, failed, cancelled, cancelledAt, finishedAt, allowFailures) ==
  [pending |-> pending, succeeded |-> succeeded, failed |-> failed,
   cancelled |-> cancelled, cancelledAt |-> cancelledAt, finishedAt |-> finishedAt,
   allowFailures |-> allowFailures]

Calls(then, catch, finally) == [then |-> then, catch |-> catch, finally |-> finally]

NoBatch == Record(0, 0, 0, 0, "null", "none", "no")   \* not there, or pruned
Exists(r) == r.finishedAt # "none"

Records == [pending : Nat, succeeded : Nat, failed : Nat, cancelled : Nat,
            cancelledAt : {"null", "set"}, finishedAt : {"none", "null", "set"},
            allowFailures : {"no", "yes"}]
Rows == [status : {"none", "pending", "claimed", "dead", "gone"}, attempts : Int]
Claims == [job : Jobs, attempt : Int,
           stage : {"claimed", "cancelled", "running", "reporting"}]

TypeOK ==
  /\ job \in [Jobs -> Rows]
  /\ batch \in Records /\ next \in Records
  /\ calls \in [then : Int, catch : Int, finally : Int]
  /\ runs \subseteq Claims
  /\ tx \in {"none", "locked", "counted", "ready"}
  /\ who \in Claims \union {Nothing}
  /\ how \in Outcomes \union {"retry", "cancel"}
  /\ writes \in [Jobs -> {"same", "dead", "gone"}]
  /\ released \subseteq Jobs
  /\ used \in [lapses : Nat, faults : Nat, releases : Nat]

Init ==
  /\ job = [j \in Jobs |-> Row("none", 0)]
  /\ batch = NoBatch /\ next = NoBatch
  /\ calls = Calls(0, 0, 0)
  /\ runs = {}
  /\ tx = "none" /\ who = Nothing /\ how = "cancel" /\ writes = Same
  /\ released = {}
  /\ used = [lapses |-> 0, faults |-> 0, releases |-> 0]

Use(b) == used' = [used EXCEPT ![b] = @ + 1]
Cap(b, max) == used[b] < max /\ Use(b)

-----------------------------------------------------------------------------
(* batch.ts *)

One(o, x) == IF o = x THEN 1 ELSE 0

(* Variant: a job that ends as cancelled stays pending. *)
countRun(r, o) ==
  IF r.pending <= 0 THEN r
  ELSE Record(r.pending - (1 - One(o, "cancelled")), r.succeeded + One(o, "succeeded"),
              r.failed + One(o, "failed"), r.cancelled + One(o, "cancelled"),
              r.cancelledAt, r.finishedAt, r.allowFailures)

(* One job's end.  A batch with nothing pending is left as it is. *)
countOutcome(r, o) ==
  IF r.pending <= 0 THEN r
  ELSE Record(r.pending - 1, r.succeeded + One(o, "succeeded"),
              r.failed + One(o, "failed"), r.cancelled + One(o, "cancelled"),
              r.cancelledAt, r.finishedAt, r.allowFailures)

cancelsBatch(prev, new) ==
  /\ new.allowFailures = "no"
  /\ new.cancelledAt = "null" /\ new.finishedAt = "null"
  /\ new.failed > prev.failed

(* Variant: what still runs is counted with what waits. *)
markCancelledAll(r, waiting) ==
  Record(0, r.succeeded, r.failed, r.cancelled + r.pending, "set", r.finishedAt,
         r.allowFailures)

markCancelled(r, waiting) ==
  LET ended == IF waiting < r.pending THEN waiting ELSE r.pending
  IN  Record(r.pending - ended, r.succeeded, r.failed, r.cancelled + ended,
             "set", r.finishedAt, r.allowFailures)

Clean(r) == r.failed = 0 /\ r.cancelledAt = "null"
Finishes(r) == r.pending = 0 /\ r.finishedAt = "null"
Succeeded(r) == r.cancelledAt = "null" /\ (r.failed = 0 \/ r.allowFailures = "yes")

settled(r) ==
  IF Finishes(r)
  THEN Record(r.pending, r.succeeded, r.failed, r.cancelled, r.cancelledAt, "set",
              r.allowFailures)
  ELSE r

(* Variant: every failure calls catch. *)
callsDueEach(prev, new, c) ==
  Calls(IF Finishes(new) /\ Succeeded(new) THEN c.then + 1 ELSE c.then,
        IF ~Clean(new) THEN c.catch + 1 ELSE c.catch,
        IF Finishes(new) THEN c.finally + 1 ELSE c.finally)

callsDue(prev, new, c) ==
  Calls(IF Finishes(new) /\ Succeeded(new) THEN c.then + 1 ELSE c.then,
        IF Clean(prev) /\ ~Clean(new) THEN c.catch + 1 ELSE c.catch,
        IF Finishes(new) THEN c.finally + 1 ELSE c.finally)

-----------------------------------------------------------------------------
(* Dispatch, claims, and what a process does with one.                     *)

(* All the jobs and the batch row in one transaction.  A batch of no jobs  *)
(* is finished at once. *)
enqueueBatch(allowFailures) ==
  LET new == Record(Cardinality(Jobs), 0, 0, 0, "null", "null", allowFailures)
  IN  /\ ~Exists(batch) /\ \A j \in Jobs : job[j].status = "none"
      /\ calls.finally = 0
      /\ batch' = settled(new)
      /\ calls' = callsDue(new, new, calls)
      /\ job' = [j \in Jobs |-> Row("pending", 0)]
      /\ UNCHANGED <<runs, txVars, released, used>>

InHand(j) == \E c \in runs : c.job = j /\ c.attempt = job[j].attempts

(* A waiting job is claimed, or one whose lease lapsed: because its run is *)
(* gone, or under it.  Rows the transaction has locked are skipped. *)
claim(j) ==
  /\ writes[j] = "same"
  /\ \/ job[j].status = "pending" /\ UNCHANGED used
     \/ job[j].status = "claimed" /\ ~InHand(j) /\ UNCHANGED used
     \/ job[j].status = "claimed" /\ InHand(j) /\ Cap("lapses", MaxLapses)
  /\ job' = [job EXCEPT ![j] = Row("claimed", job[j].attempts + 1)]
  /\ runs' = runs \union {Taken(j, job[j].attempts + 1, "claimed")}
  /\ UNCHANGED <<batch, calls, txVars, released>>

(* Before it runs, the job asks whether its batch was cancelled. *)
check(c) ==
  /\ c \in runs /\ c.stage = "claimed" /\ c.attempt <= LastAttempt
  /\ runs' = (runs \ {c}) \union
       {Taken(c.job, c.attempt,
              IF Exists(batch) /\ batch.cancelledAt = "set" THEN "cancelled" ELSE "running")}
  /\ UNCHANGED <<job, batch, calls, txVars, released, used>>

Current(c) == job[c.job].status = "claimed" /\ job[c.job].attempts = c.attempt

(* this.release(): one statement, which asks nothing of the batch. *)
release(c) ==
  /\ c \in runs /\ c.stage = "running" /\ writes[c.job] = "same"
  /\ Cap("releases", MaxReleases)
  /\ job' = IF Current(c) THEN [job EXCEPT ![c.job] = Row("pending", c.attempt - 1)]
                          ELSE job
  /\ released' = IF Current(c) THEN released \union {c.job} ELSE released
  /\ runs' = runs \ {c}
  /\ UNCHANGED <<batch, calls, txVars>>

(* The process running it dies. *)
lose(c) ==
  /\ c \in runs /\ c.stage # "reporting"
  /\ Cap("faults", MaxFaults)
  /\ runs' = runs \ {c}
  /\ UNCHANGED <<job, batch, calls, txVars, released>>

-----------------------------------------------------------------------------
(* The transactions.                                                       *)

(* What a run may report, by complete or by fail: with a retry, without    *)
(* one, or that it did not run because the batch is cancelled. *)
MayReport(c, o) ==
  \/ c.stage = "claimed" /\ c.attempt > LastAttempt /\ o = "failed"
  \/ c.stage = "cancelled" /\ o = "cancelled"
  \/ c.stage = "running" /\ o \in {"succeeded", "failed"}
  \/ c.stage = "running" /\ o = "retry" /\ c.attempt < MaxAttempts

(* lockBatch, for a report ... *)
lockBatch(c, o) ==
  LET r == Taken(c.job, c.attempt, "reporting")
  IN  /\ tx = "none"
      /\ c \in runs /\ MayReport(c, o)
      /\ runs' = (runs \ {c}) \union {r}
      /\ tx' = "locked" /\ who' = r /\ how' = o
      /\ UNCHANGED <<job, batch, calls, next, writes, released, used>>

(* ... and for cancelBatch. *)
cancelBatch ==
  /\ tx = "none" /\ Exists(batch)
  /\ tx' = "locked" /\ who' = Nothing /\ how' = "cancel"
  /\ UNCHANGED <<job, batch, calls, runs, next, writes, released, used>>

Closed ==
  /\ tx' = "none" /\ who' = Nothing /\ how' = "cancel"
  /\ next' = NoBatch /\ writes' = Same
  /\ runs' = runs \ {who}

(* Variant: a retry does not look at the batch. *)
RetryAnyway == TRUE

RetryAllowed == ~(Exists(batch) /\ batch.cancelledAt = "set")

(* A retry, in a batch that is not cancelled: the row waits again. *)
retry ==
  /\ tx = "locked" /\ how = "retry" /\ RetryAllowed
  /\ job' = IF Current(who) THEN [job EXCEPT ![who.job] = Row("pending", who.attempt)]
                            ELSE job
  /\ Closed
  /\ UNCHANGED <<batch, calls, released, used>>

(* The job's end, counted: a retry in a cancelled batch ends as cancelled. *)
Ending == IF how = "retry" THEN "cancelled" ELSE how

endBatchJob ==
  /\ tx = "locked" /\ how # "cancel"
  /\ how = "retry" => ~RetryAllowed
  /\ IF Current(who) /\ Exists(batch)
     THEN /\ writes' = [writes EXCEPT ![who.job] = IF how = "succeeded" THEN "gone" ELSE "dead"]
          /\ next' = countOutcome(batch, Ending)
          /\ tx' = "counted"
          /\ UNCHANGED <<job, runs, who, how>>
     ELSE /\ job' = IF Current(who)
                    THEN [job EXCEPT ![who.job] =
                            Row(IF how = "succeeded" THEN "gone" ELSE "dead", who.attempt)]
                    ELSE job
          /\ Closed
  /\ UNCHANGED <<batch, calls, released, used>>

Waiting == {j \in Jobs : job[j].status = "pending"}

(* cancelWaiting: every job that waits is ended, and counted. *)
cancelWaiting ==
  /\ \/ /\ tx = "counted" /\ cancelsBatch(batch, next)
        /\ next' = markCancelled(next, Cardinality(Waiting))
     \/ /\ tx = "locked" /\ how = "cancel"
        /\ batch.finishedAt = "null" /\ batch.cancelledAt = "null"
        /\ next' = markCancelled(batch, Cardinality(Waiting))
  /\ writes' = [j \in Jobs |-> IF j \in Waiting THEN "dead" ELSE writes[j]]
  /\ tx' = "ready"
  /\ UNCHANGED <<job, batch, calls, runs, who, how, released, used>>

(* cancelBatch finds a batch that has ended, or was cancelled, or is gone. *)
refuseCancel ==
  /\ tx = "locked" /\ how = "cancel"
  /\ batch.finishedAt # "null" \/ batch.cancelledAt # "null"
  /\ Closed
  /\ UNCHANGED <<job, batch, calls, released, used>>

(* saveBatch and the commit: rows, counters and callbacks together. *)
saveBatch ==
  /\ tx = "ready" \/ (tx = "counted" /\ ~cancelsBatch(batch, next))
  /\ batch' = settled(next)
  /\ calls' = callsDue(batch, next, calls)
  /\ job' = [j \in Jobs |-> IF writes[j] = "same" THEN job[j]
                            ELSE Row(writes[j], job[j].attempts)]
  /\ Closed
  /\ UNCHANGED <<released, used>>

(* The connection, or the process, is lost before the commit. *)
rollback ==
  /\ tx # "none"
  /\ Cap("faults", MaxFaults)
  /\ Closed
  /\ UNCHANGED <<job, batch, calls, released>>

(* Variant: a cancelled batch is taken for a finished one. *)
PrunableOrCancelled == batch.finishedAt = "set" \/ batch.cancelledAt = "set"

Prunable == batch.finishedAt = "set"

(* Finished batches are deleted after a while.  The delete waits for the   *)
(* row's lock. *)
pruneBatches ==
  /\ tx = "none" /\ Prunable
  /\ batch' = NoBatch
  /\ UNCHANGED <<job, calls, runs, txVars, released, used>>

-----------------------------------------------------------------------------

Transact == retry \/ endBatchJob \/ cancelWaiting \/ refuseCancel \/ saveBatch

Advance(c) ==
  \/ check(c)
  \/ \E o \in Outcomes \union {"retry"} : lockBatch(c, o)

Next ==
  \/ \E a \in {"no", "yes"} : enqueueBatch(a)
  \/ \E j \in Jobs : claim(j)
  \/ \E c \in runs : Advance(c) \/ release(c) \/ lose(c)
  \/ cancelBatch \/ Transact \/ rollback \/ pruneBatches

Spec == Init /\ [][Next]_vars

(* Jobs are claimed and end, and a transaction that is open goes on.       *)
(* Strong for the reports: each waits for its turn at the batch row. *)
FairSpec ==
  /\ Spec
  /\ \A j \in Jobs : WF_vars(claim(j)) /\ SF_vars(\E c \in runs : c.job = j /\ Advance(c))
  /\ WF_vars(Transact)

-----------------------------------------------------------------------------
(* Properties.                                                             *)

Ended(j) == job[j].status \in {"dead", "gone"}

(* Every job is counted exactly once, as it ends: the counters and the     *)
(* jobs' rows agree after every commit - stale reports, lost transactions, *)
(* claims during a cancellation and all. *)
EachEndCountedOnce ==
  Exists(batch) =>
    /\ batch.pending = Cardinality({j \in Jobs : ~Ended(j)})
    /\ batch.pending + batch.succeeded + batch.failed + batch.cancelled = Cardinality(Jobs)

(* Each callback is enqueued once when it is due, and never otherwise:     *)
(* catch with the first failure or the cancellation, then and finally with *)
(* the last job's end. *)
CallbacksExact ==
  Exists(batch) =>
    /\ calls.catch = (IF Clean(batch) THEN 0 ELSE 1)
    /\ calls.finally = (IF batch.finishedAt = "set" THEN 1 ELSE 0)
    /\ calls.then = (IF batch.finishedAt = "set" /\ Succeeded(batch) THEN 1 ELSE 0)
    /\ (batch.finishedAt = "set") <=> (batch.pending = 0)

(* In a cancelled batch nothing waits but jobs that gave an attempt back,  *)
(* before or since: the cancellation reaches every other waiting job,      *)
(* whatever was claimed, retried or lost around it. *)
CancelledLeavesNoneWaiting ==
  Exists(batch) /\ batch.cancelledAt = "set" =>
    \A j \in Jobs : job[j].status = "pending" => j \in released

(* A batch outlives its jobs: none ends uncounted because the batch's row  *)
(* was pruned. *)
NoOrphans == ~Exists(batch) => \A j \in Jobs : job[j].status \notin {"pending", "claimed"}

(* A batch that was dispatched finishes. *)
BatchFinishes == (batch.finishedAt = "null") ~> (batch.finishedAt # "null")

=============================================================================
