--------------------------- MODULE JobBatchProofs ---------------------------
(***************************************************************************)
(* The callbacks of a batch are enqueued exactly when they are due, for a  *)
(* batch of any size, any number of attempts, lapsed leases, lost          *)
(* transactions and releases.                                              *)
(***************************************************************************)
EXTENDS JobBatch, FiniteSetTheorems, TLAPS

CallCounts == [then : Int, catch : Int, finally : Int]
Bounds == [lapses : Nat, faults : Nat, releases : Nat]

(* What newBatchRecord and the rules build is a batch record, ... *)
LEMMA RecordType ==
  ASSUME NEW p \in Nat, NEW s \in Nat, NEW f \in Nat, NEW c \in Nat,
         NEW ca \in {"null", "set"}, NEW fi \in {"none", "null", "set"},
         NEW al \in {"no", "yes"}
  PROVE  Record(p, s, f, c, ca, fi, al) \in Records
BY DEF Record, Records

(* ... what they write to a job is a row, ... *)
LEMMA RowType ==
  ASSUME NEW s \in {"none", "pending", "claimed", "dead", "gone"}, NEW a \in Int
  PROVE  Row(s, a) \in Rows
BY DEF Row, Rows

(* ... and what a process holds is a claim. *)
LEMMA TakenType ==
  ASSUME NEW j \in Jobs, NEW a \in Int,
         NEW s \in {"claimed", "cancelled", "running", "reporting"}
  PROVE  Taken(j, a, s) \in Claims
BY DEF Taken, Claims

(* Using up a bound keeps its count. *)
LEMMA CapType ==
  ASSUME used \in Bounds, NEW b \in {"lapses", "faults", "releases"}, NEW m, Cap(b, m)
  PROVE  used' \in Bounds
BY DEF Cap, Use, Bounds

(* The waiting jobs can be counted. *)
LEMMA WaitingCount == Cardinality(Waiting) \in Nat
<1>1. IsFiniteSet(Waiting)
  BY BatchAssumption, FS_Subset DEF Waiting
<1> QED
  BY <1>1, FS_CardinalityType

-----------------------------------------------------------------------------
(* The rules of batch.ts.                                                  *)

(* The calls made stay counts. *)
LEMMA CallsDueType ==
  ASSUME NEW prev, NEW new, NEW c \in CallCounts
  PROVE  callsDue(prev, new, c) \in CallCounts
BY DEF callsDue, Calls, CallCounts

(* A settled record is a record. *)
LEMMA SettledType ==
  ASSUME NEW r \in Records
  PROVE  settled(r) \in Records
BY DEF settled, Record, Records

(* What the counters computed inside a transaction have to do with the     *)
(* batch's row: a finished batch is left alone, a cancelled or failed one  *)
(* stays so, and nothing else than settled() finishes one. *)
Follows(prev, new) ==
  /\ new.finishedAt = prev.finishedAt
  /\ ~Clean(prev) => ~Clean(new)
  /\ prev.finishedAt = "set" => new = prev

(* countOutcome takes a record to one a transaction may commit. *)
LEMMA CountFollows ==
  ASSUME NEW r \in Records, NEW o \in Outcomes, (r.finishedAt = "set") => (r.pending = 0)
  PROVE  countOutcome(r, o) \in Records /\ Follows(r, countOutcome(r, o))
<1>1. CASE r.pending <= 0
  BY <1>1 DEF countOutcome, Follows
<1>2. CASE r.pending > 0
  <2>1. One(o, "succeeded") \in Nat /\ One(o, "failed") \in Nat /\ One(o, "cancelled") \in Nat
    BY DEF One
  <2> DEFINE n == Record(r.pending - 1, r.succeeded + One(o, "succeeded"),
                         r.failed + One(o, "failed"), r.cancelled + One(o, "cancelled"),
                         r.cancelledAt, r.finishedAt, r.allowFailures)
  <2>2. countOutcome(r, o) = n
    BY <1>2 DEF countOutcome, Records
  <2>3. n \in Records
    <3>1. /\ r.pending - 1 \in Nat /\ r.succeeded + One(o, "succeeded") \in Nat
          /\ r.failed + One(o, "failed") \in Nat /\ r.cancelled + One(o, "cancelled") \in Nat
      BY <1>2, <2>1 DEF Records
    <3>2. /\ r.cancelledAt \in {"null", "set"} /\ r.finishedAt \in {"none", "null", "set"}
          /\ r.allowFailures \in {"no", "yes"}
      BY DEF Records
    <3> QED
      BY <3>1, <3>2, RecordType
  <2>4. n.finishedAt = r.finishedAt /\ n.cancelledAt = r.cancelledAt
        /\ n.failed = r.failed + One(o, "failed")
    BY DEF Record
  <2>5. r.finishedAt # "set"
    BY <1>2
  <2>6. ~Clean(r) => ~Clean(n)
    <3>1. r.failed \in Nat
      BY DEF Records
    <3> HIDE DEF n
    <3> QED
      BY <2>1, <2>4, <3>1 DEF Clean
  <2>7. Follows(r, n)
    BY <2>4, <2>5, <2>6 DEF Follows
  <2> QED
    BY <2>2, <2>3, <2>7
<1> QED
  BY <1>1, <1>2 DEF Records

(* So does markCancelled, whatever the number of waiting jobs. *)
LEMMA CancelFollows ==
  ASSUME NEW prev \in Records, NEW r \in Records, NEW n \in Nat,
         prev.finishedAt = "null", r.finishedAt = "null"
  PROVE  markCancelled(r, n) \in Records /\ Follows(prev, markCancelled(r, n))
<1> DEFINE ended == IF n < r.pending THEN n ELSE r.pending
<1>1. ended \in Nat /\ r.pending - ended \in Nat /\ r.cancelled + ended \in Nat
  BY DEF Records
<1>2. markCancelled(r, n) =
        Record(r.pending - ended, r.succeeded, r.failed, r.cancelled + ended,
               "set", r.finishedAt, r.allowFailures)
  BY DEF markCancelled
<1>3. markCancelled(r, n) \in Records
  <2>1. r.succeeded \in Nat /\ r.failed \in Nat
    BY DEF Records
  <2>2. r.finishedAt \in {"none", "null", "set"} /\ r.allowFailures \in {"no", "yes"}
    BY DEF Records
  <2> HIDE DEF ended
  <2> QED
    BY <1>1, <1>2, <2>1, <2>2, RecordType
<1>4. markCancelled(r, n).finishedAt = "null" /\ markCancelled(r, n).cancelledAt = "set"
  BY <1>2 DEF Record
<1>5. ~Clean(markCancelled(r, n))
  BY <1>4 DEF Clean
<1> QED
  BY <1>3, <1>4, <1>5 DEF Follows

(* The callbacks that were enqueued are the ones the batch's row calls for. *)
Exact(r, c) ==
  /\ c.catch = (IF Clean(r) THEN 0 ELSE 1)
  /\ c.finally = (IF r.finishedAt = "set" THEN 1 ELSE 0)
  /\ c.then = (IF r.finishedAt = "set" /\ Succeeded(r) THEN 1 ELSE 0)
  /\ (r.finishedAt = "set") <=> (r.pending = 0)

(* Settling the record and enqueueing what is due keeps callbacks exact. *)
LEMMA SaveKeepsExact ==
  ASSUME NEW prev \in Records, NEW new \in Records, NEW c \in CallCounts,
         Exists(prev), Exact(prev, c), Follows(prev, new)
  PROVE  Exists(settled(new)) /\ Exact(settled(new), callsDue(prev, new, c))
<1> DEFINE k == callsDue(prev, new, c)
           s == settled(new)
<1>1. k.then = (IF Finishes(new) /\ Succeeded(new) THEN c.then + 1 ELSE c.then)
      /\ k.catch = (IF Clean(prev) /\ ~Clean(new) THEN c.catch + 1 ELSE c.catch)
      /\ k.finally = (IF Finishes(new) THEN c.finally + 1 ELSE c.finally)
  BY DEF callsDue, Calls
<1>2. /\ s.pending = new.pending /\ s.failed = new.failed
      /\ s.cancelledAt = new.cancelledAt /\ s.allowFailures = new.allowFailures
      /\ s.finishedAt = IF Finishes(new) THEN "set" ELSE new.finishedAt
  BY DEF settled, Record
<1>3. (Clean(s) <=> Clean(new)) /\ (Succeeded(s) <=> Succeeded(new))
  BY <1>2 DEF Clean, Succeeded
<1>4. CASE prev.finishedAt = "set"
  <2>1. new = prev /\ ~Finishes(new)
    BY <1>4 DEF Follows, Finishes
  <2> QED
    BY <1>1, <1>2, <1>3, <1>4, <2>1 DEF Exact, Exists
<1>5. CASE prev.finishedAt = "null"
  <2>1. new.finishedAt = "null" /\ c.finally = 0 /\ c.then = 0
    BY <1>5 DEF Follows, Exact
  <2>2. (s.finishedAt = "set" <=> s.pending = 0) /\ (s.finishedAt = "set" <=> Finishes(new))
    BY <1>2, <2>1 DEF Finishes
  <2>3. k.catch = (IF Clean(s) THEN 0 ELSE 1)
    BY <1>1, <1>3 DEF Exact, Follows, CallCounts
  <2> QED
    BY <1>1, <1>2, <1>3, <2>1, <2>2, <2>3 DEF Exact, Exists
<1> QED
  BY <1>4, <1>5 DEF Exists, Records

-----------------------------------------------------------------------------

(* A finished batch's row may have been pruned. *)
Inv ==
  /\ TypeOK
  /\ how # "cancel" => who \in Claims
  /\ Exists(batch) => Exact(batch, calls)
  /\ ~Exists(batch) => calls = Calls(0, 0, 0) \/ calls.finally = 1
  /\ tx \in {"counted", "ready"} => Exists(batch) /\ Follows(batch, next)

(* There is no batch at first. *)
LEMMA InitInv == ASSUME Init PROVE Inv
<1>1. job \in [Jobs -> Rows]
  BY RowType DEF Init
<1>2. batch \in Records /\ next \in Records /\ ~Exists(batch)
  BY RecordType DEF Init, NoBatch, Exists, Record
<1>3. calls \in CallCounts /\ used \in Bounds
  BY DEF Init, Calls, CallCounts, Bounds
<1>4. runs \subseteq Claims /\ released \subseteq Jobs
  BY DEF Init
<1>5. writes \in [Jobs -> {"same", "dead", "gone"}]
  BY DEF Init, Same
<1> QED
  BY <1>1, <1>2, <1>3, <1>4, <1>5 DEF Init, Inv, TypeOK, CallCounts, Bounds

(* Steps that leave the batch's row, and its transaction, as they are. *)
LEMMA RowStep ==
  ASSUME Inv, UNCHANGED <<batch, calls, txVars>>,
         job' \in [Jobs -> Rows], runs' \subseteq Claims,
         released' \subseteq Jobs, used' \in Bounds
  PROVE  Inv'
BY DEF Inv, TypeOK, txVars, Bounds, Exists, Exact, Follows, Clean, Succeeded

(* Steps that end a transaction without counting anything. *)
LEMMA ClosingStep ==
  ASSUME Inv, Closed, UNCHANGED <<batch, calls, released>>,
         job' \in [Jobs -> Rows], used' \in Bounds
  PROVE  Inv'
<1>1. writes' \in [Jobs -> {"same", "dead", "gone"}]
  BY DEF Closed, Same
<1>2. next' \in Records
  BY RecordType DEF Closed, NoBatch
<1> QED
  BY <1>1, <1>2 DEF Inv, TypeOK, Closed, Bounds, Exists, Exact, Clean, Succeeded

(* Every statement keeps the inductive invariant. *)
LEMMA NextInv == ASSUME Inv, [Next]_vars PROVE Inv'
<1> USE DEF Inv
<1>1. ASSUME NEW a \in {"no", "yes"}, enqueueBatch(a)
      PROVE  Inv'
  <2> DEFINE new == Record(Cardinality(Jobs), 0, 0, 0, "null", "null", a)
  <2>1. Cardinality(Jobs) \in Nat
    BY BatchAssumption, FS_CardinalityType
  <2>2. new \in Records
    BY <2>1, RecordType
  <2>3. new.pending = Cardinality(Jobs) /\ new.failed = 0 /\ new.cancelledAt = "null"
        /\ new.finishedAt = "null" /\ new.allowFailures = a
    BY DEF Record
  <2>4. calls = Calls(0, 0, 0)
    BY <1>1 DEF enqueueBatch
  <2>5. batch' = settled(new) /\ calls' = callsDue(new, new, calls)
    BY <1>1 DEF enqueueBatch
  <2>6. Exists(batch') /\ Exact(batch', calls')
    BY <2>1, <2>2, <2>3, <2>4, <2>5
       DEF settled, Record, callsDue, Calls, Exists, Exact, Finishes, Clean, Succeeded
  <2>7. batch' \in Records /\ calls' \in CallCounts
    BY <2>2, <2>5, SettledType, CallsDueType DEF TypeOK, CallCounts
  <2>8. job' \in [Jobs -> Rows]
    BY <1>1, RowType DEF enqueueBatch
  <2>9. tx \notin {"counted", "ready"} /\ UNCHANGED <<runs, txVars, released, used>>
    BY <1>1 DEF enqueueBatch
  <2> QED
    BY <2>6, <2>7, <2>8, <2>9 DEF TypeOK, txVars, CallCounts, Exists
<1>2. ASSUME NEW j \in Jobs, claim(j)
      PROVE  Inv'
  <2>1. job[j].attempts + 1 \in Int
    BY DEF TypeOK, Rows
  <2>2. job' \in [Jobs -> Rows]
    BY <1>2, <2>1, RowType DEF claim, TypeOK
  <2>3. runs' \subseteq Claims
    BY <1>2, <2>1, TakenType DEF claim, TypeOK
  <2>4. used' \in Bounds
    BY <1>2, CapType DEF claim, TypeOK, Bounds
  <2> QED
    BY <1>2, <2>2, <2>3, <2>4, RowStep DEF claim, TypeOK
<1>3. ASSUME NEW c \in runs, check(c)
      PROVE  Inv'
  <2>1. c.job \in Jobs /\ c.attempt \in Int
    BY DEF TypeOK, Claims
  <2>2. runs' \subseteq Claims
    BY <1>3, <2>1, TakenType DEF check, TypeOK
  <2> QED
    BY <1>3, <2>2, RowStep DEF check, TypeOK, Bounds
<1>4. ASSUME NEW c \in runs, release(c)
      PROVE  Inv'
  <2>1. c.job \in Jobs /\ c.attempt - 1 \in Int
    BY DEF TypeOK, Claims
  <2>2. job' \in [Jobs -> Rows] /\ released' \subseteq Jobs
    BY <1>4, <2>1, RowType DEF release, TypeOK
  <2>3. runs' \subseteq Claims /\ used' \in Bounds
    BY <1>4, CapType DEF release, TypeOK, Bounds
  <2> QED
    BY <1>4, <2>2, <2>3, RowStep DEF release
<1>5. ASSUME NEW c \in runs, lose(c)
      PROVE  Inv'
  <2>1. runs' \subseteq Claims /\ used' \in Bounds
    BY <1>5, CapType DEF lose, TypeOK, Bounds
  <2> QED
    BY <1>5, <2>1, RowStep DEF lose, TypeOK
<1>6. ASSUME NEW c \in runs, NEW o \in Outcomes \union {"retry"}, lockBatch(c, o)
      PROVE  Inv'
  <2>1. Taken(c.job, c.attempt, "reporting") \in Claims
    BY TakenType DEF TypeOK, Claims
  <2>2. runs' \subseteq Claims /\ who' \in Claims /\ how' = o /\ tx' = "locked"
    BY <1>6, <2>1 DEF lockBatch, TypeOK
  <2>3. UNCHANGED <<job, batch, calls, next, writes, released, used>>
    BY <1>6 DEF lockBatch
  <2> QED
    BY <2>2, <2>3 DEF TypeOK, Exists, Exact, Clean, Succeeded
<1>7. CASE cancelBatch
  BY <1>7 DEF cancelBatch, TypeOK, Exists, Exact, Clean, Succeeded
<1>8. CASE retry
  <2>1. who \in Claims
    BY <1>8 DEF retry
  <2>2. job' \in [Jobs -> Rows]
    BY <1>8, <2>1, RowType DEF retry, TypeOK, Claims
  <2> QED
    BY <1>8, <2>2, ClosingStep DEF retry, TypeOK, Bounds
<1>9. CASE endBatchJob
  <2>1. who \in Claims /\ Ending \in Outcomes
    BY <1>9 DEF endBatchJob, Ending, TypeOK, Outcomes
  <2>2. CASE Current(who) /\ Exists(batch)
    <3>1. next' \in Records /\ Follows(batch, next')
      BY <1>9, <2>1, <2>2, CountFollows DEF endBatchJob, TypeOK, Exact
    <3>2. writes' \in [Jobs -> {"same", "dead", "gone"}]
      BY <1>9, <2>2 DEF endBatchJob, TypeOK
    <3>3. tx' = "counted" /\ UNCHANGED <<job, runs, who, how, batch, calls, released, used>>
      BY <1>9, <2>2 DEF endBatchJob
    <3> QED
      BY <2>2, <3>1, <3>2, <3>3 DEF TypeOK, Exists, Exact, Follows, Clean, Succeeded
  <2>3. CASE ~(Current(who) /\ Exists(batch))
    <3>1. who.job \in Jobs /\ who.attempt \in Int
      BY <2>1 DEF Claims
    <3>2. job' \in [Jobs -> Rows]
      BY <1>9, <2>3, <3>1, RowType DEF endBatchJob, TypeOK
    <3> QED
      BY <1>9, <2>3, <3>2, ClosingStep DEF endBatchJob, TypeOK, Bounds
  <2> QED
    BY <2>2, <2>3
<1>10. CASE cancelWaiting
  <2>1. writes' \in [Jobs -> {"same", "dead", "gone"}]
    BY <1>10 DEF cancelWaiting, TypeOK
  <2>2. Exists(batch) /\ next' \in Records /\ Follows(batch, next')
    <3>1. CASE tx = "counted" /\ cancelsBatch(batch, next)
                /\ next' = markCancelled(next, Cardinality(Waiting))
      BY <3>1, WaitingCount, CancelFollows DEF cancelsBatch, Follows, TypeOK
    <3>2. CASE batch.finishedAt = "null" /\ next' = markCancelled(batch, Cardinality(Waiting))
      BY <3>2, WaitingCount, CancelFollows DEF Exists, TypeOK
    <3> QED
      BY <1>10, <3>1, <3>2 DEF cancelWaiting
  <2>3. tx' = "ready" /\ UNCHANGED <<job, batch, calls, runs, who, how, released, used>>
    BY <1>10 DEF cancelWaiting
  <2> QED
    BY <2>1, <2>2, <2>3 DEF TypeOK, Exists, Exact, Follows, Clean, Succeeded
<1>11. CASE refuseCancel
  BY <1>11, ClosingStep DEF refuseCancel, TypeOK, Bounds
<1>12. CASE saveBatch
  <2>1. Exists(batch) /\ Follows(batch, next) /\ Exact(batch, calls)
    BY <1>12 DEF saveBatch
  <2>2. batch' = settled(next) /\ calls' = callsDue(batch, next, calls)
    BY <1>12 DEF saveBatch
  <2>3. Exists(batch') /\ Exact(batch', calls')
    BY <2>1, <2>2, SaveKeepsExact DEF TypeOK, CallCounts
  <2>4. batch' \in Records /\ calls' \in CallCounts
    BY <2>2, SettledType, CallsDueType DEF TypeOK, CallCounts
  <2>5. \A j \in Jobs : writes[j] # "same" => Row(writes[j], job[j].attempts) \in Rows
    BY RowType DEF TypeOK, Rows
  <2>6. job' \in [Jobs -> Rows]
    BY <1>12, <2>5 DEF saveBatch, TypeOK
  <2>7. writes' \in [Jobs -> {"same", "dead", "gone"}] /\ next' \in Records
    BY <1>12, RecordType DEF saveBatch, Closed, Same, NoBatch
  <2>8. runs' \subseteq Claims /\ tx' = "none" /\ who' = Nothing /\ how' = "cancel"
        /\ UNCHANGED <<released, used>>
    BY <1>12 DEF saveBatch, Closed, TypeOK
  <2> QED
    BY <2>3, <2>4, <2>6, <2>7, <2>8 DEF TypeOK, CallCounts, Exists
<1>13. CASE rollback
  BY <1>13, CapType, ClosingStep DEF rollback, TypeOK, Bounds
<1>14. CASE pruneBatches
  <2>1. Exists(batch) /\ calls.finally = 1 /\ tx = "none"
    BY <1>14 DEF pruneBatches, Prunable, Exists, Exact
  <2>2. batch' \in Records /\ ~Exists(batch')
    BY <1>14, RecordType DEF pruneBatches, NoBatch, Exists, Record
  <2>3. UNCHANGED <<job, calls, runs, txVars, released, used>>
    BY <1>14 DEF pruneBatches
  <2> QED
    BY <2>1, <2>2, <2>3 DEF TypeOK, txVars, Exists
<1>15. CASE UNCHANGED vars
  BY <1>15, RowStep DEF vars, TypeOK, Bounds
<1> QED
  BY <1>1, <1>2, <1>3, <1>4, <1>5, <1>6, <1>7, <1>8, <1>9, <1>10, <1>11, <1>12, <1>13,
     <1>14, <1>15 DEF Next, Advance, Transact

(* The rows, the counters and what a transaction has in hand keep their    *)
(* types: no counter falls below zero. *)
THEOREM TypeCorrect == Spec => []TypeOK
<1>1. Init => Inv
  BY InitInv
<1>2. Inv /\ [Next]_vars => Inv'
  BY NextInv
<1> QED
  BY <1>1, <1>2, PTL DEF Spec, Inv

(* catch, then and finally are each enqueued exactly when batch.ts says    *)
(* they are due, and once - for a batch of any size and whatever happened  *)
(* to its jobs, its leases and its transactions. *)
THEOREM CallbacksOnce == Spec => []CallbacksExact
<1>1. Init => Inv
  BY InitInv
<1>2. Inv /\ [Next]_vars => Inv'
  BY NextInv
<1>3. Inv => CallbacksExact
  BY DEF Inv, CallbacksExact, Exact
<1> QED
  BY <1>1, <1>2, <1>3, PTL DEF Spec

-----------------------------------------------------------------------------
(* The counters.  What a transaction has computed is what the counters     *)
(* have to be once its writes are in the table; nobody else touches the    *)
(* rows it has written, and the others may move but not end.               *)

Open == {j \in Jobs : ~Ended(j)}
Left == {j \in Jobs : ~Ended(j) /\ writes[j] = "same"}

(* The counters of r are those of a batch of which n jobs are left. *)
Adds(r, n) ==
  r.pending = n /\ r.pending + r.succeeded + r.failed + r.cancelled = Cardinality(Jobs)

Balanced ==
  /\ Exists(batch) => Adds(batch, Cardinality(Open))
  /\ tx \in {"counted", "ready"} => Adds(next, Cardinality(Left))
  /\ tx \notin {"counted", "ready"} => \A j \in Jobs : writes[j] = "same"
  /\ tx = "counted" =>
       /\ who \in Claims /\ Current(who) /\ next.cancelledAt = batch.cancelledAt
       /\ \A j \in Jobs : writes[j] # "same" <=> j = who.job
  /\ tx = "ready" =>
       \A j \in Jobs : job[j].status = "pending" /\ writes[j] = "same" => j \in released

BInv == Inv /\ Balanced /\ NoOrphans /\ CancelledLeavesNoneWaiting

(* Jobs can be counted, and taking some away counts them off. *)
LEMMA JobsCount ==
  ASSUME NEW S, S \subseteq Jobs
  PROVE  IsFiniteSet(S) /\ Cardinality(S) \in Nat
<1>1. IsFiniteSet(S)
  BY BatchAssumption, FS_Subset
<1> QED  BY <1>1, FS_CardinalityType

LEMMA CountOff ==
  ASSUME NEW S, S \subseteq Jobs, NEW T, T \subseteq S
  PROVE  /\ Cardinality(T) <= Cardinality(S)
         /\ Cardinality(S \ T) = Cardinality(S) - Cardinality(T)
<1>1. IsFiniteSet(S) /\ Cardinality(S) \in Nat /\ IsFiniteSet(T) /\ Cardinality(T) \in Nat
  BY JobsCount
<1>2. Cardinality(T) <= Cardinality(S)
  BY <1>1, FS_Subset
<1>3. S \intersect T = T
  OBVIOUS
<1>4. Cardinality(S \ T) = Cardinality(S) - Cardinality(S \intersect T)
  BY <1>1, FS_Difference
<1> QED  BY <1>2, <1>3, <1>4

(* One job's end takes one off what is pending, and puts it elsewhere. *)
LEMMA CountAdds ==
  ASSUME NEW r \in Records, NEW o \in Outcomes, NEW n \in Nat, n > 0, Adds(r, n)
  PROVE  /\ Adds(countOutcome(r, o), n - 1)
         /\ countOutcome(r, o).cancelledAt = r.cancelledAt
<1>1. /\ One(o, "succeeded") \in {0, 1} /\ One(o, "failed") \in {0, 1} /\ One(o, "cancelled") \in {0, 1}
      /\ One(o, "succeeded") + One(o, "failed") + One(o, "cancelled") = 1
  BY DEF One, Outcomes
<1>2. /\ r.pending \in Nat /\ r.succeeded \in Nat /\ r.failed \in Nat /\ r.cancelled \in Nat
      /\ Cardinality(Jobs) \in Nat /\ r.pending = n
  BY JobsCount DEF Records, Adds
<1>3. /\ countOutcome(r, o).pending = n - 1
      /\ countOutcome(r, o).succeeded = r.succeeded + One(o, "succeeded")
      /\ countOutcome(r, o).failed = r.failed + One(o, "failed")
      /\ countOutcome(r, o).cancelled = r.cancelled + One(o, "cancelled")
      /\ countOutcome(r, o).cancelledAt = r.cancelledAt
  BY <1>2 DEF countOutcome, Record
<1>4. (n - 1) + (r.succeeded + One(o, "succeeded")) + (r.failed + One(o, "failed"))
        + (r.cancelled + One(o, "cancelled")) = n + r.succeeded + r.failed + r.cancelled
  BY <1>1, <1>2
<1> QED  BY <1>2, <1>3, <1>4 DEF Adds

(* The waiting jobs' end takes them off what is pending. *)
LEMMA CancelAdds ==
  ASSUME NEW r \in Records, NEW n \in Nat, NEW m \in Nat, m <= n, Adds(r, n)
  PROVE  Adds(markCancelled(r, m), n - m)
<1>1. /\ r.pending \in Nat /\ r.succeeded \in Nat /\ r.failed \in Nat /\ r.cancelled \in Nat
      /\ Cardinality(Jobs) \in Nat /\ r.pending = n
  BY JobsCount DEF Records, Adds
<1>2. (IF m < r.pending THEN m ELSE r.pending) = m
  BY <1>1
<1>3. /\ markCancelled(r, m).pending = n - m
      /\ markCancelled(r, m).succeeded = r.succeeded
      /\ markCancelled(r, m).failed = r.failed
      /\ markCancelled(r, m).cancelled = r.cancelled + m
  BY <1>1, <1>2 DEF markCancelled, Record
<1> QED  BY <1>1, <1>3 DEF Adds

(* Settling changes no counter. *)
LEMMA SettledAdds ==
  ASSUME NEW r, NEW n
  PROVE  /\ Adds(settled(r), n) <=> Adds(r, n)
         /\ settled(r).cancelledAt = r.cancelledAt
BY DEF settled, Record, Adds

(* Statements beside the transaction, and those that open or close one     *)
(* uncounted: no job ends, no row that is written moves, and a job waits   *)
(* again only where that was released or its batch is not cancelled. *)
LEMMA RowsMove ==
  ASSUME BInv, batch' = batch,
         \/ UNCHANGED txVars
         \/ tx' \notin {"counted", "ready"} /\ \A j \in Jobs : writes'[j] = "same",
         \A j \in Jobs : job'[j].status \in {"dead", "gone"} <=> Ended(j),
         \A j \in Jobs : UNCHANGED txVars /\ writes[j] # "same" => job'[j] = job[j],
         \A j \in Jobs : job'[j].status \in {"pending", "claimed"}
                           => job[j].status \in {"pending", "claimed"},
         released \subseteq released',
         \A j \in Jobs : job'[j].status = "pending" =>
           \/ job[j].status = "pending" \/ j \in released'
           \/ Exists(batch) /\ batch.cancelledAt # "set" /\ tx \notin {"counted", "ready"}
  PROVE  Balanced' /\ NoOrphans' /\ CancelledLeavesNoneWaiting'
<1>1. Open' = Open
  BY DEF Open, Ended
<1>2. Exists(batch)' => Adds(batch, Cardinality(Open))'
  BY <1>1 DEF BInv, Balanced, Exists, Adds
<1>3. NoOrphans' /\ CancelledLeavesNoneWaiting'
  BY DEF BInv, NoOrphans, CancelledLeavesNoneWaiting, Exists
<1>4. CASE tx' \notin {"counted", "ready"} /\ \A j \in Jobs : writes'[j] = "same"
  BY <1>2, <1>3, <1>4 DEF Balanced
<1>5. CASE UNCHANGED txVars
  <2>1. tx' = tx /\ who' = who /\ next' = next /\ writes' = writes
    BY <1>5 DEF txVars
  <2>2. Left' = Left
    BY <2>1 DEF Left, Ended
  <2>3. (tx \in {"counted", "ready"} => Adds(next, Cardinality(Left)))'
    BY <2>1, <2>2 DEF BInv, Balanced, Adds
  <2>4. (tx \notin {"counted", "ready"} => \A j \in Jobs : writes[j] = "same")'
    BY <2>1 DEF BInv, Balanced
  <2>5. (tx = "counted" =>
           /\ who \in Claims /\ Current(who) /\ next.cancelledAt = batch.cancelledAt
           /\ \A j \in Jobs : writes[j] # "same" <=> j = who.job)'
    <3> SUFFICES ASSUME tx = "counted"
                 PROVE  /\ who \in Claims /\ Current(who)' /\ next.cancelledAt = batch.cancelledAt
                        /\ \A j \in Jobs : writes[j] # "same" <=> j = who.job
      BY <2>1
    <3>1. /\ who \in Claims /\ Current(who) /\ next.cancelledAt = batch.cancelledAt
          /\ \A j \in Jobs : writes[j] # "same" <=> j = who.job
      BY DEF BInv, Balanced
    <3>2. who.job \in Jobs
      BY <3>1 DEF Claims
    <3>3. job'[who.job] = job[who.job]
      BY <1>5, <3>1, <3>2
    <3> QED  BY <2>1, <3>1, <3>3 DEF Current
  <2>6. (tx = "ready" =>
           \A j \in Jobs : job[j].status = "pending" /\ writes[j] = "same" => j \in released)'
    BY <2>1 DEF BInv, Balanced
  <2> QED  BY <1>2, <1>3, <2>3, <2>4, <2>5, <2>6 DEF Balanced
<1> QED  BY <1>4, <1>5

(* The waiting jobs are among those left, and their end leaves the rest. *)
LEMMA WaitingLeft ==
  ASSUME BInv, cancelWaiting
  PROVE  /\ Waiting \subseteq Left /\ Left' = Left \ Waiting
         /\ \E r \in Records : Adds(r, Cardinality(Left)) /\ next' = markCancelled(r, Cardinality(Waiting))
<1>0. TypeOK /\ Balanced
  BY DEF BInv, Inv
<1>1. \A j \in Waiting : j \in Jobs /\ job[j].status = "pending" /\ ~Ended(j)
  BY DEF Waiting, Ended
<1>2. job' = job /\ \A j \in Jobs : writes'[j] = IF j \in Waiting THEN "dead" ELSE writes[j]
  BY DEF cancelWaiting
<1>3. CASE tx = "counted" /\ next' = markCancelled(next, Cardinality(Waiting))
  <2>1. \A j \in Waiting : writes[j] = "same"
    BY <1>0, <1>1, <1>3 DEF Balanced, Current
  <2>2. Waiting \subseteq Left
    BY <1>1, <2>1 DEF Left
  <2>3. Left' = Left \ Waiting
    BY <1>2 DEF Left, Ended
  <2> QED  BY <1>0, <1>3, <2>2, <2>3 DEF Balanced, TypeOK
<1>4. CASE tx = "locked" /\ batch.finishedAt = "null" /\ next' = markCancelled(batch, Cardinality(Waiting))
  <2>1. \A j \in Jobs : writes[j] = "same"
    BY <1>0, <1>4 DEF Balanced
  <2>2. Waiting \subseteq Left /\ Left = Open
    BY <1>1, <2>1 DEF Left, Open
  <2>3. Left' = Left \ Waiting
    BY <1>2 DEF Left, Ended
  <2>4. Adds(batch, Cardinality(Left))
    BY <1>0, <1>4, <2>2 DEF Balanced, Exists
  <2> QED  BY <1>0, <1>4, <2>2, <2>3, <2>4 DEF TypeOK
<1> QED  BY <1>3, <1>4 DEF cancelWaiting

LEMMA BalancedStep ==
  ASSUME BInv, [Next]_vars
  PROVE  Balanced' /\ NoOrphans' /\ CancelledLeavesNoneWaiting'
<1>0. Inv /\ TypeOK /\ Balanced /\ NoOrphans /\ CancelledLeavesNoneWaiting
  BY DEF BInv, Inv
<1>1. ASSUME NEW a \in {"no", "yes"}, enqueueBatch(a)
      PROVE  Balanced' /\ NoOrphans' /\ CancelledLeavesNoneWaiting'
  <2> DEFINE new == Record(Cardinality(Jobs), 0, 0, 0, "null", "null", a)
  <2>1. Cardinality(Jobs) \in Nat
    BY JobsCount
  <2>2. batch' = settled(new) /\ UNCHANGED txVars /\ job' = [j \in Jobs |-> Row("pending", 0)]
    BY <1>1 DEF enqueueBatch
  <2>3. Adds(new, Cardinality(Jobs)) /\ new.cancelledAt = "null" /\ new.finishedAt = "null"
    BY <2>1 DEF Record, Adds
  <2>4. Adds(batch', Cardinality(Jobs)) /\ batch'.cancelledAt = "null" /\ batch'.finishedAt # "none"
    BY <2>2, <2>3, SettledAdds DEF settled, Record
  <2>5. Open' = Jobs
    BY <2>2 DEF Open, Ended, Row
  <2>6. tx \notin {"counted", "ready"} /\ tx' = tx /\ writes' = writes
    BY <1>0, <1>1, <2>2 DEF Inv, enqueueBatch, txVars
  <2>7. Balanced'
    BY <1>0, <2>4, <2>5, <2>6 DEF Balanced, Adds
  <2> QED  BY <2>4, <2>7 DEF NoOrphans, CancelledLeavesNoneWaiting, Exists
<1>2. ASSUME NEW j \in Jobs, claim(j)
      PROVE  Balanced' /\ NoOrphans' /\ CancelledLeavesNoneWaiting'
  <2>1. /\ batch' = batch /\ UNCHANGED txVars /\ released' = released /\ writes[j] = "same"
        /\ job[j].status \in {"pending", "claimed"} /\ job'[j].status = "claimed"
        /\ \A i \in Jobs : i # j => job'[i] = job[i]
    BY <1>0, <1>2 DEF claim, TypeOK, Row
  <2> QED  BY <2>1, RowsMove DEF Ended
<1>3. ASSUME NEW c \in runs, check(c) \/ lose(c)
      PROVE  Balanced' /\ NoOrphans' /\ CancelledLeavesNoneWaiting'
  BY <1>3, RowsMove DEF check, lose, Ended
<1>4. ASSUME NEW c \in runs, release(c)
      PROVE  Balanced' /\ NoOrphans' /\ CancelledLeavesNoneWaiting'
  <2>1. batch' = batch /\ UNCHANGED txVars /\ writes[c.job] = "same" /\ c.job \in Jobs
    BY <1>0, <1>4 DEF release, TypeOK, Claims
  <2>2. CASE Current(c)
    <3>1. /\ released' = released \union {c.job} /\ job[c.job].status = "claimed"
          /\ job'[c.job].status = "pending" /\ \A i \in Jobs : i # c.job => job'[i] = job[i]
      BY <1>0, <1>4, <2>1, <2>2 DEF release, TypeOK, Row, Current
    <3> QED  BY <2>1, <3>1, RowsMove DEF Ended
  <2>3. CASE ~Current(c)
    BY <1>4, <2>1, <2>3, RowsMove DEF release, Ended
  <2> QED  BY <2>2, <2>3
<1>5. ASSUME \/ cancelBatch \/ refuseCancel \/ rollback
             \/ \E c \in runs, o \in Outcomes \union {"retry"} : lockBatch(c, o)
      PROVE  Balanced' /\ NoOrphans' /\ CancelledLeavesNoneWaiting'
  <2>1. batch' = batch /\ job' = job /\ released' = released
    BY <1>5 DEF cancelBatch, refuseCancel, rollback, lockBatch
  <2>2. tx' \notin {"counted", "ready"} /\ \A j \in Jobs : writes'[j] = "same"
    BY <1>0, <1>5 DEF cancelBatch, refuseCancel, rollback, lockBatch, Closed, Same, Balanced
  <2> QED  BY <2>1, <2>2, RowsMove DEF Ended
<1>6. CASE retry
  <2>1. batch' = batch /\ released' = released /\ tx = "locked" /\ who \in Claims
    BY <1>0, <1>6 DEF retry, Inv
  <2>2. tx' \notin {"counted", "ready"} /\ \A j \in Jobs : writes[j] = "same" /\ writes'[j] = "same"
    BY <1>0, <1>6, <2>1 DEF retry, Closed, Same, Balanced
  <2>3. CASE Current(who)
    <3>1. /\ job[who.job].status = "claimed" /\ who.job \in Jobs
          /\ job'[who.job].status = "pending" /\ \A i \in Jobs : i # who.job => job'[i] = job[i]
      BY <1>0, <1>6, <2>1, <2>3 DEF retry, TypeOK, Row, Current, Claims
    <3>2. Exists(batch) /\ batch.cancelledAt # "set"
      BY <1>0, <1>6, <3>1 DEF retry, RetryAllowed, NoOrphans
    <3>3. \A j \in Jobs :
            /\ job'[j].status \in {"dead", "gone"} <=> Ended(j)
            /\ job'[j].status \in {"pending", "claimed"} => job[j].status \in {"pending", "claimed"}
      BY <3>1 DEF Ended
    <3> QED  BY <2>1, <2>2, <3>2, <3>3, RowsMove
  <2>4. CASE ~Current(who)
    BY <1>6, <2>1, <2>2, <2>4, RowsMove DEF retry, Ended
  <2> QED  BY <2>3, <2>4
<1>7. CASE endBatchJob
  <2>1. who \in Claims /\ who.job \in Jobs /\ Ending \in Outcomes /\ tx = "locked"
    BY <1>0, <1>7 DEF endBatchJob, Inv, Ending, TypeOK, Outcomes, Claims
  <2>2. \A j \in Jobs : writes[j] = "same"
    BY <1>0, <2>1 DEF Balanced
  <2>3. CASE Current(who) /\ Exists(batch)
    <3>1. /\ next' = countOutcome(batch, Ending) /\ tx' = "counted"
          /\ job' = job /\ who' = who /\ batch' = batch /\ released' = released
      BY <1>7, <2>3 DEF endBatchJob
    <3>2. \A j \in Jobs : writes'[j] # "same" <=> j = who.job
      BY <1>0, <1>7, <2>2, <2>3 DEF endBatchJob, TypeOK
    <3>3. Left' = Open \ {who.job}
      BY <3>1, <3>2 DEF Left, Open, Ended
    <3>4. who.job \in Open
      BY <2>1, <2>3 DEF Open, Ended, Current
    <3>5. Open \subseteq Jobs /\ IsFiniteSet(Open) /\ Cardinality(Open) \in Nat
      BY JobsCount DEF Open
    <3>6. Cardinality(Left') = Cardinality(Open) - 1 /\ Cardinality(Open) > 0
      <4>1. Cardinality(Open \ {who.job}) = Cardinality(Open) - 1
        BY <3>4, <3>5, FS_RemoveElement
      <4>2. Cardinality(Open) # 0
        BY <3>4, <3>5, FS_EmptySet
      <4> QED  BY <3>3, <3>5, <4>1, <4>2
    <3>7. Adds(batch, Cardinality(Open)) /\ batch \in Records
      BY <1>0, <2>3 DEF Balanced, TypeOK
    <3>8. Adds(next', Cardinality(Left')) /\ next'.cancelledAt = batch.cancelledAt
      BY <2>1, <3>1, <3>5, <3>6, <3>7, CountAdds
    <3>9. Current(who)'
      BY <2>3, <3>1 DEF Current
    <3>10. Open' = Open
      BY <3>1 DEF Open, Ended
    <3>11. Balanced'
      BY <1>0, <2>1, <3>1, <3>2, <3>7, <3>8, <3>9, <3>10 DEF Balanced, Adds
    <3> QED  BY <1>0, <3>1, <3>11 DEF NoOrphans, CancelledLeavesNoneWaiting
  <2>4. CASE ~(Current(who) /\ Exists(batch))
    <3>1. ~Current(who)
      BY <1>0, <2>1, <2>4 DEF NoOrphans, Current
    <3>2. job' = job /\ batch' = batch /\ released' = released /\ tx' = "none"
          /\ \A j \in Jobs : writes'[j] = "same"
      BY <1>7, <3>1 DEF endBatchJob, Closed, Same
    <3> QED  BY <3>2, RowsMove DEF Ended
  <2> QED  BY <2>3, <2>4
<1>8. CASE cancelWaiting
  <2>1. job' = job /\ batch' = batch /\ released' = released /\ tx' = "ready"
    BY <1>8 DEF cancelWaiting
  <2>2. PICK r \in Records : Adds(r, Cardinality(Left)) /\ next' = markCancelled(r, Cardinality(Waiting))
    BY <1>8, WaitingLeft
  <2>3. Waiting \subseteq Left /\ Left' = Left \ Waiting /\ Left \subseteq Jobs
    BY <1>8, WaitingLeft DEF Left
  <2>4. /\ Cardinality(Left) \in Nat /\ Cardinality(Waiting) \in Nat
        /\ Cardinality(Waiting) <= Cardinality(Left)
        /\ Cardinality(Left') = Cardinality(Left) - Cardinality(Waiting)
    BY <2>3, JobsCount, CountOff, WaitingCount
  <2>5. Adds(next', Cardinality(Left'))
    BY <2>2, <2>4, CancelAdds
  <2>6. \A j \in Jobs : job'[j].status = "pending" => writes'[j] # "same"
    BY <1>8, <2>1 DEF cancelWaiting, Waiting
  <2>7. Open' = Open
    BY <2>1 DEF Open, Ended
  <2>8. Balanced'
    BY <1>0, <2>1, <2>5, <2>6, <2>7 DEF Balanced, Adds, Exists
  <2> QED  BY <1>0, <2>1, <2>8 DEF NoOrphans, CancelledLeavesNoneWaiting
<1>9. CASE saveBatch
  <2>1. /\ tx \in {"counted", "ready"} /\ Exists(batch) /\ Adds(next, Cardinality(Left))
        /\ batch' = settled(next) /\ tx' = "none" /\ released' = released
        /\ \A j \in Jobs : writes'[j] = "same"
    BY <1>0, <1>9 DEF saveBatch, Closed, Same, Inv, Balanced
  <2>2. \A j \in Jobs : job'[j] = IF writes[j] = "same" THEN job[j] ELSE Row(writes[j], job[j].attempts)
    BY <1>9 DEF saveBatch
  <2>3. \A j \in Jobs : writes[j] \in {"same", "dead", "gone"}
    BY <1>0 DEF TypeOK
  <2>4. \A j \in Jobs :
          /\ writes[j] = "same" => job'[j].status = job[j].status
          /\ writes[j] # "same" => job'[j].status = writes[j]
    <3> TAKE j \in Jobs
    <3>1. job'[j] = IF writes[j] = "same" THEN job[j] ELSE Row(writes[j], job[j].attempts)
      BY <2>2
    <3>2. Row(writes[j], job[j].attempts).status = writes[j]
      BY DEF Row
    <3> QED  BY <3>1, <3>2
  <2>10. \A j \in Jobs : Ended(j)' <=> Ended(j) \/ writes[j] # "same"
    BY <2>3, <2>4 DEF Ended
  <2>5. Open' = Left
    BY <2>10 DEF Open, Left
  <2>6. Adds(batch', Cardinality(Open')) /\ batch'.cancelledAt = next.cancelledAt
    BY <2>1, <2>5, SettledAdds
  <2>7. Exists(batch')
    BY <1>0, <2>1, SaveKeepsExact DEF Inv, TypeOK, CallCounts
  <2>8. Balanced'
    BY <2>1, <2>6 DEF Balanced, Adds
  <2>9. ASSUME batch'.cancelledAt = "set", NEW j \in Jobs, job'[j].status = "pending"
        PROVE  j \in released
    <3>1. job[j].status = "pending" /\ writes[j] = "same"
      BY <2>3, <2>4, <2>9
    <3>2. CASE tx = "ready"
      BY <1>0, <3>1, <3>2 DEF Balanced
    <3>3. CASE tx = "counted"
      BY <1>0, <2>1, <2>6, <2>9, <3>1, <3>3 DEF Balanced, CancelledLeavesNoneWaiting
    <3> QED  BY <2>1, <3>2, <3>3
  <2> QED  BY <2>1, <2>7, <2>8, <2>9 DEF NoOrphans, CancelledLeavesNoneWaiting, Exists
<1>10. CASE pruneBatches
  <2>1. /\ batch.finishedAt = "set" /\ batch' = NoBatch /\ tx = "none"
        /\ job' = job /\ UNCHANGED txVars
    BY <1>10 DEF pruneBatches, Prunable
  <2>2. batch.pending = 0 /\ batch.pending = Cardinality(Open)
    BY <1>0, <2>1 DEF Inv, Exists, Exact, Balanced, Adds
  <2>3. Open = {}
    BY <2>2, JobsCount, FS_EmptySet DEF Open
  <2>4. ~Exists(batch')
    BY <2>1 DEF NoBatch, Exists, Record
  <2>5. NoOrphans'
    BY <2>1, <2>3 DEF NoOrphans, Open, Ended
  <2>6. Balanced'
    BY <1>0, <2>1, <2>4 DEF Balanced, Exists, txVars
  <2> QED  BY <2>4, <2>5, <2>6 DEF CancelledLeavesNoneWaiting, Exists
<1>11. CASE UNCHANGED vars
  <2>1. /\ job' = job /\ batch' = batch /\ released' = released /\ UNCHANGED txVars
    BY <1>11 DEF vars, txVars
  <2> QED  BY <2>1, RowsMove DEF Ended
<1> QED
  BY <1>1, <1>2, <1>3, <1>4, <1>5, <1>6, <1>7, <1>8, <1>9, <1>10, <1>11
     DEF Next, Advance, Transact

LEMMA BatchInvariant == Spec => []BInv
<1>1. Init => BInv
  <2> SUFFICES ASSUME Init PROVE BInv
    OBVIOUS
  <2>1. Inv /\ ~Exists(batch) /\ tx = "none" /\ \A j \in Jobs : writes[j] = "same" /\ job[j].status = "none"
    BY InitInv DEF Init, NoBatch, Exists, Record, Same, Row
  <2> QED  BY <2>1 DEF BInv, Balanced, NoOrphans, CancelledLeavesNoneWaiting
<1>2. BInv /\ [Next]_vars => BInv'
  <2> SUFFICES ASSUME BInv, [Next]_vars PROVE BInv'
    OBVIOUS
  <2>1. Inv'
    BY NextInv DEF BInv
  <2> QED  BY <2>1, BalancedStep DEF BInv
<1> QED  BY <1>1, <1>2, PTL DEF Spec

(* Every job is counted exactly once, as it ends, for a batch of any size: *)
(* after each commit the counters say what the rows say, whatever stale    *)
(* reports, lost transactions and claims during a cancellation there were. *)
THEOREM EndsCounted == Spec => []EachEndCountedOnce
<1>1. BInv => EachEndCountedOnce
  BY DEF BInv, Balanced, Adds, Open, EachEndCountedOnce
<1> QED  BY <1>1, BatchInvariant, PTL

(* A cancellation reaches every waiting job: in a cancelled batch nothing  *)
(* waits but jobs that gave an attempt back. *)
THEOREM CancellationReaches == Spec => []CancelledLeavesNoneWaiting
<1>1. BInv => CancelledLeavesNoneWaiting
  BY DEF BInv
<1> QED  BY <1>1, BatchInvariant, PTL

(* No job is left behind by a batch whose row was pruned. *)
THEOREM BatchOutlives == Spec => []NoOrphans
<1>1. BInv => NoOrphans
  BY DEF BInv
<1> QED  BY <1>1, BatchInvariant, PTL

=============================================================================
