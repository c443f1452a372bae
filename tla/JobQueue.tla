------------------------------ MODULE JobQueue ------------------------------
(***************************************************************************)
(* The jobs table of DatabaseQueueDriver and the processes that claim from *)
(* it: what QueueManager does with a claim from the moment the driver      *)
(* hands it out to the report that ends it.                                *)
(*                                                                         *)
(* A statement of the driver is one atomic step.  Moments are kept         *)
(* relative to the database's clock: row[j].due is available_at - now and  *)
(* row[j].lease is lease_expires_at - now, so a negative value says for    *)
(* how long the row has been claimable.  They stop falling at -Horizon.    *)
(***************************************************************************)
EXTENDS Integers, FiniteSets

CONSTANTS
  Jobs,               \* ids of the jobs that may be dispatched
  Procs,              \* processes claiming from the table
  Nobody,             \* no process
  Knows,              \* Knows[p]: the jobs whose class p has registered
  MaxAttempts,        \* Job.maxAttempts
  Concurrency,        \* QueueConfig.concurrency
  VisibilityTimeout,  \* QueueConfig.visibilityTimeout, in ticks
  Grace,              \* QueueConfig.unknownJobGrace, in ticks
  Delays,             \* dispatch delays, backoffs and release delays
  TwoPass,            \* TRUE: MySQL's two selects; FALSE: one statement
  Horizon,            \* bound: how far in the past a moment is told apart
  MaxFaults,          \* bound: crashes and reports lost on the way
  MaxMissed,          \* bound: heartbeats that do not reach the table
  MaxReleases,        \* bound: releases
  MaxRetries          \* bound: retryDead calls per job

(* What the code takes for granted of its configuration. *)
ASSUME ConfigAssumption ==
  /\ Nobody \notin Procs
  /\ Knows \in [Procs -> SUBSET Jobs]
  /\ MaxAttempts \in Int
  /\ Concurrency \in Nat
  /\ VisibilityTimeout \in Nat
  /\ Grace \in Nat
  /\ Delays \subseteq Nat
  /\ TwoPass \in BOOLEAN
  /\ Horizon \in Nat
  /\ MaxFaults \in Nat /\ MaxMissed \in Nat
  /\ MaxReleases \in Nat /\ MaxRetries \in Nat

VARIABLES
  row,       \* the jobs table
  hand,      \* hand[p]: the claims p is running, until their report lands
  leaving,   \* leaving[p]: runs whose report landed, its answer still to come
  inFlight,  \* inFlight[p]: the keys id:attempt of p's Map of runs
  beat,      \* beat[p]: ticks until p's heartbeat timer fires, or NoTimer
  life,      \* life[j]: how often j was brought back by retryDead
  tries,     \* history: runs of j begun in this life and not refunded
  mixed,     \* history: jobs a claim of an earlier life reported on
  rekeyed,   \* history: jobs claimed under a key an earlier run still had
  faults, missed, releases   \* what is used of each bound

inMemory == <<hand, leaving, inFlight>>

vars == <<row, hand, leaving, inFlight, beat, life, tries, mixed, rekeyed,
          faults, missed, releases>>

NoTimer == -1

(* "none": not dispatched yet.  "gone": the row was deleted. *)
Statuses == {"none", "pending", "claimed", "dead", "gone"}

Rows == [status : Statuses, attempts : Int, due : Int, lease : Int]

(* A claim as its process holds it: handed over, or running since.  life   *)
(* and rank are history: the life of the job it was taken in, and whether  *)
(* a later claim of the job was issued since. *)
Claims == [job : Jobs, attempt : Int, life : Nat,
           stage : {"handed", "running"}, rank : {"newest", "superseded"}]

Taken(job, attempt, inLife, stage, rank) ==
  [job |-> job, attempt |-> attempt, life |-> inLife, stage |-> stage, rank |-> rank]

(* A run as inFlight names it. *)
Key(c) == <<c.job, c.attempt>>

(* What is left of a run after its report.  life and at tell two of one    *)
(* key apart. *)
Leavers == [key : Jobs \X Int, life : Nat, at : Nat]

TypeOK ==
  /\ row \in [Jobs -> Rows]
  /\ hand \in [Procs -> SUBSET Claims]
  /\ leaving \in [Procs -> SUBSET Leavers]
  /\ inFlight \in [Procs -> SUBSET (Jobs \X Int)]
  /\ beat \in [Procs -> Int]
  /\ life \in [Jobs -> Nat]
  /\ tries \in [Jobs -> Int]
  /\ mixed \subseteq Jobs /\ rekeyed \subseteq Jobs
  /\ faults \in Nat /\ missed \in Nat /\ releases \in Nat

Row(status, attempts, due, lease) ==
  [status |-> status, attempts |-> attempts, due |-> due, lease |-> lease]

Blank == Row("none", 0, 0, 0)

Init ==
  /\ row = [j \in Jobs |-> Blank]
  /\ hand = [p \in Procs |-> {}]
  /\ leaving = [p \in Procs |-> {}]
  /\ inFlight = [p \in Procs |-> {}]
  /\ beat = [p \in Procs |-> NoTimer]
  /\ life = [j \in Jobs |-> 0]
  /\ tries = [j \in Jobs |-> 0]
  /\ mixed = {} /\ rekeyed = {}
  /\ faults = 0 /\ missed = 0 /\ releases = 0

-----------------------------------------------------------------------------
(* The driver's statements.                                                *)

(* INSERT: waiting, no attempt made, due after the delay. *)
Enqueue(j, d) ==
  /\ row[j].status = "none"
  /\ row' = [row EXCEPT ![j] = Row("pending", 0, d, 0)]
  /\ UNCHANGED <<inMemory, beat, life, tries, mixed, rekeyed, faults, missed, releases>>

(* Variant: a lapsed lease is never handed out again. *)
claimableWaiting(p) ==
  {j \in Jobs : row[j].status = "pending" /\ row[j].due <= 0}

(* Whether p may take j by its name, claimable since the given moment. *)
runnable(p, j, since) == j \in Knows[p] \/ since <= -Grace

claimable(p) ==
  {j \in Jobs :
     \/ /\ row[j].status = "pending" /\ row[j].due <= 0
        /\ runnable(p, j, row[j].due)
     \/ /\ row[j].status = "claimed" /\ row[j].lease <= 0
        /\ runnable(p, j, row[j].lease)}

(* The order rows are handed out in: by available_at; with two passes,     *)
(* waiting rows before lapsed ones, and those by the end of their lease.   *)
Earlier(i, j) ==
  IF TwoPass
  THEN \/ row[i].status = "pending" /\ row[j].status = "claimed"
       \/ /\ row[i].status = row[j].status
          /\ IF row[i].status = "pending" THEN row[i].due < row[j].due
                                          ELSE row[i].lease < row[j].lease
  ELSE row[i].due < row[j].due

(* Variant: the claim is not counted as an attempt. *)
claimedRowUncounted(r) == Row("claimed", r.attempts, r.due, VisibilityTimeout)

claimedRow(r) == Row("claimed", r.attempts + 1, r.due, VisibilityTimeout)
extendedRow(r) == Row(r.status, r.attempts, r.due, VisibilityTimeout)

(* Variant: reports are not guarded by their attempt. *)
CurrentByStatus(c) == row[c.job].status = "claimed"

(* The claim a report is about is the one that holds the row: the guard    *)
(* every report carries, "status = 'claimed' AND attempts = attempt".      *)
Current(c) ==
  row[c.job].status = "claimed" /\ row[c.job].attempts = c.attempt

deletedRow == Row("gone", 0, 0, 0)
deadRow(r) == Row("dead", r.attempts, 0, 0)
retryRow(r, d) == Row("pending", r.attempts, d, 0)
releasedRow(r, d) == Row("pending", r.attempts - 1, d, 0)

-----------------------------------------------------------------------------
(* One process.                                                            *)

(* Variant: a heartbeat as seldom as the leases are long. *)
EveryTimeout == VisibilityTimeout

Every == IF VisibilityTimeout \div 3 > 1 THEN VisibilityTimeout \div 3 ELSE 1

(* The claims of S become stale, whoever holds them. *)
Superseded(H, S) ==
  {IF c.job \in S THEN Taken(c.job, c.attempt, c.life, c.stage, "superseded") ELSE c
     : c \in H}

(* One pass of the loop: claim up to the free slots, run what came back,   *)
(* start the heartbeat timer when there is none.                           *)
Claim(p, S) ==
  LET room == Concurrency - Cardinality(inFlight[p])
      can == claimable(p)
      new == {Taken(j, row[j].attempts + 1, life[j], "handed", "newest") : j \in S}
  IN  /\ room > 0
      /\ S \subseteq can /\ S # {}
      /\ IF Cardinality(can) < room THEN S = can ELSE Cardinality(S) = room
      /\ \A i \in S, j \in can \ S : ~Earlier(j, i)
      /\ row' = [j \in Jobs |-> IF j \in S THEN claimedRow(row[j]) ELSE row[j]]
      /\ hand' = [q \in Procs |->
                    Superseded(hand[q], S) \union (IF q = p THEN new ELSE {})]
      /\ inFlight' = [inFlight EXCEPT ![p] = @ \union {Key(c) : c \in new}]
      /\ rekeyed' = rekeyed \union {j \in S : <<j, row[j].attempts + 1>> \in inFlight[p]}
      /\ beat' = [beat EXCEPT ![p] = IF @ = NoTimer THEN Every ELSE @]
      /\ UNCHANGED <<leaving, life, tries, mixed, faults, missed, releases>>

LastAttempt == IF MaxAttempts > 1 THEN MaxAttempts ELSE 1

(* Variant: a claim past the last attempt is run. *)
RunsKnown(p, c) == c.job \in Knows[p]

(* The checks before run(): the name is registered here, and the claim is  *)
(* not past the last attempt. *)
Runs(p, c) == c.job \in Knows[p] /\ c.attempt <= LastAttempt

Begin(p, c) ==
  /\ c \in hand[p] /\ c.stage = "handed"
  /\ Runs(p, c)
  /\ hand' = [hand EXCEPT ![p] = (@ \ {c}) \union
                    {Taken(c.job, c.attempt, c.life, "running", c.rank)}]
  /\ tries' = [tries EXCEPT ![c.job] = IF c.life = life[c.job] THEN @ + 1 ELSE @]
  /\ UNCHANGED <<row, leaving, inFlight, beat, life, mixed, rekeyed, faults, missed, releases>>

(* The run is over, but for what p awaits before it leaves inFlight. *)
Ends(p, c) ==
  /\ hand' = [hand EXCEPT ![p] = @ \ {c}]
  /\ leaving' = [leaving EXCEPT ![p] =
                    @ \union {[key |-> Key(c), life |-> c.life, at |-> releases]}]
  /\ UNCHANGED inFlight

(* A report that reached the table.  r is the row it writes; a stale       *)
(* report writes nothing. *)
Report(p, c, r) ==
  /\ Ends(p, c)
  /\ row' = IF Current(c) THEN [row EXCEPT ![c.job] = r] ELSE row
  /\ mixed' = IF Current(c) /\ c.life # life[c.job]
              THEN mixed \union {c.job} ELSE mixed
  /\ UNCHANGED <<beat, life, rekeyed, faults, missed>>

(* Dead-lettered unrun: nobody knows the name, or the attempts are used up. *)
DropUnrun(p, c) ==
  /\ c \in hand[p] /\ c.stage = "handed"
  /\ ~Runs(p, c)
  /\ Report(p, c, deadRow(row[c.job]))
  /\ UNCHANGED <<tries, releases>>

(* An unknown name handed out at the edge of its grace window, by this     *)
(* process's clock still inside it: left for another replica. *)
ReleaseUnknown(p, c, d) ==
  /\ c \in hand[p] /\ c.stage = "handed"
  /\ c.job \notin Knows[p]
  /\ releases < MaxReleases
  /\ Report(p, c, releasedRow(row[c.job], d))
  /\ releases' = releases + 1
  /\ UNCHANGED tries

Complete(p, c) ==
  /\ c \in hand[p] /\ c.stage = "running"
  /\ Report(p, c, deletedRow)
  /\ UNCHANGED <<tries, releases>>

(* run() threw, or called this.fail: again after the backoff, or dead once *)
(* the attempts are used up or the job asked for no retry. *)
Fail(p, c, d, retry) ==
  /\ c \in hand[p] /\ c.stage = "running"
  /\ Report(p, c, IF ~retry \/ c.attempt >= MaxAttempts
                  THEN deadRow(row[c.job])
                  ELSE retryRow(row[c.job], d))
  /\ UNCHANGED <<tries, releases>>

(* this.release(), or a job over one of its limits: the attempt is taken   *)
(* back. *)
Release(p, c, d) ==
  /\ c \in hand[p] /\ c.stage = "running"
  /\ releases < MaxReleases
  /\ Report(p, c, releasedRow(row[c.job], d))
  /\ tries' = IF Current(c) THEN [tries EXCEPT ![c.job] = @ - 1] ELSE tries
  /\ releases' = releases + 1

(* The driver refused the report, or it was lost: the run is over and the  *)
(* row still claimed. *)
LoseReport(p, c) ==
  /\ c \in hand[p]
  /\ faults < MaxFaults
  /\ faults' = faults + 1
  /\ Ends(p, c)
  /\ UNCHANGED <<row, beat, life, tries, mixed, rekeyed, missed, releases>>

(* The report was answered, and what follows it done: the finally of       *)
(* execute() deletes the key, whichever run has it by now. *)
Leave(p, l) ==
  /\ l \in leaving[p]
  /\ leaving' = [leaving EXCEPT ![p] = @ \ {l}]
  /\ inFlight' = [inFlight EXCEPT ![p] = @ \ {l.key}]
  /\ UNCHANGED <<row, hand, beat, life, tries, mixed, rekeyed, faults, missed, releases>>

(* The process is killed and started again: nothing is replayed on boot. *)
Crash(p) ==
  /\ hand[p] # {} \/ leaving[p] # {}
  /\ faults < MaxFaults
  /\ faults' = faults + 1
  /\ hand' = [hand EXCEPT ![p] = {}]
  /\ leaving' = [leaving EXCEPT ![p] = {}]
  /\ inFlight' = [inFlight EXCEPT ![p] = {}]
  /\ beat' = [beat EXCEPT ![p] = NoTimer]
  /\ UNCHANGED <<row, life, tries, mixed, rekeyed, missed, releases>>

(* The heartbeat timer fires: every lease whose claim is in flight here is *)
(* extended, or, with nothing in flight, the timer is cleared. *)
Heartbeat(p) ==
  /\ beat[p] = 0
  /\ beat' = [beat EXCEPT ![p] = IF inFlight[p] = {} THEN NoTimer ELSE Every]
  /\ row' = [j \in Jobs |->
               IF row[j].status = "claimed" /\ <<j, row[j].attempts>> \in inFlight[p]
               THEN extendedRow(row[j]) ELSE row[j]]
  /\ UNCHANGED <<inMemory, life, tries, mixed, rekeyed, faults, missed, releases>>

(* The heartbeat's statement failed; the next one is a full interval away. *)
MissHeartbeat(p) ==
  /\ beat[p] = 0 /\ inFlight[p] # {}
  /\ missed < MaxMissed
  /\ missed' = missed + 1
  /\ beat' = [beat EXCEPT ![p] = Every]
  /\ UNCHANGED <<row, inMemory, life, tries, mixed, rekeyed, faults, releases>>

-----------------------------------------------------------------------------
(* The operator's calls and the clock.                                     *)

(* Variant: a job is brought back whatever its status. *)
retryAny(j) ==
  /\ row[j].status \in {"dead", "claimed"}
  /\ life[j] < MaxRetries
  /\ row' = [row EXCEPT ![j] = Row("pending", 0, 0, 0)]
  /\ life' = [life EXCEPT ![j] = @ + 1]
  /\ tries' = [tries EXCEPT ![j] = 0]
  /\ UNCHANGED <<inMemory, beat, mixed, rekeyed, faults, missed, releases>>

retryDead(j) ==
  /\ row[j].status = "dead"
  /\ life[j] < MaxRetries
  /\ row' = [row EXCEPT ![j] = Row("pending", 0, 0, 0)]
  /\ life' = [life EXCEPT ![j] = @ + 1]
  /\ tries' = [tries EXCEPT ![j] = 0]
  /\ UNCHANGED <<inMemory, beat, mixed, rekeyed, faults, missed, releases>>

prune(j) ==
  /\ row[j].status = "dead"
  /\ row' = [row EXCEPT ![j] = deletedRow]
  /\ UNCHANGED <<inMemory, beat, life, tries, mixed, rekeyed, faults, missed, releases>>

Lower(t) == IF t > -Horizon THEN t - 1 ELSE t

Later(r) ==
  CASE r.status = "pending" -> Row("pending", r.attempts, Lower(r.due), 0)
    [] r.status = "claimed" -> Row("claimed", r.attempts, Lower(r.due), Lower(r.lease))
    [] OTHER -> r

(* Time passes.  A timer that is due fires before it does. *)
Tick ==
  /\ \A p \in Procs : beat[p] # 0
  /\ row' = [j \in Jobs |-> Later(row[j])]
  /\ beat' = [p \in Procs |-> IF beat[p] > 0 THEN beat[p] - 1 ELSE beat[p]]
  /\ UNCHANGED <<inMemory, life, tries, mixed, rekeyed, faults, missed, releases>>

-----------------------------------------------------------------------------

ClaimSome(p) == \E S \in SUBSET Jobs : Claim(p, S)

(* The steps that take one claim to the end of its run. *)
Step(p, c) ==
  \/ Begin(p, c)
  \/ DropUnrun(p, c)
  \/ Complete(p, c)
  \/ \E d \in Delays, retry \in BOOLEAN : Fail(p, c, d, retry)

LeaveSome(p) == \E l \in leaving[p] : Leave(p, l)

Next ==
  \/ \E j \in Jobs, d \in Delays : Enqueue(j, d)
  \/ \E p \in Procs : \/ ClaimSome(p) \/ LeaveSome(p)
                     \/ Heartbeat(p) \/ MissHeartbeat(p) \/ Crash(p)
  \/ \E p \in Procs : \E c \in hand[p] :
       \/ Step(p, c)
       \/ LoseReport(p, c)
       \/ \E d \in Delays : ReleaseUnknown(p, c, d) \/ Release(p, c, d)
  \/ \E j \in Jobs : retryDead(j) \/ prune(j)
  \/ Tick

Spec == Init /\ [][Next]_vars

(* Every process keeps polling, its timers fire, what it runs ends and     *)
(* leaves, and time passes.  Crashes, lost reports and releases owe nothing. *)
Fairness ==
  /\ WF_vars(Tick)
  /\ \A p \in Procs :
       /\ WF_vars(ClaimSome(p))
       /\ WF_vars(Heartbeat(p))
       /\ WF_vars(\E c \in hand[p] : Step(p, c))
       /\ WF_vars(LeaveSome(p))

FairSpec == Spec /\ Fairness

-----------------------------------------------------------------------------
(* Properties.                                                             *)

(* A claim of the job's present life, on a job whose lives were not mixed. *)
Fresh(c) == c.life = life[c.job] /\ c.job \notin mixed

(* Within one life of a job an attempt number names one run, in all        *)
(* processes together, until that run's report lands: what the guard of    *)
(* every report takes for granted. *)
AttemptNamesOneRun ==
  \A p, q \in Procs : \A c \in hand[p], d \in hand[q] :
    Fresh(c) /\ Fresh(d) /\ c.job = d.job /\ c.attempt = d.attempt
      => p = q /\ c = d

(* No run in hand is ahead of its job: not of its lives, and not of the    *)
(* attempts of a row that can still be claimed, so the attempt the next    *)
(* claim counts is a new one. *)
NoRunAhead ==
  \A p \in Procs : \A c \in hand[p] :
    /\ row[c.job].status # "none" /\ c.life <= life[c.job]
    /\ Fresh(c) /\ row[c.job].status \in {"pending", "claimed"}
         => c.attempt <= row[c.job].attempts

(* Of all the runs of a job, in every process, at most one can still end   *)
(* its row: the one of the newest claim.  A slow process that lost its     *)
(* lease never ends the claim that replaced its own.  (Not so for a job    *)
(* that retryDead brought back while such a run was left: its attempts     *)
(* start at 0 again, and that run's report may end a claim of its number.) *)
OnlyNewestClaimCounts ==
  \A p \in Procs : \A c \in hand[p] :
    Fresh(c) /\ Current(c) => c.rank = "newest"

(* run() is entered at most maxAttempts times for one dispatch, not        *)
(* counting the runs that gave their attempt back - whatever crashes,      *)
(* lapses and lost reports there were in between. *)
AttemptsBounded ==
  \A j \in Jobs : j \notin mixed => tries[j] <= LastAttempt

(* Two runs of one job never overlap, in one process or two, unless at     *)
(* least two heartbeats failed: the timer runs at a third of the           *)
(* visibility timeout "so one late tick does not lose it" - or the job was *)
(* claimed again by a process while a run of it that had given its attempt *)
(* back was still in flight there: leaving, that run takes the new one's   *)
(* key along, and nobody keeps the new one's lease. *)
NoOverlap ==
  missed <= 1 =>
    \A p, q \in Procs : \A c \in hand[p], d \in hand[q] :
      c.job = d.job => (p = q /\ c = d) \/ c.job \in rekeyed

(* A step that ends the claim on a row, other than by handing the row out  *)
(* again, is the report of the run that holds its newest claim: the row    *)
(* never goes back to waiting, dies or disappears under a running job.     *)
OnlyHolderEnds ==
  [][\A j \in Jobs \ mixed' :
       row[j].status = "claimed" /\ row'[j].status # "claimed" =>
         \E p \in Procs : \E c \in hand[p] \ hand'[p] : c.job = j /\ c.rank = "newest"]_vars

(* A job that was dispatched ends: it completes or is dead-lettered, even  *)
(* when no process has its class, as long as faults stop. *)
EveryJobEnds ==
  \A j \in Jobs :
    row[j].status \in {"pending", "claimed"} ~> row[j].status \in {"dead", "gone"}

-----------------------------------------------------------------------------
(* The contract, implemented: the holder of a job is the process that runs *)
(* its newest claim.                                                       *)

Phase(j) ==
  CASE row[j].status = "pending" -> "waiting"
    [] row[j].status = "claimed" -> "held"
    [] OTHER -> row[j].status

Holders(j) ==
  {p \in Procs : \E c \in hand[p] : c.job = j /\ c.rank = "newest" /\ Current(c)}

Contract == INSTANCE JobContract WITH
  Attempts <- LastAttempt,
  phase <- [j \in Jobs |-> Phase(j)],
  holder <- [j \in Jobs |-> IF Holders(j) = {} THEN Nobody
                            ELSE CHOOSE p \in Holders(j) : TRUE],
  spent <- tries

(* The table and its processes keep the contract, as long as no dead job   *)
(* is brought back. *)
KeepsContract == Contract!Spec

=============================================================================
