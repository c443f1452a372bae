----------------------------- MODULE MemoryQueue -----------------------------
(***************************************************************************)
(* MemoryQueueDriver, and the one QueueManager its wakes are for.  The     *)
(* driver owns one timer, set for the next moment something becomes        *)
(* claimable; the manager sleeps until the driver or the end of a run      *)
(* wakes it, and a second timer, the heartbeat, keeps its leases.  It all  *)
(* happens in one thread: when the thread is blocked, both timers are late.*)
(*                                                                         *)
(* Moments are relative to now, as in JobQueue.  What happens between a    *)
(* claim being asked for and its jobs running is in QueueLoop.             *)
(***************************************************************************)
EXTENDS Integers, FiniteSets

CONSTANTS
  Jobs,               \* ids of the jobs that may be dispatched
  Concurrency,        \* QueueConfig.concurrency
  VisibilityTimeout,  \* QueueConfig.visibilityTimeout, in ticks
  MaxAttempts,        \* Job.maxAttempts
  Delays,             \* dispatch delays, backoffs and release delays
  Blocks,             \* bound: how long the thread may be blocked, in ticks
  MaxBlocks,          \* bound: how often it is
  MaxReleases,        \* bound: releases
  Horizon             \* bound: how far in the past a moment is told apart

ASSUME MemoryAssumption ==
  /\ Concurrency \in Nat /\ MaxAttempts \in Nat
  /\ VisibilityTimeout \in Nat \ {0}
  /\ Delays \subseteq Nat
  /\ Blocks \subseteq Nat \ {0, 1}
  /\ MaxBlocks \in Nat /\ MaxReleases \in Nat /\ Horizon \in Nat

VARIABLES
  entries,   \* the driver's Map
  timer,     \* moments until the one timer fires, or NoTimer
  awake,     \* the loop will claim: it was woken since it last went to sleep
  runs,      \* the claims being run here, until their report
  leaving,   \* runs whose report was made and whose promise has yet to settle
  inFlight,  \* the keys id:attempt of the manager's Map of runs
  beat,      \* moments until the heartbeat timer fires, or NoTimer
  tries,     \* history: runs of a job begun and not refunded
  longest,   \* history: the longest the thread was blocked
  rekeyed,   \* history: jobs claimed under a key an earlier run still had
  used       \* how much of each bound is used

vars == <<entries, timer, awake, runs, leaving, inFlight, beat, tries, longest, rekeyed, used>>

NoTimer == -1
Here == "here"       \* the one process
Nobody == "nobody"

Entry(state, attempt, until) == [state |-> state, attempt |-> attempt, until |-> until]

(* A run as inFlight names it. *)
Key(c) == <<c.job, c.attempt>>

Runs == [job : Jobs, attempt : Nat \ {0}, stage : {"handed", "running"}]

(* waits: something is awaited between the report and the end of the run.  *)
(* at tells two runs of one key apart. *)
Leavers == [run : Runs, waits : BOOLEAN, at : Nat]

Entries == [state : {"none", "waiting", "leased", "gone"}, attempt : Nat, until : Int]

TypeOK ==
  /\ entries \in [Jobs -> Entries]
  /\ timer \in Int /\ beat \in Int /\ longest \in Nat
  /\ awake \in BOOLEAN
  /\ runs \subseteq Runs /\ leaving \subseteq Leavers
  /\ inFlight \subseteq Jobs \X (Nat \ {0}) /\ rekeyed \subseteq Jobs
  /\ tries \in [Jobs -> Int]
  /\ used \in [blocks : Nat, releases : Nat]

Init ==
  /\ entries = [j \in Jobs |-> Entry("none", 0, 0)]
  /\ timer = NoTimer /\ beat = NoTimer /\ longest = 0
  /\ awake = FALSE
  /\ runs = {} /\ leaving = {} /\ inFlight = {} /\ rekeyed = {}
  /\ tries = [j \in Jobs |-> 0]
  /\ used = [blocks |-> 0, releases |-> 0]

Live(e) == e.state \in {"waiting", "leased"}
Due(e) == Live(e) /\ e.until <= 0

(* schedule(): the timer is set for the next moment still to come.  An     *)
(* entry that is due already has no say in it. *)
Coming == {j \in Jobs : Live(entries'[j]) /\ entries'[j].until > 0}

(* Variant: a timer that is set stays set. *)
scheduleOnce ==
  \/ timer # NoTimer /\ timer' = timer
  \/ timer = NoTimer /\ Coming = {} /\ timer' = NoTimer
  \/ timer = NoTimer /\ \E j \in Coming :
       /\ \A k \in Coming : entries'[j].until <= entries'[k].until
       /\ timer' = entries'[j].until

schedule ==
  \/ Coming = {} /\ timer' = NoTimer
  \/ \E j \in Coming :
       /\ \A k \in Coming : entries'[j].until <= entries'[k].until
       /\ timer' = entries'[j].until

(* Variant: nothing is announced. *)
changedQuietly == schedule /\ awake' = awake

(* changed(): schedule(), and a wake when something is due. *)
changed ==
  /\ schedule
  /\ awake' = (awake \/ \E j \in Jobs : Due(entries'[j]))

current(c) ==
  entries[c.job].state = "leased" /\ entries[c.job].attempt = c.attempt

(* Variant: a heartbeat as seldom as the leases are long. *)
EveryTimeout == VisibilityTimeout

Every == IF VisibilityTimeout \div 3 > 1 THEN VisibilityTimeout \div 3 ELSE 1
LastAttempt == IF MaxAttempts > 1 THEN MaxAttempts ELSE 1
Use(b) == used' = [used EXCEPT ![b] = @ + 1]

-----------------------------------------------------------------------------
(* The driver's operations, each with what the manager does around it.     *)

enqueue(j, d) ==
  /\ entries[j].state = "none"
  /\ entries' = [entries EXCEPT ![j] = Entry("waiting", 0, d)]
  /\ changed
  /\ UNCHANGED <<runs, leaving, inFlight, beat, tries, longest, rekeyed, used>>

(* claim(): the due entries that became claimable first, up to the free    *)
(* slots.  A full batch is followed by another claim, anything less by     *)
(* sleep. *)
claim(S) ==
  LET room == Concurrency - Cardinality(inFlight)
      due == {j \in Jobs : Due(entries[j])}
      new == {[job |-> j, attempt |-> entries[j].attempt + 1, stage |-> "handed"] : j \in S}
  IN  /\ awake /\ room > 0
      /\ S \subseteq due
      /\ IF Cardinality(due) < room THEN S = due ELSE Cardinality(S) = room
      /\ \A i \in S, j \in due \ S : entries[i].until <= entries[j].until
      /\ entries' = [j \in Jobs |->
           IF j \in S THEN Entry("leased", entries[j].attempt + 1, VisibilityTimeout)
                      ELSE entries[j]]
      /\ IF S = {} THEN UNCHANGED timer ELSE schedule
      /\ awake' = (Cardinality(S) = room)
      /\ runs' = runs \union new
      /\ inFlight' = inFlight \union {Key(c) : c \in new}
      /\ rekeyed' = rekeyed \union {j \in S : <<j, entries[j].attempt + 1>> \in inFlight}
      /\ beat' = IF S # {} /\ beat = NoTimer THEN Every ELSE beat
      /\ UNCHANGED <<leaving, tries, longest, used>>

(* No slot is free: the loop sleeps until a run ends. *)
sleep ==
  /\ awake /\ Cardinality(inFlight) >= Concurrency
  /\ awake' = FALSE
  /\ UNCHANGED <<entries, timer, runs, leaving, inFlight, beat, tries, longest, rekeyed, used>>

(* Variant: a claim past the last attempt is run. *)
MayRunAlways(c) == TRUE

MayRun(c) == c.attempt <= LastAttempt

Begin(c) ==
  /\ c \in runs /\ c.stage = "handed" /\ MayRun(c)
  /\ runs' = (runs \ {c}) \union
       {[job |-> c.job, attempt |-> c.attempt, stage |-> "running"]}
  /\ tries' = [tries EXCEPT ![c.job] = @ + 1]
  /\ UNCHANGED <<entries, timer, awake, leaving, inFlight, beat, longest, rekeyed, used>>

(* A report was made, and the run has yet to leave inFlight.  Between the  *)
(* two a run that freed its unique key waits for the lock store; any other *)
(* has microtasks to go, among which the loop's may come first. *)
reports(c, waits) ==
  /\ runs' = runs \ {c}
  /\ leaving' = leaving \union {[run |-> c, waits |-> waits, at |-> used.releases]}
  /\ UNCHANGED <<inFlight, rekeyed>>

(* complete(), and fail() with no retry - of a run, or of a claim past the *)
(* last attempt: the entry is deleted. *)
complete(c) ==
  /\ c \in runs
  /\ c.stage = "running" \/ ~MayRun(c)
  /\ IF current(c)
     THEN /\ entries' = [entries EXCEPT ![c.job] = Entry("gone", 0, 0)]
          /\ schedule
     ELSE UNCHANGED <<entries, timer>>
  /\ reports(c, TRUE)
  /\ UNCHANGED <<awake, beat, tries, longest, used>>

(* fail() with a retry: the entry waits out its backoff, and the loop is   *)
(* woken when there is none. *)
fail(c, d) ==
  /\ c \in runs /\ c.stage = "running" /\ c.attempt < MaxAttempts
  /\ IF current(c)
     THEN /\ entries' = [entries EXCEPT ![c.job] = Entry("waiting", c.attempt, d)]
          /\ changed
     ELSE UNCHANGED <<entries, timer, awake>>
  /\ reports(c, FALSE)
  /\ UNCHANGED <<beat, tries, longest, used>>

Refunded(c) == c.attempt - 1

(* release(): as fail, with the attempt taken back: the next claim has the *)
(* key of this one. *)
release(c, d) ==
  /\ c \in runs /\ c.stage = "running"
  /\ used.releases < MaxReleases /\ Use("releases")
  /\ IF current(c)
     THEN /\ entries' = [entries EXCEPT ![c.job] = Entry("waiting", Refunded(c), d)]
          /\ tries' = [tries EXCEPT ![c.job] = @ - 1]
          /\ changed
     ELSE UNCHANGED <<entries, timer, awake, tries>>
  /\ reports(c, FALSE)
  /\ UNCHANGED <<beat, longest>>

(* Variant: the end of a run wakes nobody. *)
SettlesQuietly(l) ==
  /\ l \in leaving
  /\ leaving' = leaving \ {l}
  /\ inFlight' = inFlight \ {Key(l.run)}
  /\ UNCHANGED <<entries, timer, awake, runs, beat, tries, longest, rekeyed, used>>

(* The finally of execute(): the key is deleted, whichever run has it by   *)
(* now, and the loop is woken. *)
Settles(l) ==
  /\ l \in leaving
  /\ leaving' = leaving \ {l}
  /\ inFlight' = inFlight \ {Key(l.run)}
  /\ awake' = TRUE
  /\ UNCHANGED <<entries, timer, runs, beat, tries, longest, rekeyed, used>>

(* No timer fires, and no time passes, while microtasks are left. *)
Drained == \A l \in leaving : l.waits

(* The heartbeat timer: it clears itself once nothing is in flight, and    *)
(* extends the entries whose claim is. *)
heartbeat ==
  /\ beat = 0 /\ Drained
  /\ IF inFlight = {}
     THEN beat' = NoTimer /\ UNCHANGED <<entries, timer>>
     ELSE /\ beat' = Every
          /\ entries' = [j \in Jobs |->
               IF entries[j].state = "leased" /\ <<j, entries[j].attempt>> \in inFlight
               THEN Entry("leased", entries[j].attempt, VisibilityTimeout)
               ELSE entries[j]]
          /\ schedule
  /\ UNCHANGED <<awake, runs, leaving, inFlight, tries, longest, rekeyed, used>>

(* The driver's timer. *)
FireTimer ==
  /\ timer = 0 /\ Drained
  /\ UNCHANGED entries
  /\ changed
  /\ UNCHANGED <<runs, leaving, inFlight, beat, tries, longest, rekeyed, used>>

-----------------------------------------------------------------------------

Less(t, n) == IF t = NoTimer THEN t ELSE IF t > n THEN t - n ELSE 0
Lower(u, n) == IF u - n > -Horizon THEN u - n ELSE -Horizon

Passes(n) ==
  /\ ~awake /\ timer # 0 /\ beat # 0 /\ Drained
  /\ entries' = [j \in Jobs |->
       IF Live(entries[j])
       THEN Entry(entries[j].state, entries[j].attempt, Lower(entries[j].until, n))
       ELSE entries[j]]
  /\ timer' = Less(timer, n) /\ beat' = Less(beat, n)
  /\ UNCHANGED <<awake, runs, leaving, inFlight, tries, rekeyed>>

(* Timers that are due fire, in whichever order, before time goes on, ...  *)
Tick == Passes(1) /\ UNCHANGED <<longest, used>>

(* ... unless the thread is blocked: they fire after, as does what else    *)
(* was waiting for the thread. *)
Block(n) ==
  /\ used.blocks < MaxBlocks /\ Use("blocks")
  /\ Passes(n)
  /\ longest' = IF n > longest THEN n ELSE longest

claimSome == \E S \in SUBSET Jobs : claim(S)

RunStep(c) == Begin(c) \/ complete(c) \/ \E d \in Delays : fail(c, d)

SettleSome == \E l \in leaving : Settles(l)

Next ==
  \/ \E j \in Jobs, d \in Delays : enqueue(j, d)
  \/ claimSome \/ sleep \/ heartbeat \/ FireTimer \/ SettleSome
  \/ \E c \in runs : RunStep(c) \/ \E d \in Delays : release(c, d)
  \/ Tick \/ \E n \in Blocks : Block(n)

Spec == Init /\ [][Next]_vars

(* The loop and the timers run, runs end and leave, and time passes. *)
FairSpec ==
  /\ Spec
  /\ WF_vars(claimSome) /\ WF_vars(sleep) /\ WF_vars(heartbeat) /\ WF_vars(FireTimer)
  /\ WF_vars(Tick) /\ WF_vars(\E c \in runs : RunStep(c)) /\ WF_vars(SettleSome)

-----------------------------------------------------------------------------
(* Properties.                                                             *)

(* The one timer is set no later than the next moment at which an entry    *)
(* becomes claimable: no future moment is slept through, whichever calls   *)
(* moved the timer about. *)
TimerCoversFuture ==
  \A j \in Jobs :
    Live(entries[j]) /\ entries[j].until > 0
      => timer # NoTimer /\ timer <= entries[j].until

(* A due job that could be run is on its way to a sleeping manager. *)
Missed(j) ==
  /\ Due(entries[j]) /\ ~awake /\ timer # 0
  /\ Cardinality(inFlight) < Concurrency

(* A heartbeat that fires before the due timer sets that anew, and the     *)
(* entry it was for is not announced.  Such a job is passed over only      *)
(* while something else runs or is about to leave, which wakes the loop. *)
MissesOnlyWhileBusy == \A j \in Jobs : Missed(j) => runs # {} \/ leaving # {}

(* A job is run twice at a time only after the thread was blocked for more *)
(* than the visibility timeout less one heartbeat interval - or after the  *)
(* run of a job that gave its attempt back was still in flight when the    *)
(* job was claimed again: it takes the new run's key along when it leaves, *)
(* and nobody keeps that run's lease. *)
NoOverlap ==
  longest <= VisibilityTimeout - Every =>
    \A c, d \in runs : c # d /\ c.job = d.job => c.job \in rekeyed

(* A due job is run as soon as a run ends, at the latest. *)
DueJobsAreClaimed == \A j \in Jobs : Due(entries[j]) ~> ~Due(entries[j])

-----------------------------------------------------------------------------
(* The contract, implemented. *)

Phase(j) == IF entries[j].state = "leased" THEN "held" ELSE entries[j].state

HolderOf(j) == IF \E c \in runs : c.job = j /\ current(c) THEN Here ELSE Nobody

Contract == INSTANCE JobContract WITH
  Procs <- {Here},
  Attempts <- LastAttempt,
  phase <- [j \in Jobs |-> Phase(j)],
  holder <- [j \in Jobs |-> HolderOf(j)],
  spent <- tries

(* The memory driver keeps the contract the database keeps. *)
KeepsContract == Contract!Spec

=============================================================================
