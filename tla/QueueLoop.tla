------------------------------ MODULE QueueLoop ------------------------------
(***************************************************************************)
(* The claim loop of one QueueManager, the runs it starts, and drain and   *)
(* start around it.  Everything here happens in one JavaScript thread: an  *)
(* action is a stretch of code between two awaits, or one statement of the *)
(* driver.  The driver is kept to what the loop can tell of it: whether a  *)
(* job is waiting, due, leased or lapsed, and its attempt.                 *)
(***************************************************************************)
EXTENDS Integers, FiniteSets

CONSTANTS
  Jobs,           \* jobs that may be dispatched
  RunIds,         \* bound: names for runs, so how many are alive at once
  Concurrency,    \* QueueConfig.concurrency
  MaxAttempts,    \* bound: attempts of a job
  Drivers,        \* the kinds of driver the process may have
  MaxRefusals,    \* bound: claims that reject
  MaxLapses,      \* bound: leases that run out under a run here
  MaxReleases,    \* bound: runs that give their attempt back
  MaxStops        \* bound: drains

ASSUME LoopAssumption ==
  /\ IsFiniteSet(Jobs)
  /\ Concurrency \in Nat \ {0} /\ MaxAttempts \in Nat \ {0}
  /\ Drivers \subseteq {"memory", "announcing", "polled"}
  /\ MaxRefusals \in Nat /\ MaxLapses \in Nat /\ MaxReleases \in Nat /\ MaxStops \in Nat

VARIABLES
  driver,     \* the driver: never changes
  entry,      \* the driver's record of each job
  state,      \* "idle", "running" or "stopped"
  looping,    \* whether loop() is on
  pc,         \* where the loop is
  room,       \* the free slots the claim asked for
  got,        \* what the claim returned, not yet run
  woken,      \* a wake since the claim was issued
  failing,    \* claimFailures > 0
  timer,      \* the sleep has a timer
  owed,       \* dispatches recorded whose wake is still to come
  runs,       \* the runs alive: their claim, and how far they are
  inFlight,   \* inFlight[id:attempt]: the run kept under the key
  shutting,   \* isShuttingDown()
  drain,      \* the drain asked for: "no", waiting for the claim in progress,
              \* about to look, waiting for runs, "done", or "cut" by its timeout
  waitFor,    \* the runs that drain waits for
  used        \* how much of each bound is used

vars == <<driver, entry, state, looping, pc, room, got, woken, failing, timer, owed,
          runs, inFlight, shutting, drain, waitFor, used>>

loopVars == <<looping, pc, room, got, woken, failing, timer>>
runVars == <<runs, inFlight>>
drainVars == <<drain, waitFor>>
modeVars == <<driver, shutting>>

(* Whether the driver has subscribe - the loop polls one that has not -    *)
(* and whether its jobs outlive the process. *)
Subscribes == driver # "polled"
Durable == driver # "memory"

Keys == Jobs \X (1 .. MaxAttempts)
Entries == [at : {"none", "waiting", "due", "leased", "lapsed", "ended"},
            attempt : 0 .. MaxAttempts]

TypeOK ==
  /\ driver \in Drivers
  /\ entry \in [Jobs -> Entries]
  /\ state \in {"idle", "running", "stopped"}
  /\ pc \in {"off", "top", "claiming", "returned", "asleep"}
  /\ looping = (pc # "off")
  /\ room \in 0 .. Concurrency /\ got \subseteq Keys
  /\ {woken, failing, timer, shutting} \subseteq BOOLEAN
  /\ owed \subseteq Jobs
  /\ runs \subseteq [id : RunIds, key : Keys, stage : {"running", "reported"}]
  /\ DOMAIN inFlight \subseteq Keys /\ inFlight \in [DOMAIN inFlight -> RunIds]
  /\ drain \in {"no", "claim", "look", "runs", "done", "cut"}
  /\ waitFor \subseteq RunIds
  /\ used \in [refusals : Nat, lapses : Nat, releases : Nat, stops : Nat]

Init ==
  /\ driver \in Drivers
  /\ entry = [j \in Jobs |-> [at |-> "none", attempt |-> 0]]
  /\ state = "idle" /\ looping = FALSE /\ pc = "off"
  /\ room = 0 /\ got = {} /\ woken = FALSE /\ failing = FALSE /\ timer = FALSE
  /\ owed = {} /\ runs = {} /\ inFlight = <<>>
  /\ shutting = FALSE /\ drain = "no" /\ waitFor = {}
  /\ used = [refusals |-> 0, lapses |-> 0, releases |-> 0, stops |-> 0]

(* Variant: the runs of a job are kept under its id alone. *)
WithoutJob(f, k) == [x \in {y \in DOMAIN f : y[1] # k[1]} |-> f[x]]

Without(f, k) == [x \in DOMAIN f \ {k} |-> f[x]]
Use(b) == used' = [used EXCEPT ![b] = @ + 1]

(* wake(): remembered for a claim in progress, and a sleep is ended. *)
Wakes ==
  /\ woken' = TRUE
  /\ IF pc = "asleep" THEN pc' = "top" /\ timer' = FALSE
                      ELSE UNCHANGED <<pc, timer>>
  /\ UNCHANGED <<looping, room, got, failing>>

(* What the driver announces reaches a manager that is subscribed. *)
Announces ==
  IF Subscribes /\ state = "running" THEN Wakes ELSE UNCHANGED loopVars

-----------------------------------------------------------------------------
(* Dispatching, and the manager's life.                                    *)

(* start(): a loop that a drain has not seen off yet takes the new state   *)
(* up itself. *)
Starts ==
  /\ state' = "running"
  /\ IF looping THEN Wakes
                ELSE /\ looping' = TRUE /\ pc' = "top"
                     /\ UNCHANGED <<room, got, woken, failing, timer>>

(* A dispatch, recorded due or delayed.  It starts an idle manager; a      *)
(* driver that subscribes announces it, for the others a wake is owed. *)
Dispatch(j, at) ==
  /\ entry[j].at = "none"
  /\ entry' = [entry EXCEPT ![j] = [at |-> at, attempt |-> 0]]
  /\ owed' = IF Subscribes THEN owed ELSE owed \union {j}
  /\ IF state = "idle" THEN Starts
     ELSE /\ UNCHANGED state
          /\ IF at = "due" THEN Announces ELSE UNCHANGED loopVars
  /\ UNCHANGED <<runVars, modeVars, drainVars, used>>

OwedWake(j) ==
  /\ j \in owed
  /\ owed' = owed \ {j}
  /\ IF state = "running" THEN Wakes ELSE UNCHANGED loopVars
  /\ UNCHANGED <<entry, state, runVars, modeVars, drainVars, used>>

(* Another process dispatches into the shared table: nothing tells this    *)
(* one unless its driver subscribes. *)
DispatchElsewhere(j) ==
  /\ Durable /\ entry[j].at = "none"
  /\ entry' = [entry EXCEPT ![j] = [at |-> "due", attempt |-> 0]]
  /\ Announces
  /\ UNCHANGED <<state, owed, runVars, modeVars, drainVars, used>>

(* A delay or a backoff is over. *)
FallDue(j) ==
  /\ entry[j].at = "waiting"
  /\ entry' = [entry EXCEPT ![j].at = "due"]
  /\ Announces
  /\ UNCHANGED <<state, owed, runVars, modeVars, drainVars, used>>

(* A lease runs out: at once once nothing here extends it, and under a run *)
(* that is kept in inFlight only when its heartbeats fail. *)
Lapse(j) ==
  /\ entry[j].at = "leased" /\ entry[j].attempt < MaxAttempts
  /\ <<j, entry[j].attempt>> \notin got
  /\ IF <<j, entry[j].attempt>> \in DOMAIN inFlight
     THEN used.lapses < MaxLapses /\ Use("lapses")
     ELSE UNCHANGED used
  /\ entry' = [entry EXCEPT ![j].at = "lapsed"]
  /\ Announces
  /\ UNCHANGED <<state, owed, runVars, modeVars, drainVars>>

Start ==
  /\ state # "running"
  /\ Starts
  /\ UNCHANGED <<entry, owed, runVars, modeVars, drainVars, used>>

Signal ==
  /\ ~shutting
  /\ shutting' = TRUE
  /\ UNCHANGED <<driver, entry, state, loopVars, owed, runVars, drainVars, used>>

-----------------------------------------------------------------------------
(* The loop.                                                               *)

(* Variant: what runs already is not subtracted. *)
RoomOfAll == IF Durable /\ shutting THEN 0 ELSE Concurrency

Room == IF Durable /\ shutting THEN 0
        ELSE Concurrency - Cardinality(DOMAIN inFlight)

(* sleep(): a timer for a driver that does not subscribe, and for any      *)
(* after a claim that rejected. *)
Sleeps ==
  /\ pc' = "asleep"
  /\ timer' = (failing \/ ~Subscribes)

LoopLeaves == pc' = "off" /\ looping' = FALSE

LoopTop ==
  /\ pc = "top"
  /\ \/ /\ state # "running"
        /\ LoopLeaves
        /\ UNCHANGED <<room, got, woken, failing, timer>>
     \/ /\ state = "running" /\ Room > 0
        /\ room' = Room /\ woken' = FALSE /\ pc' = "claiming"
        /\ UNCHANGED <<looping, got, failing, timer>>
     \/ /\ state = "running" /\ Room <= 0
        /\ Sleeps
        /\ UNCHANGED <<looping, room, got, woken, failing>>
  /\ UNCHANGED <<entry, state, owed, runVars, modeVars, drainVars, used>>

Claimable == {j \in Jobs : entry[j].at \in {"due", "lapsed"}}

Leased(S) ==
  [j \in Jobs |-> IF j \in S THEN [at |-> "leased", attempt |-> entry[j].attempt + 1]
                             ELSE entry[j]]

(* The driver leases up to room jobs. *)
DriverClaims(S) ==
  /\ pc = "claiming"
  /\ S \subseteq Claimable
  /\ IF Cardinality(Claimable) < room THEN S = Claimable ELSE Cardinality(S) = room
  /\ entry' = Leased(S)
  /\ got' = {<<j, entry[j].attempt + 1>> : j \in S}
  /\ pc' = "returned" /\ failing' = FALSE
  /\ UNCHANGED <<state, looping, room, woken, timer, owed, runVars, modeVars,
                 drainVars, used>>

(* The claim rejects: refused, or done but its answer lost. *)
ClaimRejects(S) ==
  /\ pc = "claiming"
  /\ Durable /\ used.refusals < MaxRefusals /\ Use("refusals")
  /\ S \subseteq Claimable /\ Cardinality(S) <= room
  /\ entry' = Leased(S)
  /\ got' = {} /\ failing' = TRUE
  /\ pc' = "returned"
  /\ UNCHANGED <<state, looping, room, woken, timer, owed, runVars, modeVars,
                 drainVars>>

(* Variant: only a full batch is followed by another claim. *)
ClaimsAgainIfFull(kept) == Cardinality(got) = room

(* A full batch may have left more behind; and a wake came meanwhile. *)
ClaimsAgain(kept) ==
  \/ Cardinality(got) = room
  \/ woken /\ Cardinality(kept) < Concurrency

(* Variant: drain() does not catch what the claim rejects with. *)
DrainGoesOnIfClaimed == IF drain = "claim" /\ ~failing THEN "look" ELSE drain

(* A drain waited for this claim. *)
DrainGoesOn == IF drain = "claim" THEN "look" ELSE drain

(* Back from the await: run what came, and claim again or sleep. *)
ClaimReturns ==
  /\ pc = "returned"
  /\ \E ids \in [got -> RunIds \ {r.id : r \in runs}] :
       /\ \A k, l \in got : k # l => ids[k] # ids[l]
       /\ runs' = runs \union {[id |-> ids[k], key |-> k, stage |-> "running"] : k \in got}
       /\ inFlight' = [k \in DOMAIN inFlight \union got |->
                         IF k \in got THEN ids[k] ELSE inFlight[k]]
  /\ got' = {}
  /\ IF ClaimsAgain(DOMAIN inFlight')
     THEN pc' = "top" /\ UNCHANGED timer
     ELSE Sleeps
  /\ drain' = DrainGoesOn
  /\ UNCHANGED <<entry, state, looping, room, woken, failing, owed, modeVars,
                 waitFor, used>>

PollTimer ==
  /\ pc = "asleep" /\ timer
  /\ Wakes
  /\ UNCHANGED <<entry, state, owed, runVars, modeVars, drainVars, used>>

-----------------------------------------------------------------------------
(* A run.                                                                  *)

Current(r) == entry[r.key[1]].at \in {"leased", "lapsed"}
              /\ entry[r.key[1]].attempt = r.key[2]

Reports(r) ==
  /\ r \in runs /\ r.stage = "running"
  /\ runs' = (runs \ {r}) \union {[r EXCEPT !.stage = "reported"]}
  /\ UNCHANGED <<state, owed, inFlight, modeVars, drainVars>>

(* complete, or fail: over, or waiting out its backoff. *)
Ends(r, at) ==
  /\ Reports(r)
  /\ at = "waiting" => r.key[2] < MaxAttempts
  /\ entry' = IF Current(r) THEN [entry EXCEPT ![r.key[1]].at = at] ELSE entry
  /\ UNCHANGED <<loopVars, used>>

(* this.release(): waiting again at once, its attempt taken back. *)
Releases(r) ==
  /\ Reports(r)
  /\ used.releases < MaxReleases /\ Use("releases")
  /\ IF Current(r)
     THEN /\ entry' = [entry EXCEPT ![r.key[1]] = [at |-> "due", attempt |-> r.key[2] - 1]]
          /\ Announces
     ELSE UNCHANGED <<entry, loopVars>>

(* The end of the promise chain of execute(). *)
Settles(r) ==
  /\ r \in runs /\ r.stage = "reported"
  /\ runs' = runs \ {r}
  /\ inFlight' = Without(inFlight, r.key)
  /\ waitFor' = waitFor \ {r.id}
  /\ Wakes
  /\ UNCHANGED <<entry, state, owed, modeVars, drain, used>>

-----------------------------------------------------------------------------
(* drain().                                                                *)

(* Variant: only the runs are waited for, not the claim in progress. *)
DrainBeginsWithRuns == "look"

(* The claim in progress first: what it returns is run. *)
DrainBegins == IF pc \in {"claiming", "returned"} THEN "claim" ELSE "look"

Drain ==
  /\ used.stops < MaxStops /\ Use("stops")
  /\ drain \in {"no", "done", "cut"}
  /\ state' = "stopped"
  /\ drain' = DrainBegins
  /\ waitFor' = {}
  /\ Wakes
  /\ UNCHANGED <<entry, owed, runVars, modeVars>>

(* The claim that was in progress has returned and its jobs run: wait for  *)
(* every run of inFlight. *)
DrainSeesRuns ==
  /\ drain = "look"
  /\ drain' = "runs"
  /\ waitFor' = {inFlight[k] : k \in DOMAIN inFlight}
  /\ UNCHANGED <<entry, state, loopVars, owed, runVars, modeVars, used>>

DrainEnds ==
  /\ drain = "runs" /\ waitFor = {}
  /\ drain' = "done"
  /\ UNCHANGED <<entry, state, loopVars, owed, runVars, modeVars, waitFor, used>>

(* Its timeout elapses first; what is running keeps running. *)
DrainTimesOut ==
  /\ drain \in {"claim", "look", "runs"}
  /\ drain' = "cut" /\ waitFor' = {}
  /\ UNCHANGED <<entry, state, loopVars, owed, runVars, modeVars, used>>

-----------------------------------------------------------------------------

Loop == LoopTop \/ ClaimReturns \/ PollTimer \/ \E S \in SUBSET Jobs : DriverClaims(S)

RunStep == \E r \in runs :
  Ends(r, "ended") \/ Ends(r, "waiting") \/ Settles(r)

Next ==
  \/ \E j \in Jobs : \/ Dispatch(j, "due") \/ Dispatch(j, "waiting")
                     \/ OwedWake(j) \/ DispatchElsewhere(j) \/ FallDue(j) \/ Lapse(j)
  \/ Start \/ Signal
  \/ Loop \/ \E S \in SUBSET Jobs : ClaimRejects(S)
  \/ RunStep \/ \E r \in runs : Releases(r)
  \/ Drain \/ DrainSeesRuns \/ DrainEnds \/ DrainTimesOut

Spec == Init /\ [][Next]_vars

(* The event loop runs what is ready, timers fire, and jobs end. *)
Fairness ==
  /\ WF_vars(LoopTop) /\ WF_vars(ClaimReturns) /\ WF_vars(PollTimer)
  /\ WF_vars(\E S \in SUBSET Jobs : DriverClaims(S))
  /\ \A j \in Jobs : WF_vars(FallDue(j)) /\ WF_vars(OwedWake(j))
  /\ WF_vars(RunStep)
  /\ WF_vars(DrainSeesRuns) /\ WF_vars(DrainEnds)

FairSpec == Spec /\ Fairness

-----------------------------------------------------------------------------
(* Properties.                                                             *)

(* Every run that is really running is kept under its key, so it takes a   *)
(* slot, is heartbeated and is waited for by a drain. *)
EveryRunTracked ==
  \A r \in runs : r.key \in DOMAIN inFlight /\ inFlight[r.key] = r.id

(* No more runs at once than the slots there are - with leases that lapse  *)
(* under a run and are claimed again by the same process, too. *)
SlotsRespected == Cardinality(runs) <= Concurrency

(* A drain that has resolved, and was not started over, leaves nothing     *)
(* running and nothing leased to this process that it will still run. *)
DrainedMeansIdle ==
  drain = "done" /\ state = "stopped" => runs = {} /\ got = {} /\ pc \notin {"claiming", "returned"}

(* A due job is claimed while the manager runs: no wake is lost, whatever  *)
(* the loop was doing when it came, and after claims that rejected. *)
DueJobsAreClaimed ==
  \A j \in Jobs :
    entry[j].at = "due" /\ state = "running"
      ~> entry[j].at # "due" \/ state # "running" \/ (Durable /\ shutting)

(* A drain resolves, whatever the loop was doing when it was asked for and *)
(* even if start() is called while it waits. *)
DrainResolves == drain \in {"claim", "look"} ~> drain \in {"done", "cut"}

=============================================================================
