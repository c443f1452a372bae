# Verification of gemi's job queue, locks, workflows and runs

gemi is a TypeScript web framework. This project models and verifies the parts of
it that others rely on for their own correctness under failure: the job queue, the
locks, the durable workflows that are built on the queue, the runs that track what a
job does, and the change feed over which their changes are told. TLC checks small
instances of the models; TLAPS proves the results that matter most for every
instance.

In what follows, file names without a directory are in
`packages/gemi/services`, in `queue`, `queue/workflow`, `lock`, `runs` or `change-feed`.

## 1. Inventory

### The queue

| Part | State it keeps | Operations | Talks to |
|---|---|---|---|
| `DatabaseQueueDriver` | one row per job: status, attempts, `available_at`, `lease_expires_at`, batch; one row per batch | `enqueue`, `claim` (one `UPDATE`, or two locking selects on MySQL), `complete`, `fail`, `release`, `heartbeat`, `retryDead`, `prune`, `enqueueBatch`, `cancelBatch`, `findBatch`, `pruneBatches` | the database, shared by every process |
| `MemoryQueueDriver` | a `Map` of entries, one timer, one map of batches | the same, synchronously; `subscribe` | its one manager, through `wake` |
| `QueueManager` | `state`, `looping`, `woken`, `claiming`, `claimFailures`, `resume`, the `inFlight` map, the heartbeat timer | `record` (under `push`), `start`, `drain`, `retryDead`, the claim loop, `execute`, `run`, `heartbeat` | a driver, the jobs' code |
| `batch.ts` | none (pure) | `countOutcome`, `cancelsBatch`, `markCancelled`, `settle` | called by both drivers inside their transaction or in one synchronous step |
| `QueueDriver.ts` | none | the interface, with the contract in its comments | |
| `WorkerProcess.ts`, `work.ts`, `QueueServiceProvider.ts` | the worker's process and its restarts | spawn, restart, drain on a signal | the manager |

How a job moves: `push` records it through the driver (`enqueue`) and wakes the
loop. The loop asks the driver for as many claims as it has free slots, and starts
each (`execute`). A claim raises the row's `attempts` and gives it a lease; a timer
extends the leases of everything in `inFlight` at a third of the visibility
timeout. When `run()` ends, the manager reports: `complete` deletes the row, `fail`
puts it back to wait or marks it dead, `release` puts it back and takes the attempt
back. Every report carries `id` and `attempt`, and the driver ignores one whose
attempt is not the row's. A row whose lease ran out is claimed again by anyone.

What is hard there: processes that are slow rather than dead, and report after
they lost the lease; reports and claims whose answer is lost; processes that die at
any point, with nothing replayed on boot; heartbeats that fail or come late;
releases of an application that know different classes; an event loop in which a
wake, a claim's answer, a run's end and two timers come in any order; a drain during
any of it; transactions of several statements on a batch's row, between which other
processes claim its jobs. `PROJECT.json` lists these at their lines, under
`hazards`, with the properties that cover each.

What makes it correct:

- an attempt number names one claim; only the newest claim decides what becomes of
  the row; a claimed row is never taken from the run that holds it but by a lapse;
- a job is run at most `maxAttempts` times, refunded runs aside, and ends;
- two runs of a job overlap only when heartbeats failed, or the thread was blocked,
  for long enough;
- no more run at once than there are slots; every run is in `inFlight`; a drain that
  has resolved leaves nothing behind, and it resolves;
- a due job is claimed as long as the loop is on: no wake is lost, no moment slept
  through;
- every job of a batch is counted once, every callback is enqueued once and when
  due, a cancelled batch has nothing waiting, and a batch finishes.

### Built on the queue

| Part | State | What makes it correct |
|---|---|---|
| Locks (`services/lock`) | row per name: owner, token, lease; `HeldLock`'s local deadline and timers | one holder at a time; tokens grow; a holder knows of its loss before the store can give the lock away; fenced writes commit only under a current hold |
| Unique jobs, per-key limits (`recordUnique`, `releaseUnique`, `admit`) | a lock owned by the job's id, the locks of a key's slots, a count per throttle window | at most one live job per key while it lasts; a key is not held for nothing; no more at once, or per window, than the limits; a job over them is only put off |
| Workflows (`queue/workflow`) | a workflow's row: status, wake-up, hold (`tick`, attempt, lease, `retick`); a row per step; tick jobs in the queue | one pass at a time; a step's effect a bounded number of times; a workflow that has not ended has a tick coming or waits for somebody; cancelled, nothing of `run()` goes on |
| Runs (`runs`) | a record per run with a status and a version, compared and set | a final status never changes; whoever waits for the end learns of it, whatever notification is lost |
| Change feed (`change-feed`) | a log per channel with a head; subscriptions with a position | what a subscriber delivers is read from the log, in order; what the log no longer has is told as a reset |
| Scheduler (`services/cron`) | minute counters in the lock store | each minute once across instances; no overlap |

How a workflow moves: `create` writes its row and a first tick job. Whatever process
claims the tick *acquires* the workflow - unless another tick holds it, which is then
told to tick again (`retick`) - and runs `run()` from the top. A step whose row has a
result is skipped; the first that has none is run, recorded, and the next one follows; a
sleep, a wait, a batch that is not done or a retry with a delay suspends the pass, which
lets go of the workflow and schedules a tick for its wake-up, if none is scheduled by
then. Signals, cancellations and the ends of batches each enqueue a tick of their own.

How a run moves: `transition` updates the record where its status is one of those it
may come from, reads it back, and publishes what it read. `wait`, `subscribe` and the
`watch` beside `execute`'s function follow the feed of the run; the feed's notifications
only say that the log moved.

### The rest of the repository

`PROJECT.json` lists every part. Agents (`ai`), the ORM, the HTTP server and router,
authentication, the client, build and editor tooling, the Kotlin and Swift clients,
templates and docs are not modelled: they are sequential request handling, I/O,
generated or presentational code, or depend on an external model's behaviour.
Broadcasting and the realtime client have protocols of their own and are candidates
for later.

## 2. Plan

1. `JobQueue`, and `JobContract` which it implements: the shared table and the
   processes on it. *Done, with proofs.*
2. `QueueLoop`: the claim loop of one process, statement by statement between
   awaits. *Done, with proofs.*
3. `MemoryQueue`, against the same `JobContract`: one timer, one thread. *Done,
   with proofs.*
4. `JobBatch`: the rules of `batch.ts` under the driver's transactions. *Done, with
   proofs.*
5. `Locks`: lease, token, local deadline, fence, on both stores. *Done, with proofs.*
6. `Workflow`, and `WorkflowContract` which it implements: ticks, holds, passes and
   steps, over the queue's delivery at least once. *Done, with proofs.*
7. `ChangeFeed` and, on it, `Runs`. *Done, with proofs.*
8. `KeyedJobs`: the unique key, the concurrency slots and the throttles of a job, between
   its dispatch and its report. *Done, with proofs.*
9. Left: the scheduler's `onOneServer` and `withoutOverlapping` over Locks; broadcast, which
   delivers over the same feed; the worker processes.
10. Further proofs: the refinements of the three contracts, `AttemptsBounded`, `NoOverlap` of
   both drivers, the counters of a batch, `NeverStranded` and `WokenInTime`. *Done.*

## 3. Modules

| Module | Models | Lines to read beside it |
|---|---|---|
| `JobContract` | what a queue promises of a job, with no table, lease or clock | `QueueDriver.ts:1-160` |
| `JobQueue` | the jobs table, and each process's claims from hand-over to report | `DatabaseQueueDriver.ts:310-523,826-1010`, `QueueManager.ts:1071-1338` |
| `QueueLoop` | one manager: dispatch, start, drain, the loop, sleep and wake, runs | `QueueManager.ts:745-1118` |
| `MemoryQueue` | the memory driver with the manager it wakes | `MemoryQueueDriver.ts`, `QueueManager.ts:1071-1118` |
| `JobBatch` | one batch: the rules and the transactions | `batch.ts`, `DatabaseQueueDriver.ts:541-808` |
| `Locks` | one named lock: the store's row, the holders' deadlines, the calls between them | `LockManager.ts`, `MemoryLockStore.ts:16-100`, `DatabaseLockStore.ts:75-201` |
| `WorkflowContract` | what a workflow promises of its steps and of its end | `WorkflowStore.ts`, `Workflow.ts` |
| `Workflow` | one workflow: its store, its tick jobs, its passes | `DatabaseWorkflowStore.ts`, `WorkflowRuntime.ts`, `Step.ts` |
| `ChangeFeed` | one channel: log, subscriptions, notifications, poll | `ChangeFeedManager.ts`, `DatabaseChangeFeedDriver.ts` |
| `Runs` | one run: those who change it, wait for it, follow it, execute it (EXTENDS `ChangeFeed`) | `RunManager.ts`, `DatabaseRunStore.ts` |
| `KeyedJobs` | the jobs of one key: `recordUnique`, `admit`, `run`'s report, `releaseUnique` | `QueueManager.ts:642-743,1128-1413`, `MemoryLockStore.ts:20-88` |
| `MC...` | instances for TLC | |
| `...Proofs` | theorems | |

Operators keep the code's names where there is one (`claimable`, `runnable`,
`schedule`, `countOutcome`, ...); actions without one are named for the moment they
stand for (`Begin`, `Settles`, `LoopTop`). `PROJECT.json` maps each definition to its
lines.

**JobQueue.** `row[j]` is the row of job `j`; `due` and `lease` are
`available_at` and `lease_expires_at` less the database's `now`, so that time is one
action (`Tick`) that lowers both and no absolute clock is needed. `hand[p]` is what
process `p` runs, `beat[p]` its heartbeat timer. A run's report and its end are two
steps: `Ends` moves it from `hand[p]` to `leaving[p]` when its report reaches the table (or
is lost), and `Leave` is the `finally` of `execute`, which comes after the answer and
deletes the key `id:attempt` from `inFlight[p]`, whichever run has it by then. In between
the process claims, heartbeats and crashes. Free slots and heartbeats go by `inFlight[p]`, as
in the code; `rekeyed` remembers the jobs claimed under a key that was there. A statement is one step, since each
is one atomic `UPDATE` (MySQL's claim is a transaction whose two selects lock what
they return: rows another claim has locked are skipped, so it too is one step on the
rows it takes). `Report` is the guard `status = 'claimed' AND attempts = attempt`
that complete, fail, release and heartbeat share. `Earlier` is the order in which rows
are handed out: MySQL's (`TwoPass`) prefers waiting rows to lapsed leases.
`ReleaseUnknown` and `DropUnrun` are what `run` does before it runs anything. The name a
process does not know can be released or dropped at will: which of the two it does
compares its own clock with the row's `created_at`, and clocks are not related in
the model. `life`, `tries`, `mixed` and a claim's `rank` are history: they are read by
properties only.

Left out of it: hooks, worker processes, the per-key limits that turn a run into a
release before `run` is entered, and jobs whose constructor or arguments fail (they
are dead-lettered by the same report as an unknown name).

**QueueLoop.** Everything in it happens in one JavaScript thread. An action is the
code between two awaits: `LoopTop` up to the call of `claim`, `DriverClaims` the driver's
work, `ClaimReturns` the loop's continuation with the `execute` calls and the decision
to claim again or sleep. `woken`, `looping`, `failing` and `timer` are the fields that
decide it. `inFlight` is a function from the key `id:attempt` to the run kept under it,
separate from `runs`, the runs really alive, so that a key taken twice shows.
`driver` chooses among the memory driver, a driver that outlives the process and
announces, and one that is polled. A drain goes through `claim` (waits for the claim
in progress), `look` (about to read `inFlight`), `runs` (waits for those), and `done`
or `cut` by its timeout.

**MemoryQueue.** The driver's timer and the heartbeat's are both due at a moment; when
several are, they may fire in any order, and `Tick` lets time pass only when none is.
`Block(n)` is the thread held for `n` ticks: time passes and what was due is late.
The report of a run (`complete`, `fail`, `release`) moves it from `runs` to `leaving`, and
wakes the loop where the driver does; `Settles` is the `finally` of `execute`, some microtasks
later, which deletes its key from `inFlight` and wakes the loop again. The loop's claim
may come before it. What is `leaving` after a retry or a release has only microtasks to
go, so no timer fires and no time passes before it has left (`Drained`); a run that frees a
unique key first waits for the lock store. A claim and the start of its runs are one step, as
in the code nothing can come between them that looks at either. `rekeyed` is as in `JobQueue`. Entries due at one moment are ordered by a
sequence number in the code; the model leaves their order open.

**JobBatch.** `tx` is how far the transaction is that has the batch's row locked;
there is one at a time, which is what the row lock is for. `writes` are the rows it has
changed and not committed: other processes cannot claim or release those, and can the
others. `saveBatch` commits rows, counters and callbacks together; `rollback` drops
them. `claim`, `check` and `release` ask nothing of that lock, as in the code. On SQLite
and in the memory driver nothing comes between the statements: their behaviours are
those of the model in which a transaction, once begun, goes through to its commit.
Progress, and the list of failed ids, are left out.

**Locks.** Each element of `Owners` is one acquisition, as each takes an owner id of its
own. A call of the store is a request (in `asks`), the statement (`storeAcquire`,
`storeExtend`, `storeRelease`) and the continuation with its answer (`acquired`,
`extended`), and takes any time in between; two renewals may be answered in
the other order. `row.lease` and `left` are the store's expiry and the holder's deadline,
less now, so that only differences count; the two clocks are taken to go at one pace, as the
code takes them to. `left` counts from the request. What holds the row during a fence
differs: a database transaction makes every statement that would change the row wait
(`Waits`), the memory store counts `fences` and lets only `acquire` see them; one
section of a holder at a time is a bound. `reject` is a call that fails, before or after its
statement. Left out: a Postgres statement that waited for a fence and goes on with the
clock it read before, MySQL's second look at its own row, `isHeld` (the outcome of
a fence that finds its hold gone), and the counters and windows kept in the same table.

**Workflow.** `wf`, `step` and `tick` are the rows; an `update` of the store is a
transaction on them, so it is one step, with what it schedules. `pass[p]` is the tick
that runs in place `p` (a process has several): `take` before `acquire`, `steps` at a
step that is to be looked at, `exec` in a step's function, `look` and `record` around a
batch's state, `finish` and `letgo` before the updates that let go, `report` and
`retry` before the job's outcome is recorded, `bury`, `dead` and `late` around a dead
letter and the hook that fails the workflow, which nothing awaits. `cached` is what the
pass read of the steps when it took the workflow; the row may have been signalled since.
Moments are relative to the database's clock, and `Skew[p]` is how far the clock of
`p` is from it: the wake-ups of steps are computed from `Date.now()`, the due times of
ticks by the database. Who owns a tick job is simpler here than in `JobQueue`: its lease
lapses when nobody runs it, or in a stall. A program is the list of its steps with
their kinds, in `run()` and in `onCancel()`; what the steps' functions return or throw
is left open. `calls`, `outdated` and `mishaps` are history. Left out: steps run side by
side (`Promise.all`), progress, JSON and its limits, names that only another release
has (`unknown`), and prune.

**ChangeFeed and Runs.** `log` is the whole history of the channel, of which only the last
`Retain` entries can still be read. A subscription's read is two queries, the head and
then the entries, and entries may be pruned in between; `dirty` is set by
notifications, which carry any sequence number there was, at any time, or none. The poll
finds the head itself. In `Runs`, `change[a]` is how far actor `a` is with a
transition: update, read back, publish. Between these others change the run, so that two
actors may read and publish the same record or publish in the other order. `loop` is
where a waiter, follower or watch is, `work` where `execute` is. `MaxVersion` bounds
how often an actor changes the run without ending it. Left out: `wait`'s timeout and
signal, `list`, `prune`, publishes that a transaction holds, store calls that reject;
of the feed, cursors, several channels, connecting to the notifications, and streams
to a client.

**KeyedJobs.** `push[j]` is where `recordUnique` is with the dispatch of `j`: `ask` before
`acquire`, `look` before `holder`, `record` before the driver's `enqueue`, `undo` before the
release that a failed record is followed by. `run[p]` is one attempt: `check` before `admit`,
`slot`, `hit` and `refund` at a call of `admit`, `run` in the job's code, `unslot` in
`done()`, `report` at the driver's call, `unkey` in `releaseUnique`. Each call is a step and can
reject, with or without its effect (`pushRejects`, `rejects`); the refunds of `Promise.all` are
made in any order, and when one rejects any of the others may be made or not. What a slot
left behind becomes depends on who still renews it: `lapsing` when nobody does, `leaked` when the
`HeldLock` of a living process still does. The row is `JobQueue`'s without times: a claimed
row nobody runs can be claimed again, and one somebody runs too, as a mishap. `key` is the
lock of one unique key, of which only the owner matters: the store's leases and tokens are the
business of `Locks`. No clock is kept: a slot nobody renews, a window and `uniqueFor` run out
at any moment. `trouble`, a window's `hits` and `late`, and a run's `past` are history. `drop`
stands for a name that is not registered (past its grace) and for a job that cannot be built. A
dispatch held until its transaction commits is a dispatch at a later moment. Left out: several
keys at once, batches, `findBatch` before `admit`, hooks.

## 4. Runs

All runs are exhaustive. Two jobs and two processes (or, in the loop, three runs
alive at once) are what the hazards need: a claim and the one that replaced it, a job
that waits beside one that runs, a process that knows a class and one that does not.

| Run | Instance | Shows |
|---|---|---|
| `claims` | 1 job, 2 processes with room for both runs, 2 attempts, timeout 3, one crash or lost report, two missed heartbeats, one release, one retryDead | claims of one job, whatever happens to its leases: `AttemptNamesOneRun`, `OnlyNewestClaimCounts`, `AttemptsBounded`, `NoOverlap`, `OnlyHolderEnds` |
| `rolling` | 2 jobs, 2 processes, of which neither has the class of the second job and one that of the first, MySQL's order, one fault, one release | every job ends (`EveryJobEnds`), and the table implements `JobContract` (`KeepsContract`) |
| `slots` | 2 jobs, 2 slots, 2 attempts, polled driver, a rejected claim, a lapse under a run, a drain | `EveryRunTracked`, `SlotsRespected`, `DrainedMeansIdle` |
| `wakes` | 2 jobs, 1 slot, all three kinds of driver, a rejected claim, a release, a drain with restart | `DueJobsAreClaimed`, `DrainResolves` |
| `leases` | 2 jobs, 2 slots, 2 attempts, timeout 6 so heartbeat 2, blocks of 4, 5 and 7 ticks, two of them, one release | `TimerCoversFuture`, `MissesOnlyWhileBusy`, `NoOverlap`, `KeepsContract`, `DueJobsAreClaimed` |
| `ends` | 2 jobs, 2 attempts, a lapse, a lost transaction or run, a release, a cancellation, with and without `allowFailures` | `EachEndCountedOnce`, `CallbacksExact`, `CancelledLeavesNoneWaiting`, `NoOrphans`, `BatchFinishes` |
| `locks` | 2 acquisitions, lease 2, both stores, two renewals on their way, one rejected call | `BeliefIsReal`, `TokensNameHolds`, `FencedInOrder`, `LossIsNoticed` |
| `steps` | three programs of two steps (timed wait and sleep; batch and run; sleep with a clean-up), 2 places, 5 names of ticks, 2 attempts, one crash or stall | `NeverStranded`, `WokenInTime`, `EffectsBounded`, `OnePass`, `CancelLeavesNoBatch`, `KeepsContract` |
| `advances` | three programs that wait for somebody, 1 place, two crashes or failed store calls | `Settles` |
| `early` | a sleep of 3 ticks, 2 places, the clock of one a tick ahead, no mishap | **violation** of `NeverStranded`, see below |
| `runs` | a waiter, or a follower, or a worker, beside one or two others that change the run; a log of 2 entries read one at a time; one failed publish, crash or closed feed | `OneEnd`, `WaitersLearn`, `FollowersLearn` |
| `keyed` | two dispatches under one unique key, or two jobs under one slot and two throttles of one hit each; 2 processes, 2 attempts, one mishap | `OnePerKey`, `KeyHeldForAJob`, `LimitsHold`, `EveryJobEnds` |

Why the bounds are enough. One fault is one process dying or one report lost; each
leaves the same thing, a claimed row with no run, and a second one only repeats it on a
later attempt. Two attempts tell a retry from the last one. A timeout of 3 ticks has
a heartbeat every tick, so that one missed heartbeat keeps the lease and two lose
it, as with a timeout three times the interval in the code; with two missed, runs do
overlap in the instance, which is what the other properties of `claims` are about. In `leases`
a block of 4 does not exceed two thirds of the timeout, 5 and 7 do, and 7 exceeds all of it.
`Horizon` only has to be as long as the grace, which in `claims` no process needs: past it,
how long a row has been claimable changes nothing.
In `steps` each program is one that ticks of several kinds advance at once: a wake-up, a signal,
a batch's end, a cancellation and a retry of a tick that failed, so that one finds the
workflow held by another, and two places are enough for that. Names of tick jobs are
used again once nothing refers to them; callers come while three are left for what the passes
schedule (`NamesLeft`). A pass that finds no name left schedules nothing: the other names are
then all ticks that are pending, or running, or of a pass that has yet to end, so the bound
leaves nothing stranded either, and the proof of `NeverStranded` is of as many names as
there are numbers. `advances` counts no more mishaps
than `TickAttempts`: with more, the tick's own attempts run out and the workflow fails with its
dead letter. In `runs` a log of two entries read one at a time is the
least that both forgets entries and needs several reads; three kinds of listeners are
looked at one after another (`Casts`), as they share nothing but the run; of the ways to end
it `completed` and `cancelled` are taken (`Outcomes`), beside `timed_out`, since no code there
tells `failed` from `completed`.
In `locks` the two acquisitions are a holder and the one that replaced it, and two renewals
on their way are what it takes for their answers to change places; a rejected call and one
that is never answered leave the same thing behind.
In `keyed` two throttles are what a hit that is taken back needs, one slot what makes a job
wait for it, two processes what makes the calls of two admissions alternate. Two rounds stand
for the code's five: with two jobs a third acquisition of the key by another cannot come between.
One mishap is a call that rejects, a kill, a claim of a live run, a lost slot, a `retryDead` or
a `release()`; expiries are not counted. The proofs have no such bounds.
The type invariants `TypeOK` are theorems where a module has proofs, and no run repeats them
there. Symmetry is used in `claims` (processes, which all know the job's class), `slots` (jobs, run
names) and `steps` (places); none of them checks liveness. Deadlock is checked wherever the system has no reason to stop; in `wakes` (a
memory queue with nothing left to do), `ends` (a batch that is finished and pruned), `keyed`
(jobs that have all ended),
and the runs of `Workflow` and `Runs` (nothing is left to do once the workflow, or the
run and those who follow it, have ended) it rightly stops.

### Fairness

`JobQueue`: time passes, each process keeps claiming while it can (its poll timer
fires for as long as it runs; a killed process is started again), its heartbeat timer
fires, what it runs ends, and what has reported leaves `inFlight`. Nothing is owed by crashes,
losses, releases, operators.
`QueueLoop`: the event loop runs ready continuations and due timers, an awaited driver call
settles, and jobs end. `MemoryQueue`: the same, and time passes; a blocked thread is
never owed. `JobBatch`: strong for the end of each job, since its report waits for a row
lock that others take and give back, and the database's lock queue is fair; weak for
claims and for the statements of an open transaction. `Locks`: time passes and the expiry
timer fires; no call need ever be answered.
`Workflow`: time passes, each tick job that can be claimed is (what the queue's own
properties give), passes go on, a batch ends, and a lease nobody extends runs out; no
signal or cancellation is owed, and nothing of crashes, stalls and failing calls. `Runs`:
queries are answered, timers fire, the deadline passes, and the feed is polled; that a
notification comes, that a publish succeeds or that the worker's function returns is not
owed. `KeyedJobs`: a waiting job is claimed while a process has a place for it, attempts go on
through every call and through the job's code, and the leases and windows nobody renews run
out; no dispatch is owed, and no fault, lapse, release or `retryDead`.

### What was found

One disagreement between the code and what is written about it is a run of its own:

- `early`: a suspended pass schedules no tick when the workflow's `wakeAt` is still to
  come and no later than its own wake-up. Both are of some process's `Date.now()`, while
  the tick itself comes when the database says. A tick that comes early for the
  process that claims it takes itself for one still to come, schedules none, and the
  workflow sleeps for ever. With clocks in step, `NeverStranded` and `WokenInTime` hold
  (`steps`).

The models show more, each of which a property excepts by a history variable that is named here,
or a run by a bound:

- A release gives the attempt back, so the next claim of the job has the key `id:attempt` of
  the run that released it. With the memory driver the wake comes with the release: the loop,
  with a slot free, claims the job again and files it in `inFlight` before the first run's
  `finally`, which then deletes the entry of the second. That run is not counted, drained or
  heartbeated; with nothing else in flight the heartbeat timer even stops. Its lease lapses and
  the job is run beside itself, though the thread was never blocked. A database has the same
  when the process's loop claims the row between the release's commit and its answer. This
  happens in `JobQueue` and in `MemoryQueue`, with the releases of `claims`, `rolling` and `leases`,
  and `NoOverlap` excepts the jobs it happened to (`rekeyed`). The properties of `slots`
  (`EveryRunTracked`, `SlotsRespected`, `DrainedMeansIdle`) do not hold of such runs, and
  that run has no releases.
- `retryDead` starts a job's attempts again at 0 while an earlier run of it may still be
  going. Attempt numbers then come back, and that run's report - which the contract says
  must be ignored - ends the new claim. `OnlyNewestClaimCounts` and the others hold of
  jobs whose lives were not mixed in this way (`mixed`).
- The memory driver's `schedule()`, called from a heartbeat, clears a timer that is due and was
  not yet fired, and nothing announces the entry it was for. It waits until something that runs
  has ended (`MissesOnlyWhileBusy`; `DueJobsAreClaimed` still holds).
- The memory driver's comment says leases lapse only when the thread is blocked for longer than
  the visibility timeout. Since the last heartbeat may be a third of it old, two thirds are
  enough; `NoOverlap` states the bound that holds of jobs that were not rekeyed.
- `HeldLock.extend(ttl)` with less than the lease has left shortens the lease in the store and
  leaves the local deadline where it was, so that the lock can be another's while its
  holder's `expired` is false. Renewals by the timer always ask for the whole lease; `locks`
  has those.
- `acquire` of a workflow lets any attempt of the tick that holds it in, also an earlier one
  (`sameTick`): an attempt that stalled before it took the workflow can take it from the newer
  one. Both then find themselves without the hold, or with their job gone, and nothing is
  scheduled. `outdated` remembers it, and `NeverStranded`, `WokenInTime` and `Settles` except it.
- A store call that fails inside a step is thrown through `run()` and recorded as the
  workflow's failure, though another attempt of the tick would have gone on (`storeRejects`).
- `signal` is refused by a workflow that is being cancelled, so a `waitFor` in `onCancel()` can
  only time out, and one without a timeout waits for ever (`Parked`).
- The hook of a tick that is dead-lettered is not awaited: a crash right after the dead
  letter leaves the workflow as it was, with nothing to advance it (`Buried`).
- `watch()` beside `execute`'s function asks for the next event also of a feed that has closed,
  where `wait` does not: `next()` then resolves at once, again and again, until the function
  has settled. In `Runs` each turn of that loop is a few steps, and takes no time.
- `Runs.subscribe` does not read the run again on a timer, as `Runs.wait` does and
  `docs/runs.md:117` says of both. When the publish of the end fails, which is logged and no more,
  a follower waits for ever. Once the end is published, `FollowersLearn` holds whatever
  notification is lost.
- The key of a unique job is freed by its id, whatever the driver made of the report before it.
  An attempt that lost its lease and ends late therefore frees the key of the newer attempt that
  still runs, and a second job is queued beside it (`doubled` in `OnePerKey`). The same
  happens to a job brought back by `retryDead`, which takes no key (`revived`), and to one
  whose `enqueue` was committed but answered with an error: the key is released though
  the job is queued (`unanswered`).
- A job that is dead-lettered because its class, its constructor or its arguments fail keeps
  its key until `uniqueFor` is over, as the id cannot be computed then (`unbuilt` in
  `KeyHeldForAJob`); `docs/jobs-and-queues.md:390` says that a dead-lettered job's key is freed.
- When a call of `hit` or `refund` rejects in `admit`, the slot that was taken before it is
  neither released nor given up: its `HeldLock` renews it for as long as the process lives, and
  the key has one slot less (`leaked`; `EveryJobEnds` excepts that every slot is).
- A refund does not say in which window its hit was counted. One that comes after the window
  has ended takes a hit from the next, which then admits one more than its limit (`late` in
  `LimitsHold`).

## 5. Proofs

All theorems are proved from the named assumptions on the constants
(`ConfigAssumption`, `LoopAssumption`, `MemoryAssumption`, `BatchAssumption`, `LockAssumption`,
`WorkflowAssumption`, `FeedAssumption`, `RunsAssumption`, `KeyedAssumption`), which say that counts are
natural numbers, that different roles are different actors, and little else, for any
number of jobs, processes and steps and with none of the bounds fixed.

- `JobQueueProofs!ClaimsSafe`. `OnlyNewestClaimCounts` is not inductive: a claim may
  be overtaken by one with its own attempt number unless numbers never come back
  within a life of the job. The invariant `IInv` adds `AttemptNamesOneRun` (an attempt
  names one run) and `NoRunAhead` (no run in hand has an attempt above its row's, as
  long as the row can be claimed, so the next number is new). A release takes an
  attempt back, and with it takes away the one run that carried it: this is where
  `AttemptNamesOneRun` is needed. `HolderEnds` proves the action property
  `OnlyHolderEnds` from the same invariant.
- `JobQueueProofs!AttemptsKept`: `tries[j]` is the number of elements of a set (`Begun`): the
  attempt numbers that were begun and not given back in this life of the job. A claim comes
  with a number that is not in it, a run that begins adds its own, a release takes
  its own out, and none is past the last attempt; so the set is finite and as large as the bound.
- `JobQueueProofs!RunsDoNotOverlap`: the lease of a row that somebody runs covers the wait for
  the next heartbeat and, while none was missed, two intervals more or, after one, one
  (`Covered`); so it does not lapse with fewer than two missed, and
  a row that has not lapsed is claimed by nobody else. A heartbeat extends what `inFlight` names, so a
  run must be known to have its key there as long as it is in hand. `Tracked` says so of each
  process: a run that is not rekeyed has its key in `inFlight`, no other run in hand has it, and
  none that is leaving. The last is what a release can undo, since the next claim
  has the same number: so jobs claimed under a key that is still there are excepted, by the
  theorem as by the property. The timeout is to be 3 ticks or
  more: with less the interval, which is at least a tick, is more than a third of it.
- `JobQueueProofs!ContractKept` and `MemoryQueueProofs!ContractKept`: job by job, each step of the
  model is a step of the contract or leaves it alone (`Moves`). The holder in the contract is
  *the* process with a run of the row's attempt, so there must be at most one such run (`OneHolder`,
  from the invariants above), and a report of any other run must be seen to change
  nothing. For the table it is proved, as `rolling` checks it, with `MaxRetries = 0`: `retryDead`
  brings attempt numbers back, and with them the report of a run of the earlier life (see above).
- `MemoryQueueProofs!OnlyBusyMisses` and `RunsDoNotOverlap`: who goes to sleep has a timer for the next
  entry or something that runs or is leaving (`IdleIsTold`, with `Owned`: each key of `inFlight` is
  that of such a run, so a loop that finds no slot is woken by its end); and a lease covers
  the rest of the longest time for which the thread was blocked, if its run has its key to itself
  (`Tracked`, as above). The timeout is to be 2 ticks or more: with
  less a lease is no longer than the interval of the heartbeats.
- `MemoryQueueProofs!TimerNeverLate`: `schedule()` re-establishes `TimerCoversFuture`
  whatever the entries have become, and between its calls timer and entries fall at the
  same pace. Types are needed with it, so the two are one induction.
- `JobBatchProofs!CallbacksOnce`: between the lock and the commit the record a
  transaction has in hand `Follows` the row's: it does not finish a batch, undo a
  cancellation or a failure, or touch a finished batch. With that each commit enqueues
  what the new row calls for and the old one did not. The invariant also remembers that
  a batch that is gone was finished, so it is not dispatched again.
- `JobBatchProofs!EndsCounted`: the counters agree with the rows only between transactions. So
  `Balanced` says of a transaction that is open what its record will come to: that the
  counters it has computed are those of the rows once its own writes are in. Other processes may
  change rows it has not written, but not end them. `CancellationReaches` and
  `BatchOutlives` follow from the same invariant `BInv`.
- `LocksProofs!BeliefsReal`: that a holder's deadline falls before the store's expiry has to
  be known of the answers still on their way, too (`GoodNews`), since it is they that set the
  deadline; and that a release takes the row only from a hold that was given up, which is
  what `AsksOwned` says of the calls. It is proved for renewals that ask for the whole
  lease; without that it fails, as said above.
- `LocksProofs!TokensUnique` and `FencesInOrder`: tokens on their way to a holder are
  counted with those held, and while a section is open the row's token is its own.
- `WorkflowProofs!CallsBounded`: a step's function is called once per attempt that was
  recorded before it, so that needs no more than the rows. That a batch is dispatched once
  does: a pass goes by what it had `cached`, so `Counted` says that the pass with the hold has
  found the batches ahead of it as they still are (`Fresh`), that no two passes are of one
  attempt of one tick (`Apart`, so that the hold is one pass's), and that what it has seen
  ended has ended (`Looked`).
- `WorkflowProofs!CancelsBatches`: `cancel` leaves no batch going, and afterwards none is
  dispatched, since `write` looks at the status under the lock that `cancel` had.
- `WorkflowProofs!OneAtATime`: without a stall the tick of a pass stays claimed by it under a
  live lease (`Leased`), and the pass that took the workflow keeps it under a live lease until
  it lets go or the workflow was ended over its head (`Steady`); `acquire` then keeps every
  other tick out. `Single` is the conjunction of these with `Counted`.
- `WorkflowProofs!ContractKept`: the contract counts the steps from the first without a result on.
  Steps are resolved in their order (`Ordered`), the pass with the hold is at the first that is
  not (`Reached`) and completes when there is none left (`Returned`): what it had `cached` as
  resolved is, and of the others only the pass with the hold can have resolved any since. Every
  write of a result is then one step of the contract, whichever pass makes it.
- `WorkflowProofs!NothingStranded`: with no bound on the tick jobs there are at once, and the
  clocks of the processes equal (`ClocksAgree`; `early` has them differ). A tick job is
  `Coming` when it is in the queue and no attempt that is its newest has taken the workflow or
  found it held yet. While the workflow is held, the job that has it is in the queue
  (`HeldComes`, since its newest attempt is the holder: `Known`). When it is let go, some tick is
  coming or a step of its method waits for somebody (`Advancing`). The latter is the work of
  `finish`: what it scheduled last for a wake-up is pending as long as `wakeAt` is to come
  (`WakeTick`); a pass that ends because it waits is at a step that does, or a tick came by
  since and has left `retick` or is still coming (`Finishing`, `Signals`, `Told`). Once an
  attempt that was given up on took the workflow, or the tick is a dead letter, or the
  workflow has ended, nothing is promised (`Over`).
- `WorkflowProofs!NothingOverslept`: the same with the moment that the tick is due, while no call
  of the store rejects, mishaps are fewer than the attempts of a tick and the clocks are equal
  and not behind the database's (a clock behind it schedules the tick that much too late).
  While the workflow is held, its tick job is claimed (`HeldClaimed`: no pass is at `retry`, and
  the holder lets go before it reports). While it is not, each step of its method with a
  moment has a tick that is coming and due by then (`WokenFree`); time brings both nearer.
  When `finish` lets go, only one step has a moment: steps are begun in turn (`InTurn`), and a
  pass is suspended at the first that is not done (`Suspended`), so the tick that is scheduled for
  that step, or the one that `WakeTick` says is there, does for all. That no tick is a dead letter is
  counted: a claim after the first follows a crash or a stall of its own (`Spared`).
- `RunsProofs!EndsOnce`: `Holding(R)` says that every record that is anywhere - in the log, in
  a subscription, in a change, in a loop - is in the set `R`. One lemma shows that each step
  keeps it for every `R` that has the row; with `R` all records it is the type invariant, and
  with `R` the records that `Agree` with the row's end it is the property, since an ended
  row stays.
- `KeyedJobsProofs!KeysExclusive` and `KeysInUse`. A live job that nothing befell must be
  known to own the key (`Keyed`), and to lose it only by its own end. So the invariant `KeyInv`
  says that a job is in the driver only after its dispatch took the key (`Unrecorded`,
  `Covered`), that an attempt with a job's newest number is the only one that is going on
  (`RunsHold`, `OneRunEach`), so that who frees the key is who ended the row, and that a job
  without an attempt to free its key has been marked by what took the attempt away
  (`DropsMarked`). `OnePerKey` and `KeyHeldForAJob` are then the two directions of
  "live jobs and owners of the key are the same".
- `KeyedJobsProofs!LimitsKept`: a run in the job's code has its slot (`Admitted`, `HasSlot`) and
  a slot one owner (`Owned`), which makes the runs that have not lost theirs inject into the
  slots; a window's count is within the limit, and its hits are no more than its count and the
  late refunds (`WindowsCounted`).
- `QueueLoopProofs!RoomHolds`: while a claim is out, what it asked for or was given fits beside
  what `inFlight` holds (`RoomKept`), since only the loop adds to it. This is true with
  releases, too, but then an entry may stand for two runs. With `MaxReleases = 0` an attempt
  number does not come back, so no claim is given the key of a run (`Tracked`): `RunsTracked`
  follows, and with it `SlotsKept`, as the runs then are the entries. For `DrainsIdle` the
  drain must be known to have waited for a claim before it looked, and to wait for all
  that is there (`DrainSees`).
- `TypeCorrect` in each of the eight.

Only model-checked: liveness (`Settles`, `WaitersLearn`, `FollowersLearn` and the others: the
prover does no reasoning under fairness with `ENABLED`).

## 6. Variants

Each property of a passing run is also checked against a version of the code with one
plausible mistake in it, which must violate it. Those versions are operators marked
"Variant" beside the ones they replace: a report guarded by its status alone, a claim
that is not counted, a heartbeat as seldom as the leases are long, a loop that subtracts
nothing from its slots, a drain that does not wait for a claim, a cancellation that
counts what still runs, a lease counted from its answer, a lapsed lock taken from
under a fenced section, a retry that does not look at its batch, a wake-up that relies on a tick
that is gone, a cancellation that does not wait for the pass of `run()`, a compare-and-set that
does not compare, a follower that skips a reset, a key that is freed between retries, a
window that takes one hit more, a slot that is kept by a job that was put off, and so on. `PROJECT.json` lists
the pairs.
