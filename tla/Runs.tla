--------------------------------- MODULE Runs ---------------------------------
(***************************************************************************)
(* One tracked run: its record in the RunStore, whoever changes it, the    *)
(* job that executes it, those who wait for it and those who follow it.    *)
(* A change is a compare-and-set of the status, a read of the record, and  *)
(* a publish of what was read; several instances do this at once, so       *)
(* records are published twice, late, out of order, or not at all.         *)
(***************************************************************************)
EXTENDS ChangeFeed

CONSTANTS
  Waiters,        \* calls of wait(), without a timeout
  Followers,      \* iterations of subscribe()
  Workers,        \* calls of execute()
  Callers,        \* others that change the run
  Casts,          \* the sets of them looked at together
  MaxVersion,     \* bound: from version MaxVersion[a] on, a only ends the run
  Outcomes,       \* bound: how those who call or work end it, which makes no difference
  May,            \* bound: the kinds of mishap that may happen
  MaxMishaps      \* bound: how many of them

ASSUME RunsAssumption ==
  /\ Listeners = Waiters \union Followers \union Workers
  /\ Waiters \intersect Followers = {} /\ Followers \intersect Workers = {}
  /\ Waiters \intersect Workers = {} /\ Callers \intersect Listeners = {}
  /\ Casts \subseteq SUBSET (Listeners \union Callers)
  /\ Outcomes \subseteq {"completed", "failed", "cancelled"}
  /\ MaxVersion \in [Callers \union Workers -> Nat] /\ MaxMishaps \in Nat
  /\ May \subseteq {"lost", "crashed", "closed"}

VARIABLES
  row,        \* the run's record
  deadline,   \* "none", "ahead" or "passed" on the store's clock
  change,     \* change[a]: the change a is making
  loop,       \* loop[l]: where l is in wait(), in subscribe(), or execute()'s watch()
  work,       \* work[w]: where the worker is in execute()
  mishaps     \* history: how many publishes failed, workers died, feeds closed

runVars == <<row, deadline, change, loop, work, mishaps>>
vars == <<log, sub, row, deadline, change, loop, work, mishaps>>

Open == {"pending", "running"}
Final == {"completed", "failed", "cancelled", "timed_out"}

Record(status, version) == [status |-> status, version |-> version]
NoRecord == Record("none", 0)
IsFinal(r) == r.status \in Final

Change(stage, record) == [stage |-> stage, record |-> record]
NoChange == Change("none", NoRecord)
Loop(stage, record) == [stage |-> stage, record |-> record]
Work(stage, aborted, record) == [stage |-> stage, aborted |-> aborted, record |-> record]

(* Workers change the run in execute(), and in the watch() beside it. *)
Watch(w) == <<"watch", w>>
Actors == Callers \union Waiters \union Workers \union {Watch(w) : w \in Workers}

Records == [status : Open \union Final \union {"none"}, version : Nat]

Events(R) == [type : {"change"}, data : R] \union [type : {"none", "done", "reset"}, data : Nat]

Subs(R) ==
  [stage : {"none", "new", "heads", "idle", "reading", "closed"}, readTo : Nat,
   dirty : {"no", "yes"}, pending : Seq(Events(R)), head : Nat,
   next : {"none", "asked", "settled"}, event : Events(R)]

ChangesOf(R) == [stage : {"off", "none", "null", "read", "publish", "made"}, record : R]
LoopsOf(R) ==
  [stage : {"off", "ready", "get", "check", "sleep", "expire", "follow", "over"}, record : R]
WorksOf(R) ==
  [stage : {"none", "ready", "start", "works", "settle", "await", "done"},
   aborted : {"no", "yes"}, record : R]

(* Every variable has its type, and the records that are anywhere are in R. *)
Holding(R) ==
  /\ log \in Seq(R)
  /\ sub \in [Listeners -> Subs(R)]
  /\ row \in R
  /\ deadline \in {"none", "ahead", "passed"}
  /\ change \in [Actors -> ChangesOf(R)]
  /\ loop \in [Listeners -> LoopsOf(R)]
  /\ work \in [Workers -> WorksOf(R)]
  /\ mishaps \in [lost : Nat, crashed : Nat, closed : Nat]

TypeOK == Holding(Records)

(* create() has published the run already. *)
Init ==
  /\ \E status \in Open : row = Record(status, 1)
  /\ log = <<row>>
  /\ deadline \in {"none", "ahead"}
  /\ \E cast \in Casts :
       /\ change = [a \in Actors |-> IF a \in Callers \ cast THEN Change("off", NoRecord) ELSE NoChange]
       /\ sub = [l \in Listeners |-> IF l \in cast THEN Subscribed ELSE NoSub]
       /\ loop = [l \in Listeners |-> Loop(IF l \in cast \ Workers THEN "ready" ELSE "off", NoRecord)]
       /\ work = [w \in Workers |-> Work(IF w \in cast THEN "ready" ELSE "none", "no", NoRecord)]
  /\ mishaps = [lost |-> 0, crashed |-> 0, closed |-> 0]

Mishap(kind) ==
  /\ kind \in May /\ mishaps.lost + mishaps.crashed + mishaps.closed < MaxMishaps
  /\ mishaps' = [mishaps EXCEPT ![kind] = @ + 1]

-----------------------------------------------------------------------------
(* A change.                                                               *)

(* Variant: the status it has is not compared. *)
appliesAlways(from) == TRUE

applies(from) == row.status \in from

(* transition(): an update of an open run, and then a read of it. *)
Transition(a, from, to) ==
  IF applies(from)
  THEN /\ row' = Record(to, row.version + 1)
       /\ change' = [change EXCEPT ![a] = Change("read", NoRecord)]
  ELSE /\ UNCHANGED row
       /\ change' = [change EXCEPT ![a] = Change("null", NoRecord)]

readBack(a) ==
  /\ change[a].stage = "read"
  /\ change' = [change EXCEPT ![a] = Change("publish", row)]
  /\ UNCHANGED <<feedVars, row, deadline, loop, work, mishaps>>

publish(a) ==
  /\ change[a].stage = "publish"
  /\ change' = [change EXCEPT ![a] = IF a \in Callers THEN NoChange ELSE Change("made", @.record)]
  /\ \/ log' = Append(log, change[a].record) /\ UNCHANGED mishaps
     \/ Mishap("lost") /\ UNCHANGED log
  /\ UNCHANGED <<sub, row, deadline, loop, work>>

Came(a) == change[a].stage \in {"null", "made"}

(* start, progress, complete, fail, cancel, and an overdue run of sweep(). *)
calls(c) ==
  /\ change[c].stage = "none" /\ applies(Open)
  /\ \/ row.version < MaxVersion[c] /\ applies({"pending"}) /\ Transition(c, {"pending"}, "running")
     \/ row.version < MaxVersion[c] /\ Transition(c, Open, "running")
     \/ \E to \in Outcomes : Transition(c, Open, to)
     \/ deadline = "passed" /\ Transition(c, Open, "timed_out")
  /\ UNCHANGED <<feedVars, deadline, loop, work, mishaps>>

-----------------------------------------------------------------------------
(* wait(), and the watch() beside execute()'s function.                    *)

Self(l) == IF l \in Workers THEN Watch(l) ELSE l

To(l, stage, record) == loop' = [loop EXCEPT ![l] = Loop(stage, record)]

(* The function's controller was aborted. *)
Stops(l) == l \in Workers /\ work[l].aborted = "yes"

begins(l) ==
  /\ loop[l].stage = "ready" /\ sub[l].stage \in {"idle", "closed"}
  /\ To(l, "get", NoRecord)
  /\ UNCHANGED <<feedVars, row, deadline, change, work, mishaps>>

gets(l) ==
  /\ loop[l].stage = "get"
  /\ To(l, "check", row)
  /\ UNCHANGED <<feedVars, row, deadline, change, work, mishaps>>

Ends(l) ==
  /\ To(l, "over", loop[l].record)
  /\ sub' = [sub EXCEPT ![l] = Closed(@)]

(* What it does with the record: it may be final, or overdue; else it      *)
(* waits for an event, unless the feed is closed, and for a timer. *)
checks(l) ==
  /\ loop[l].stage = "check"
  /\ IF Stops(l) \/ IsFinal(loop[l].record)
     THEN /\ IF l \in Workers
             THEN /\ To(l, "over", loop[l].record)
                  /\ work' = [work EXCEPT ![l] = Work(@.stage, "yes", @.record)]
                  /\ UNCHANGED sub
             ELSE Ends(l) /\ UNCHANGED work
     ELSE IF deadline = "passed"
     THEN To(l, "expire", loop[l].record) /\ UNCHANGED <<sub, work>>
     ELSE /\ To(l, "sleep", loop[l].record)
          /\ sub' = IF sub[l].next = "none" /\ (l \in Workers \/ sub[l].stage # "closed")
                    THEN [sub EXCEPT ![l] = Asks(@)] ELSE sub
          /\ UNCHANGED work
  /\ UNCHANGED <<log, row, deadline, change, mishaps>>

expire(l) ==
  /\ loop[l].stage = "expire" /\ change[Self(l)].stage = "none"
  /\ Transition(Self(l), Open, "timed_out")
  /\ UNCHANGED <<feedVars, deadline, loop, work, mishaps>>

(* The run as the change left it, or, when there was none to make, as it is. *)
expired(l) ==
  /\ loop[l].stage = "expire" /\ Came(Self(l))
  /\ IF change[Self(l)].stage = "made" THEN To(l, "check", change[Self(l)].record)
                                       ELSE To(l, "get", loop[l].record)
  /\ change' = [change EXCEPT ![Self(l)] = NoChange]
  /\ UNCHANGED <<feedVars, row, deadline, work, mishaps>>

(* The event, or done, says no more than that the run be read again. *)
wakes(l) ==
  /\ loop[l].stage = "sleep" /\ sub[l].next = "settled"
  /\ To(l, "get", loop[l].record)
  /\ sub' = [sub EXCEPT ![l] = Takes(@)]
  /\ UNCHANGED <<log, row, deadline, change, work, mishaps>>

(* Variant: only the deadline sets a timer. *)
timedByDeadline(l) == loop[l].stage = "sleep" /\ deadline = "passed"

(* At the deadline, and every RECHECK_MS. *)
timed(l) == loop[l].stage = "sleep"

rechecks(l) ==
  /\ timed(l)
  /\ To(l, "get", loop[l].record)
  /\ UNCHANGED <<feedVars, row, deadline, change, work, mishaps>>

(* The function has settled: the race is over. *)
stopsWatching(l) ==
  /\ loop[l].stage = "sleep" /\ Stops(l)
  /\ To(l, "over", loop[l].record)
  /\ UNCHANGED <<feedVars, row, deadline, change, work, mishaps>>

-----------------------------------------------------------------------------
(* subscribe().                                                            *)

(* It yields a record, and goes on to the next event unless it was final. *)
Yields(f, record) ==
  IF IsFinal(record)
  THEN To(f, "over", record) /\ sub' = [sub EXCEPT ![f] = Closed(@)]
  ELSE To(f, "follow", record) /\ sub' = [sub EXCEPT ![f] = Asks(@)]

(* The run as it is, first, and where an event does not have it. *)
reads(f) ==
  /\ loop[f].stage = "get"
  /\ IF row.version > loop[f].record.version
     THEN Yields(f, row)
     ELSE To(f, "follow", loop[f].record) /\ sub' = [sub EXCEPT ![f] = Asks(@)]
  /\ UNCHANGED <<log, row, deadline, change, work, mishaps>>

(* Variant: a reset has no record and is skipped. *)
skipsReset(f) ==
  To(f, "follow", loop[f].record) /\ sub' = [sub EXCEPT ![f] = Asks(@)]

readsAgain(f) ==
  To(f, "get", loop[f].record) /\ sub' = [sub EXCEPT ![f] = Takes(@)]

hears(f) ==
  /\ loop[f].stage = "follow" /\ sub[f].next = "settled"
  /\ LET event == sub[f].event IN
       \/ event.type = "done" /\ Ends(f)
       \/ event.type = "reset" /\ readsAgain(f)
       \/ /\ event.type = "change"
          /\ IF event.data.version > loop[f].record.version
             THEN Yields(f, event.data)
             ELSE To(f, "follow", loop[f].record) /\ sub' = [sub EXCEPT ![f] = Asks(@)]
  /\ UNCHANGED <<log, row, deadline, change, work, mishaps>>

-----------------------------------------------------------------------------
(* execute().                                                              *)

WorkTo(w, stage, record) == work' = [work EXCEPT ![w] = Work(stage, @.aborted, record)]

starts(w) ==
  /\ work[w].stage = "ready" /\ sub[w].stage \in {"idle", "closed"}
  /\ Transition(w, {"pending"}, "running")
  /\ WorkTo(w, "start", NoRecord)
  /\ UNCHANGED <<feedVars, deadline, loop, mishaps>>

(* With the run it has started, or found: an end, or the function's work. *)
Enters(w, record) ==
  IF IsFinal(record)
  THEN /\ WorkTo(w, "done", record) /\ sub' = [sub EXCEPT ![w] = Closed(@)]
       /\ UNCHANGED loop
  ELSE /\ WorkTo(w, "works", record) /\ To(w, "check", record)
       /\ UNCHANGED sub

started(w) ==
  /\ work[w].stage = "start" /\ Came(w)
  /\ Enters(w, IF change[w].stage = "made" THEN change[w].record ELSE row)
  /\ change' = [change EXCEPT ![w] = NoChange]
  /\ UNCHANGED <<log, row, deadline, mishaps>>

(* run.progress(), which is quiet once the signal aborted. *)
progress(w) ==
  /\ work[w].stage = "works" /\ work[w].aborted = "no" /\ change[w].stage = "none"
  /\ row.version < MaxVersion[w]
  /\ Transition(w, Open, "running")
  /\ UNCHANGED <<feedVars, deadline, loop, work, mishaps>>

progressed(w) ==
  /\ work[w].stage = "works" /\ Came(w)
  /\ change' = [change EXCEPT ![w] = NoChange]
  /\ UNCHANGED <<feedVars, row, deadline, loop, work, mishaps>>

(* The function returned, or threw. *)
settles(w) ==
  /\ work[w].stage = "works" /\ change[w].stage = "none"
  /\ \E to \in Outcomes \ {"cancelled"} : Transition(w, Open, to)
  /\ WorkTo(w, "settle", work[w].record)
  /\ UNCHANGED <<feedVars, deadline, loop, mishaps>>

(* finally: the signal aborts, and the watch is awaited. *)
settled(w) ==
  /\ work[w].stage = "settle" /\ Came(w)
  /\ work' = [work EXCEPT ![w] = Work("await", "yes", change[w].record)]
  /\ change' = [change EXCEPT ![w] = NoChange]
  /\ sub' = [sub EXCEPT ![w] = Closed(@)]
  /\ UNCHANGED <<log, row, deadline, loop, mishaps>>

(* To the run as its change left it, or, ended by another, as it is. *)
resolves(w) ==
  /\ work[w].stage = "await" /\ loop[w].stage = "over"
  /\ WorkTo(w, "done", IF work[w].record = NoRecord THEN row ELSE work[w].record)
  /\ UNCHANGED <<feedVars, row, deadline, change, loop, mishaps>>

(* The process dies; the job is executed again. *)
crash(w) ==
  /\ work[w].stage \notin {"none", "done"} /\ Mishap("crashed")
  /\ work' = [work EXCEPT ![w] = Work("ready", "no", NoRecord)]
  /\ loop' = [loop EXCEPT ![w] = Loop("off", NoRecord)]
  /\ sub' = [sub EXCEPT ![w] = Subscribed]
  /\ change' = [change EXCEPT ![w] = NoChange, ![Watch(w)] = NoChange]
  /\ UNCHANGED <<log, row, deadline>>

-----------------------------------------------------------------------------

DeadlinePasses ==
  /\ deadline = "ahead" /\ deadline' = "passed"
  /\ UNCHANGED <<feedVars, row, change, loop, work, mishaps>>

(* ChangeFeedManager.close() at a shutdown ends every subscription. *)
closeFeed ==
  /\ mishaps.closed = 0 /\ Mishap("closed")
  /\ sub' = [l \in Listeners |-> IF Follows(l) THEN Closed(sub[l]) ELSE sub[l]]
  /\ UNCHANGED <<log, row, deadline, change, loop, work>>

-----------------------------------------------------------------------------

Changes(a) == readBack(a) \/ publish(a)

Waits(l) ==
  /\ l \notin Followers
  /\ gets(l) \/ checks(l) \/ expire(l) \/ expired(l) \/ wakes(l) \/ stopsWatching(l)

Listens(l) == begins(l) \/ Waits(l) \/ (l \in Followers /\ (reads(l) \/ hears(l)))

(* All of execute() but the function, which may take for ever. *)
Executes(w) ==
  starts(w) \/ started(w) \/ progressed(w) \/ settled(w) \/ resolves(w)

Next ==
  \/ \E a \in Actors : Changes(a)
  \/ \E c \in Callers : calls(c)
  \/ \E l \in Listeners :
       \/ Listens(l) \/ rechecks(l)
       \/ (FeedStep(l) \/ \E seq \in 1 .. Len(log) : Notified(l, seq)) /\ UNCHANGED runVars
  \/ \E w \in Workers : Executes(w) \/ progress(w) \/ settles(w) \/ crash(w)
  \/ DeadlinePasses
  \/ closeFeed

Spec == Init /\ [][Next]_vars

(* Queries are answered, timers fire, time passes, the feed is polled.     *)
FairSpec ==
  /\ Spec
  /\ \A c \in Callers : WF_vars(Changes(c))
  /\ \A l \in Listeners :
       /\ WF_vars(Listens(l) \/ rechecks(l) \/ (l \notin Followers /\ Changes(Self(l))))
       /\ WF_vars((FeedStep(l) \/ polls(l)) /\ UNCHANGED runVars)
  /\ \A w \in Workers : WF_vars(Executes(w) \/ Changes(w))
  /\ WF_vars(DeadlinePasses)

-----------------------------------------------------------------------------
(* Properties.                                                             *)

(* A run that ended never changes again, whoever ends it at the same time: *)
(* all who saw an end - a wait, a follower, the worker, whoever made it,   *)
(* the feed - saw the one the run has. *)
SameEnd(r) == IsFinal(r) => r = row

OneEnd ==
  /\ \A l \in Listeners : SameEnd(loop[l].record)
  /\ \A w \in Workers : SameEnd(work[w].record)
  /\ \A a \in Actors : SameEnd(change[a].record)
  /\ \A s \in 1 .. Len(log) : SameEnd(log[s])

(* Whatever publish or notification was lost, once the run has ended or    *)
(* passed its deadline every wait resolves, and the function that is at    *)
(* work is told, though its process died and the job came again. *)
WaitersLearn ==
  (IsFinal(row) \/ deadline = "passed") ~>
    /\ \A l \in Waiters : loop[l].stage \in {"off", "over"}
    /\ \A w \in Workers : work[w].stage # "works" \/ work[w].aborted = "yes"

(* Who follows the run gets to its end once that is published, though      *)
(* notifications are lost, the log forgets, and records come out of order. *)
FollowersLearn ==
  \A f \in Followers :
    ((\E s \in 1 .. Len(log) : IsFinal(log[s])) /\ loop[f].stage # "off") ~>
      (IsFinal(loop[f].record) \/ mishaps.closed > 0)

=============================================================================
