-------------------------- MODULE MemoryQueueProofs --------------------------
(***************************************************************************)
(* What MemoryQueueDriver's one timer guarantees, for any number of jobs,  *)
(* slots, delays and blocked moments.                                      *)
(***************************************************************************)
EXTENDS MemoryQueue, FiniteSetTheorems, TLAPS

(* The heartbeat's interval and the last attempt are natural numbers. *)
LEMMA EveryType == Every \in Nat /\ LastAttempt \in Nat
BY MemoryAssumption DEF Every, LastAttempt

(* An entry made by one of the driver's operations is an entry. *)
LEMMA EntryType ==
  ASSUME NEW s \in {"none", "waiting", "leased", "gone"}, NEW a \in Nat, NEW u \in Int
  PROVE  Entry(s, a, u) \in Entries
BY DEF Entry, Entries

(* Using up a bound keeps its count. *)
LEMMA UseType ==
  ASSUME used \in [blocks : Nat, releases : Nat], NEW b \in {"blocks", "releases"}, Use(b)
  PROVE  used' \in [blocks : Nat, releases : Nat]
BY DEF Use

(* schedule() sets the timer to a moment of the clock, or to none, ...     *)
LEMMA ScheduleType ==
  ASSUME entries' \in [Jobs -> Entries], schedule
  PROVE  timer' \in Int
BY DEF schedule, Coming, Entries, NoTimer

(* ... and to none that is later than one still to come. *)
LEMMA ScheduleCovers ==
  ASSUME entries' \in [Jobs -> Entries], schedule
  PROVE  TimerCoversFuture'
BY DEF schedule, Coming, Entries, NoTimer, TimerCoversFuture

(* Time passing leaves the timer as far ahead as it was. *)
LEMMA PassesCovers ==
  ASSUME TypeOK, TimerCoversFuture, NEW n \in Nat, Passes(n)
  PROVE  /\ entries' \in [Jobs -> Entries]
         /\ timer' \in Int /\ beat' \in Int
         /\ TimerCoversFuture'
<1>1. \A j \in Jobs : Entry(entries[j].state, entries[j].attempt, Lower(entries[j].until, n))
                        \in Entries
  BY MemoryAssumption DEF TypeOK, Entry, Entries, Lower
<1>2. entries' \in [Jobs -> Entries]
  BY <1>1 DEF Passes, TypeOK
<1>3. timer' \in Int /\ beat' \in Int
  BY DEF Passes, TypeOK, Less
<1>4. ASSUME NEW j \in Jobs, Live(entries'[j]), entries'[j].until > 0
      PROVE  timer' # NoTimer /\ timer' <= entries'[j].until
  <2>1. entries[j] \in Entries
    BY DEF TypeOK
  <2>2. Live(entries[j])
    BY <1>4 DEF Passes, Live
  <2>3. entries'[j].until = Lower(entries[j].until, n)
    BY <2>2 DEF Passes, Entry
  <2>4. entries'[j].until = entries[j].until - n /\ entries[j].until > 0
    BY <1>4, <2>1, <2>3, MemoryAssumption DEF Lower, Entries
  <2>5. timer # NoTimer /\ timer <= entries[j].until
    BY <2>2, <2>4 DEF TimerCoversFuture
  <2> QED
    BY <1>4, <2>1, <2>4, <2>5 DEF Passes, Less, TypeOK, NoTimer, Entries
<1> QED
  BY <1>2, <1>3, <1>4 DEF TimerCoversFuture

Inv == TypeOK /\ TimerCoversFuture

(* Nothing is there to be timed at first. *)
LEMMA InitInv == ASSUME Init PROVE Inv
<1>1. Entry("none", 0, 0) \in Entries
  BY EntryType
<1>2. entries \in [Jobs -> Entries]
  BY <1>1 DEF Init
<1>3. tries \in [Jobs -> Int]
  BY DEF Init
<1>4. used \in [blocks : Nat, releases : Nat]
  BY DEF Init
<1>5. TypeOK
  <2>1. timer \in Int /\ beat \in Int /\ longest \in Nat
    BY DEF Init, NoTimer
  <2>2. awake \in BOOLEAN
    BY Zenon DEF Init
  <2>3. /\ runs \subseteq Runs /\ leaving \subseteq Leavers
        /\ inFlight \subseteq Jobs \X (Nat \ {0}) /\ rekeyed \subseteq Jobs
    BY Zenon DEF Init
  <2> QED
    BY <1>2, <1>3, <1>4, <2>1, <2>2, <2>3 DEF TypeOK
<1>6. \A j \in Jobs : ~Live(entries[j])
  BY DEF Init, Entry, Live
<1> QED
  BY <1>5, <1>6 DEF Inv, TimerCoversFuture

(* A report of a run: the run is about to leave, and its entry, if it is   *)
(* still its own, becomes e. *)
LEMMA ReportInv ==
  ASSUME Inv, NEW c \in runs, NEW e \in Entries, NEW waits \in BOOLEAN,
         \/ entries' = [entries EXCEPT ![c.job] = e] /\ schedule
         \/ UNCHANGED <<entries, timer>>,
         reports(c, waits), UNCHANGED <<beat, longest>>,
         awake' \in BOOLEAN,
         tries' \in [Jobs -> Int], used' \in [blocks : Nat, releases : Nat]
  PROVE  Inv'
<1>1. entries' \in [Jobs -> Entries]
  BY DEF Inv, TypeOK
<1>2. timer' \in Int /\ TimerCoversFuture'
  BY <1>1, ScheduleType, ScheduleCovers DEF Inv, TypeOK, TimerCoversFuture
<1>3. runs' \subseteq Runs
  BY DEF Inv, TypeOK, reports
<1>4. [run |-> c, waits |-> waits, at |-> used.releases] \in Leavers
  BY DEF Inv, TypeOK, Leavers
<1>5. leaving' \subseteq Leavers
  BY <1>4 DEF Inv, TypeOK, reports
<1> QED
  BY <1>1, <1>2, <1>3, <1>5 DEF Inv, TypeOK, reports

(* Types and timer survive every operation, as one invariant. *)
LEMMA NextInv == ASSUME Inv, [Next]_vars PROVE Inv'
<1> USE DEF Inv
<1>1. ASSUME NEW j \in Jobs, NEW d \in Delays, enqueue(j, d)
      PROVE  Inv'
  <2>1. entries' \in [Jobs -> Entries]
    BY <1>1, EntryType, MemoryAssumption DEF enqueue, TypeOK
  <2>2. timer' \in Int /\ TimerCoversFuture'
    BY <1>1, <2>1, ScheduleType, ScheduleCovers DEF enqueue, changed
  <2> QED
    BY <1>1, <2>1, <2>2 DEF enqueue, changed, TypeOK
<1>2. ASSUME NEW S \in SUBSET Jobs, claim(S)
      PROVE  Inv'
  <2>1. \A j \in Jobs : Entry("leased", entries[j].attempt + 1, VisibilityTimeout) \in Entries
    BY MemoryAssumption DEF TypeOK, Entry, Entries
  <2>2. entries' \in [Jobs -> Entries]
    BY <1>2, <2>1 DEF claim, TypeOK
  <2>3. timer' \in Int /\ TimerCoversFuture'
    <3>1. CASE S = {}
      <4>1. UNCHANGED <<entries, timer>>
        BY <1>2, <3>1 DEF claim, TypeOK
      <4> QED
        BY <4>1 DEF TypeOK, TimerCoversFuture
    <3>2. CASE S # {}
      BY <1>2, <3>2, <2>2, ScheduleType, ScheduleCovers DEF claim
    <3> QED
      BY <3>1, <3>2
  <2>4. runs' \subseteq Runs
    <3>1. \A j \in Jobs : [job |-> j, attempt |-> entries[j].attempt + 1, stage |-> "handed"]
                            \in Runs
      BY DEF TypeOK, Entries, Runs
    <3> QED
      BY <1>2, <3>1 DEF claim, TypeOK, Runs
  <2>5. awake' \in BOOLEAN /\ beat' \in Int
    BY <1>2, EveryType DEF claim, TypeOK
  <2>6. inFlight' \subseteq Jobs \X (Nat \ {0})
    <3>1. \A j \in Jobs : entries[j].attempt + 1 \in Nat \ {0}
      BY DEF TypeOK, Entries
    <3> QED
      BY <1>2, <3>1 DEF claim, TypeOK, Key
  <2>7. rekeyed' \subseteq Jobs
    BY <1>2 DEF claim, TypeOK
  <2> QED
    BY <1>2, <2>2, <2>3, <2>4, <2>5, <2>6, <2>7 DEF claim, TypeOK
<1>3. CASE sleep
  BY <1>3 DEF sleep, TypeOK, TimerCoversFuture
<1>4. CASE heartbeat
  <2>1. \A j \in Jobs : Entry("leased", entries[j].attempt, VisibilityTimeout) \in Entries
    BY MemoryAssumption DEF TypeOK, Entry, Entries
  <2>2. entries' \in [Jobs -> Entries]
    BY <1>4, <2>1 DEF heartbeat, TypeOK
  <2>3. timer' \in Int /\ TimerCoversFuture'
    <3>1. CASE inFlight = {}
      BY <1>4, <3>1 DEF heartbeat, TypeOK, TimerCoversFuture
    <3>2. CASE inFlight # {}
      BY <1>4, <3>2, <2>2, ScheduleType, ScheduleCovers DEF heartbeat
    <3> QED
      BY <3>1, <3>2
  <2>4. beat' \in Int
    BY <1>4, EveryType DEF heartbeat, NoTimer
  <2> QED
    BY <1>4, <2>2, <2>3, <2>4 DEF heartbeat, TypeOK
<1>5. CASE FireTimer
  <2>1. entries' \in [Jobs -> Entries]
    BY <1>5 DEF FireTimer, TypeOK
  <2>2. timer' \in Int /\ TimerCoversFuture'
    BY <1>5, <2>1, ScheduleType, ScheduleCovers DEF FireTimer, changed
  <2> QED
    BY <1>5, <2>1, <2>2 DEF FireTimer, changed, TypeOK
<1>6. ASSUME NEW c \in runs, Begin(c)
      PROVE  Inv'
  <2>1. runs' \subseteq Runs
    BY <1>6 DEF Begin, TypeOK, Runs
  <2>2. tries' \in [Jobs -> Int]
    BY <1>6 DEF Begin, TypeOK, Runs
  <2>3. UNCHANGED <<entries, timer, awake, leaving, inFlight, beat, longest, rekeyed, used>>
    BY <1>6 DEF Begin
  <2> QED
    BY <2>1, <2>2, <2>3 DEF TypeOK, TimerCoversFuture
<1>7. ASSUME NEW c \in runs, complete(c)
      PROVE  Inv'
  <2>1. Entry("gone", 0, 0) \in Entries
    BY EntryType
  <2>2. reports(c, TRUE) /\ awake' \in BOOLEAN
    BY <1>7 DEF complete, TypeOK
  <2> QED
    BY <1>7, <2>1, <2>2, ReportInv DEF complete, TypeOK
<1>8. ASSUME NEW c \in runs, NEW d \in Delays, fail(c, d)
      PROVE  Inv'
  <2>1. Entry("waiting", c.attempt, d) \in Entries
    BY EntryType, MemoryAssumption DEF TypeOK, Runs
  <2>2. reports(c, FALSE) /\ awake' \in BOOLEAN
    BY <1>8 DEF fail, changed, TypeOK
  <2> QED
    BY <1>8, <2>1, <2>2, ReportInv DEF fail, changed, TypeOK
<1>9. ASSUME NEW c \in runs, NEW d \in Delays, release(c, d)
      PROVE  Inv'
  <2>1. Entry("waiting", Refunded(c), d) \in Entries
    BY EntryType, MemoryAssumption DEF TypeOK, Runs, Refunded
  <2>2. tries' \in [Jobs -> Int]
    BY <1>9 DEF release, TypeOK
  <2>3. used' \in [blocks : Nat, releases : Nat]
    BY <1>9, UseType DEF release, TypeOK
  <2>4. reports(c, FALSE) /\ awake' \in BOOLEAN
    BY <1>9 DEF release, changed, TypeOK
  <2> QED
    BY <1>9, <2>1, <2>2, <2>3, <2>4, ReportInv DEF release, changed
<1>10. CASE Tick
  BY <1>10, PassesCovers DEF Tick, Passes, TypeOK
<1>11. ASSUME NEW n \in Blocks, Block(n)
       PROVE  Inv'
  <2>1. n \in Nat
    BY MemoryAssumption
  <2>2. used' \in [blocks : Nat, releases : Nat]
    BY <1>11, UseType DEF Block, TypeOK
  <2>3. longest' \in Nat
    BY <1>11, <2>1 DEF Block, TypeOK
  <2> QED
    BY <1>11, <2>1, <2>2, <2>3, PassesCovers DEF Block, Passes, TypeOK
<1>12. CASE UNCHANGED vars
  BY <1>12 DEF vars, TypeOK, TimerCoversFuture
<1>13. ASSUME NEW l \in leaving, Settles(l)
       PROVE  Inv'
  BY <1>13 DEF Settles, TypeOK, TimerCoversFuture
<1> QED
  BY <1>1, <1>2, <1>3, <1>4, <1>5, <1>6, <1>7, <1>8, <1>9, <1>10, <1>11, <1>12, <1>13
     DEF Next, claimSome, RunStep, SettleSome

(* The driver's state keeps its types: in particular a release never takes *)
(* back more attempts than were made. *)
THEOREM TypeCorrect == Spec => []TypeOK
<1>1. Init => Inv
  BY InitInv
<1>2. Inv /\ [Next]_vars => Inv'
  BY NextInv
<1> QED
  BY <1>1, <1>2, PTL DEF Spec, Inv

(* No entry's moment is slept through: whatever order of enqueues, claims, *)
(* reports, heartbeats and late timers moved the driver's one timer about, *)
(* it is set no later than the next moment an entry becomes claimable.     *)
THEOREM TimerNeverLate == Spec => []TimerCoversFuture
<1>1. Init => Inv
  BY InitInv
<1>2. Inv /\ [Next]_vars => Inv'
  BY NextInv
<1> QED
  BY <1>1, <1>2, PTL DEF Spec, Inv

-----------------------------------------------------------------------------
(* inFlight.  Its keys are those of runs that have not left; and the runs  *)
(* of a job that was never claimed under a key still in use have keys of   *)
(* their own. *)

Owned ==
  \A k \in inFlight : (\E c \in runs : Key(c) = k) \/ (\E l \in leaving : Key(l.run) = k)

Tracked ==
  /\ \A c \in runs : c.job \notin rekeyed =>
       /\ Key(c) \in inFlight
       /\ \A d \in runs : Key(c) = Key(d) => c = d
       /\ \A l \in leaving : Key(c) # Key(l.run)
  /\ \A l \in leaving : l.run.job \notin rekeyed =>
       /\ Key(l.run) \in inFlight
       /\ \A m \in leaving : Key(l.run) = Key(m.run) => l = m

FInv == Inv /\ Owned /\ Tracked

LEMMA FiledInit == ASSUME Init PROVE FInv
BY InitInv DEF Init, FInv, Owned, Tracked

LEMMA FiledStep == ASSUME FInv, [Next]_vars PROVE FInv'
<1>0. Owned /\ Tracked /\ TypeOK
  BY DEF FInv, Inv
<1>1. Inv'
  BY NextInv DEF FInv
<1> SUFFICES Owned' /\ Tracked'
  BY <1>1 DEF FInv
<1>2. ASSUME UNCHANGED <<runs, leaving, inFlight, rekeyed>> PROVE Owned' /\ Tracked'
  BY <1>0, <1>2 DEF Owned, Tracked
<1>3. ASSUME NEW S \in SUBSET Jobs, claim(S) PROVE Owned' /\ Tracked'
  <2> DEFINE New == {[job |-> j, attempt |-> entries[j].attempt + 1, stage |-> "handed"] : j \in S}
  <2>1. /\ runs' = runs \union New /\ leaving' = leaving
        /\ inFlight' = inFlight \union {Key(c) : c \in New}
        /\ rekeyed' = rekeyed \union {j \in S : <<j, entries[j].attempt + 1>> \in inFlight}
    BY <1>3 DEF claim
  <2>2. \A c \in New : c.job \notin rekeyed' => Key(c) \notin inFlight /\ c.job \notin rekeyed
    BY <2>1 DEF Key
  <2>3. \A c, d \in New : Key(c) = Key(d) => c = d
    BY DEF Key
  <2>4. \A c, d : Key(c) = Key(d) => c.job = d.job
    BY DEF Key
  <2> HIDE DEF New
  <2>5. Owned'
    BY <1>0, <2>1 DEF Owned
  <2>6. ASSUME NEW c \in runs', c.job \notin rekeyed'
        PROVE  /\ Key(c) \in inFlight'
               /\ \A d \in runs' : Key(c) = Key(d) => c = d
               /\ \A l \in leaving' : Key(c) # Key(l.run)
    <3>1. CASE c \in New
      <4>1. Key(c) \notin inFlight /\ c.job \notin rekeyed
        BY <2>2, <2>6, <3>1
      <4>2. \A d \in runs : Key(d) # Key(c)
        BY <1>0, <2>4, <4>1 DEF Tracked
      <4>3. \A l \in leaving : Key(l.run) # Key(c)
        BY <1>0, <2>4, <4>1 DEF Tracked
      <4> QED  BY <2>1, <2>3, <3>1, <4>2, <4>3
    <3>2. CASE c \in runs
      <4>1. c.job \notin rekeyed /\ Key(c) \in inFlight
        BY <1>0, <2>1, <2>6, <3>2 DEF Tracked
      <4>2. \A d \in New : Key(d) # Key(c)
        BY <2>2, <2>4, <2>6, <4>1
      <4> QED  BY <1>0, <2>1, <3>2, <4>1, <4>2 DEF Tracked
    <3> QED  BY <2>1, <3>1, <3>2
  <2>7. \A l \in leaving' : l.run.job \notin rekeyed' =>
          /\ Key(l.run) \in inFlight'
          /\ \A m \in leaving' : Key(l.run) = Key(m.run) => l = m
    BY <1>0, <2>1 DEF Tracked
  <2> QED  BY <2>5, <2>6, <2>7 DEF Tracked
<1>4. ASSUME NEW c \in runs, Begin(c) PROVE Owned' /\ Tracked'
  <2>1. PICK e : e = [job |-> c.job, attempt |-> c.attempt, stage |-> "running"]
    OBVIOUS
  <2>2. /\ runs' = (runs \ {c}) \union {e} /\ e.job = c.job /\ Key(e) = Key(c)
        /\ UNCHANGED <<leaving, inFlight, rekeyed>>
    BY <1>4, <2>1 DEF Begin, Key
  <2>3. Owned'
    BY <1>0, <2>2 DEF Owned
  <2>4. ASSUME NEW a \in runs', a.job \notin rekeyed'
        PROVE  /\ Key(a) \in inFlight'
               /\ \A d \in runs' : Key(a) = Key(d) => a = d
               /\ \A l \in leaving' : Key(a) # Key(l.run)
    <3>1. CASE a = e
      BY <1>0, <2>2, <2>4, <3>1 DEF Tracked
    <3>2. CASE a \in runs /\ a # c
      BY <1>0, <2>2, <2>4, <3>2 DEF Tracked
    <3> QED  BY <2>2, <3>1, <3>2
  <2>5. \A l \in leaving' : l.run.job \notin rekeyed' =>
          /\ Key(l.run) \in inFlight'
          /\ \A m \in leaving' : Key(l.run) = Key(m.run) => l = m
    BY <1>0, <2>2 DEF Tracked
  <2> QED  BY <2>3, <2>4, <2>5 DEF Tracked
<1>5. ASSUME NEW c \in runs, NEW waits, reports(c, waits) PROVE Owned' /\ Tracked'
  <2>1. PICK n : n = [run |-> c, waits |-> waits, at |-> used.releases]
    OBVIOUS
  <2>2. /\ runs' = runs \ {c} /\ leaving' = leaving \union {n} /\ n.run = c
        /\ UNCHANGED <<inFlight, rekeyed>>
    BY <1>5, <2>1 DEF reports
  <2>3. Owned'
    BY <1>0, <2>2 DEF Owned
  <2>4. Tracked'
    <3>1. ASSUME NEW a \in runs', a.job \notin rekeyed'
          PROVE  /\ Key(a) \in inFlight'
                 /\ \A d \in runs' : Key(a) = Key(d) => a = d
                 /\ \A l \in leaving' : Key(a) # Key(l.run)
      BY <1>0, <2>2, <3>1 DEF Tracked
    <3>2. ASSUME NEW l \in leaving', l.run.job \notin rekeyed'
          PROVE  /\ Key(l.run) \in inFlight'
                 /\ \A m \in leaving' : Key(l.run) = Key(m.run) => l = m
      <4>1. l.run.job \notin rekeyed
        BY <2>2, <3>2
      <4>2. \A a, b : Key(a) = Key(b) => a.job = b.job
        BY DEF Key
      <4> QED  BY <1>0, <2>2, <4>1, <4>2 DEF Tracked
    <3> QED  BY <3>1, <3>2 DEF Tracked
  <2> QED  BY <2>3, <2>4
<1>6. ASSUME NEW l \in leaving, Settles(l) PROVE Owned' /\ Tracked'
  <2>1. /\ runs' = runs /\ leaving' = leaving \ {l} /\ rekeyed' = rekeyed
        /\ inFlight' = inFlight \ {Key(l.run)}
    BY <1>6 DEF Settles
  <2>2. \A a, b : Key(a) = Key(b) => a.job = b.job
    BY DEF Key
  <2> QED  BY <1>0, <2>1, <2>2 DEF Owned, Tracked
<1>7. ASSUME \/ \E j \in Jobs, d \in Delays : enqueue(j, d)
             \/ sleep \/ heartbeat \/ FireTimer \/ Tick
             \/ \E n \in Blocks : Block(n)
             \/ UNCHANGED vars
      PROVE  Owned' /\ Tracked'
  <2>1. UNCHANGED <<runs, leaving, inFlight, rekeyed>>
    BY <1>7 DEF enqueue, sleep, heartbeat, FireTimer, Tick, Block, Passes, vars
  <2> QED  BY <1>2, <2>1
<1>8. ASSUME NEW c \in runs, RunStep(c) \/ \E d \in Delays : release(c, d)
      PROVE  Owned' /\ Tracked'
  BY <1>4, <1>5, <1>8 DEF RunStep, complete, fail, release
<1> QED
  BY <1>3, <1>6, <1>7, <1>8 DEF Next, claimSome, SettleSome

-----------------------------------------------------------------------------
(* Who is passed over.  An idle manager that sleeps has its timer at 0     *)
(* when something is due.                                                  *)

IdleIsTold ==
  Concurrency > 0 /\ runs = {} /\ leaving = {} /\ ~awake
    => \A j \in Jobs : Due(entries[j]) => timer = 0

TInv == FInv /\ IdleIsTold

LEMMA ToldStep == ASSUME TInv, [Next]_vars PROVE IdleIsTold'
<1> SUFFICES ASSUME Concurrency > 0, runs' = {}, leaving' = {}, ~awake', NEW j \in Jobs, Due(entries'[j])
             PROVE  timer' = 0
  BY DEF IdleIsTold
<1>0. TypeOK /\ TimerCoversFuture /\ IdleIsTold /\ Owned
  BY DEF TInv, FInv, Inv
<1>1. ASSUME NEW k \in Jobs, NEW d \in Delays, enqueue(k, d) PROVE FALSE
  BY <1>1 DEF enqueue, changed
<1>2. ASSUME FireTimer PROVE FALSE
  BY <1>2 DEF FireTimer, changed
<1>3. ASSUME NEW S \in SUBSET Jobs, claim(S) PROVE FALSE
  <2>1. S = {}
    <3>1. \A k \in S : [job |-> k, attempt |-> entries[k].attempt + 1, stage |-> "handed"] \in runs'
      BY <1>3 DEF claim
    <3> QED  BY <3>1
  <2>2. S = {k \in Jobs : Due(entries[k])}
    BY <1>3 DEF claim
  <2>3. entries'[j] = entries[j]
    BY <1>3, <2>1 DEF claim
  <2> QED  BY <2>1, <2>2, <2>3
<1>4. ASSUME sleep PROVE FALSE
  <2>1. Cardinality({}) = 0
    BY FS_EmptySet
  <2>2. runs = {} /\ leaving = {} /\ Cardinality(inFlight) >= Concurrency
    BY <1>4 DEF sleep
  <2>3. inFlight = {}
    BY <1>0, <2>2 DEF Owned
  <2> QED  BY <2>1, <2>2, <2>3, MemoryAssumption
<1>5. ASSUME heartbeat PROVE timer' = 0
  <2>1. runs = {} /\ leaving = {} /\ ~awake
    BY <1>5 DEF heartbeat
  <2>2. entries' = entries /\ timer' = timer
    BY <1>0, <1>5, <2>1 DEF heartbeat, Owned
  <2> QED  BY <1>0, <2>1, <2>2 DEF IdleIsTold
<1>6. ASSUME NEW c \in runs, RunStep(c) \/ \E d \in Delays : release(c, d) PROVE FALSE
  BY <1>6 DEF RunStep, Begin, complete, fail, release, reports
<1>7. ASSUME NEW n \in Nat, Passes(n) PROVE timer' = 0
  <2>1. runs = {} /\ leaving = {} /\ ~awake /\ timer # 0
    BY <1>7 DEF Passes
  <2>2. ~Due(entries[j])
    BY <1>0, <2>1 DEF IdleIsTold
  <2>3. /\ Live(entries[j]) /\ entries[j].until \in Int
        /\ Lower(entries[j].until, n) <= 0
    BY <1>0, <1>7 DEF Passes, Due, Live, Entry, TypeOK, Entries
  <2>4. entries[j].until > 0 /\ entries[j].until <= n
    BY <2>2, <2>3, MemoryAssumption DEF Due, Lower
  <2>5. timer # NoTimer /\ timer <= n /\ timer \in Int
    BY <1>0, <2>3, <2>4 DEF TimerCoversFuture, TypeOK
  <2> QED  BY <1>7, <2>5 DEF Passes, Less
<1>8. CASE UNCHANGED vars
  BY <1>0, <1>8 DEF vars, IdleIsTold
<1>9. \A n \in Blocks : n \in Nat
  BY MemoryAssumption
<1>10. ASSUME NEW l \in leaving, Settles(l) PROVE FALSE
  BY <1>10 DEF Settles
<1> QED
  BY <1>1, <1>2, <1>3, <1>4, <1>5, <1>6, <1>7, <1>8, <1>9, <1>10
     DEF Next, claimSome, SettleSome, Tick, Block

(* A due job is passed over by a sleeping manager only while something     *)
(* runs, the end of which will wake it: the one timer never leaves an idle *)
(* manager asleep over a due job, however late it and the heartbeat are.   *)
THEOREM OnlyBusyMisses == Spec => []MissesOnlyWhileBusy
<1>1. Init => TInv
  <2> SUFFICES ASSUME Init PROVE TInv
    OBVIOUS
  <2>1. \A j \in Jobs : ~Due(entries[j])
    BY DEF Init, Entry, Due, Live
  <2> QED  BY <2>1, FiledInit DEF TInv, IdleIsTold
<1>2. TInv /\ [Next]_vars => TInv'
  BY FiledStep, ToldStep DEF TInv
<1>3. TInv => MissesOnlyWhileBusy
  <2> SUFFICES ASSUME TInv, NEW j \in Jobs, Missed(j), runs = {}, leaving = {} PROVE FALSE
    BY DEF MissesOnlyWhileBusy
  <2>1. inFlight = {}
    BY DEF TInv, FInv, Owned
  <2>2. Concurrency > 0
    BY <2>1, FS_EmptySet, MemoryAssumption DEF Missed
  <2> QED  BY <2>2 DEF TInv, IdleIsTold, Missed
<1> QED  BY <1>1, <1>2, <1>3, PTL DEF Spec

-----------------------------------------------------------------------------
(* The leases.  Unless the thread was blocked for too long, what a lease   *)
(* has left outlasts the wait for the heartbeat by all but one interval,   *)
(* as long as the run's key is its own.                                    *)

BeatRuns ==
  /\ beat # NoTimer => beat >= 0 /\ beat <= Every
  /\ inFlight # {} => beat # NoTimer

Leased ==
  \A c \in runs : c.job \notin rekeyed =>
    /\ current(c) /\ entries[c.job].until >= 1
    /\ beat > 0 => entries[c.job].until >= beat + VisibilityTimeout - Every
    /\ \A d \in runs : c.job = d.job => c = d

LInv == FInv /\ BeatRuns /\ (longest <= VisibilityTimeout - Every => Leased)

(* A heartbeat is at least one tick, and at least one tick short of a lease. *)
LEMMA EveryIsShort ==
  ASSUME VisibilityTimeout >= 2
  PROVE  Every \in Int /\ Every >= 1 /\ VisibilityTimeout - Every >= 1
<1>1. VisibilityTimeout \in Nat
  BY MemoryAssumption
<1>2. /\ VisibilityTimeout \div 3 \in Int
      /\ VisibilityTimeout \div 3 < VisibilityTimeout
  BY <1>1
<1> QED  BY <1>1, <1>2 DEF Every

(* The end of a run keeps the leases of the others. *)
LEMMA EndLeased ==
  ASSUME TypeOK, Leased, NEW c \in runs, runs' = runs \ {c}, beat' = beat, rekeyed' = rekeyed,
         \/ \E e : entries' = [entries EXCEPT ![c.job] = e]
         \/ entries' = entries
  PROVE  Leased'
<1>1. ASSUME NEW d \in runs', d.job \notin rekeyed'
      PROVE  entries'[d.job] = entries[d.job] /\ d \in runs
  <2>1. d \in runs /\ d.job # c.job /\ d.job \in Jobs
    BY <1>1 DEF Leased, TypeOK, Runs
  <2> QED  BY <2>1 DEF TypeOK
<1> QED  BY <1>1 DEF Leased, current

LEMMA LeaseStep == ASSUME VisibilityTimeout >= 2, LInv, [Next]_vars PROVE LInv'
<1>0. /\ TypeOK /\ BeatRuns /\ beat \in Int /\ NoTimer = -1 /\ longest \in Nat
      /\ \A c \in runs : c.job \notin rekeyed => Key(c) \in inFlight
  BY DEF LInv, FInv, Tracked, Inv, TypeOK, NoTimer
<1>1. /\ Every \in Int /\ Every >= 1 /\ VisibilityTimeout - Every >= 1
      /\ VisibilityTimeout \in Int
  BY EveryIsShort, MemoryAssumption
<1> DEFINE Fits == longest <= VisibilityTimeout - Every
<1>2. FInv'
  BY FiledStep DEF LInv
<1> SUFFICES BeatRuns' /\ (Fits' => Leased')
  BY <1>2 DEF LInv
<1>3. Fits => Leased
  BY DEF LInv
<1>4. ASSUME NEW j \in Jobs, NEW d \in Delays, enqueue(j, d) PROVE BeatRuns' /\ (Fits' => Leased')
  <2>1. UNCHANGED <<runs, inFlight, rekeyed, beat, longest>>
    BY <1>4 DEF enqueue
  <2>2. ASSUME Leased, NEW c \in runs, c.job \notin rekeyed PROVE entries'[c.job] = entries[c.job]
    <3>1. c.job \in Jobs /\ c.job # j
      BY <1>0, <1>4, <2>2 DEF Leased, current, enqueue, TypeOK, Runs
    <3> QED  BY <1>0, <1>4, <3>1 DEF enqueue, TypeOK
  <2>3. Leased => Leased'
    BY <2>1, <2>2 DEF Leased, current
  <2> QED  BY <1>0, <1>3, <2>1, <2>3 DEF BeatRuns
<1>5. ASSUME NEW S \in SUBSET Jobs, claim(S) PROVE BeatRuns' /\ (Fits' => Leased')
  <2> DEFINE New == {[job |-> j, attempt |-> entries[j].attempt + 1, stage |-> "handed"] : j \in S}
  <2>1. /\ runs' = runs \union New /\ longest' = longest
        /\ inFlight' = inFlight \union {Key(c) : c \in New}
        /\ rekeyed \subseteq rekeyed'
        /\ beat' = IF S # {} /\ beat = NoTimer THEN Every ELSE beat
    BY <1>5 DEF claim
  <2>2. BeatRuns'
    <3>1. inFlight' # {} => inFlight # {} \/ S # {}
      BY <2>1
    <3> QED  BY <1>0, <1>1, <2>1, <3>1 DEF BeatRuns
  <2>3. ASSUME Leased PROVE Leased'
    <3>1. \A c \in runs : c.job \notin rekeyed => c.job \in Jobs /\ c.job \notin S
      BY <1>0, <1>5, <2>3 DEF claim, Due, Leased, TypeOK, Runs, Entries
    <3>2. \A j \in Jobs :
            /\ j \in S => /\ entries'[j].state = "leased" /\ entries'[j].attempt = entries[j].attempt + 1
                          /\ entries'[j].until = VisibilityTimeout
            /\ j \notin S => entries'[j] = entries[j]
      BY <1>5 DEF claim, Entry
    <3>3. \A c \in New : c.job \in S /\ c.attempt = entries[c.job].attempt + 1
      OBVIOUS
    <3>4. \A c, d \in New : c.job = d.job => c = d
      OBVIOUS
    <3> HIDE DEF New
    <3>5. ASSUME NEW c \in runs', c.job \notin rekeyed'
          PROVE  /\ current(c)' /\ entries'[c.job].until >= 1
                 /\ beat' > 0 => entries'[c.job].until >= beat' + VisibilityTimeout - Every
      <4>1. CASE c \in runs
        <5>1. beat # NoTimer /\ c.job \notin rekeyed
          BY <1>0, <2>1, <3>5, <4>1 DEF BeatRuns
        <5>2. beat' = beat /\ entries'[c.job] = entries[c.job]
          BY <2>1, <3>1, <3>2, <4>1, <5>1
        <5> QED  BY <2>3, <4>1, <5>1, <5>2 DEF Leased, current
      <4>2. CASE c \in New
        <5>1. /\ entries'[c.job].state = "leased" /\ entries'[c.job].attempt = c.attempt
              /\ entries'[c.job].until = VisibilityTimeout
          BY <3>2, <3>3, <4>2
        <5>2. beat' \in Int /\ beat' <= Every
          BY <1>0, <1>1, <2>1 DEF BeatRuns
        <5>3. /\ VisibilityTimeout >= 1
              /\ VisibilityTimeout >= beat' + VisibilityTimeout - Every
          <6>1. \A b, e, v \in Int : b <= e => v >= b + v - e
            OBVIOUS
          <6>2. VisibilityTimeout >= beat' + VisibilityTimeout - Every
            BY <1>1, <5>2, <6>1
          <6>3. VisibilityTimeout >= 1
            BY <1>1
          <6> QED  BY <6>2, <6>3
        <5> QED  BY <5>1, <5>3 DEF current
      <4> QED  BY <2>1, <4>1, <4>2
    <3>6. ASSUME NEW c \in runs', NEW d \in runs', c.job \notin rekeyed', c.job = d.job
          PROVE  c = d
      BY <2>1, <2>3, <3>1, <3>3, <3>4, <3>6 DEF Leased
    <3> QED  BY <3>5, <3>6 DEF Leased
  <2> QED  BY <1>3, <2>1, <2>2, <2>3
<1>6. ASSUME heartbeat PROVE BeatRuns' /\ (Fits' => Leased')
  <2>1. /\ UNCHANGED <<runs, inFlight, rekeyed, longest>>
        /\ beat' = IF inFlight = {} THEN NoTimer ELSE Every
    BY <1>6 DEF heartbeat
  <2>2. BeatRuns'
    BY <1>1, <1>0, <2>1 DEF BeatRuns
  <2>3. ASSUME Leased PROVE Leased'
    <3>1. ASSUME NEW c \in runs, c.job \notin rekeyed
          PROVE  /\ current(c)' /\ entries'[c.job].until = VisibilityTimeout /\ beat' = Every
      <4>1. c.job \in Jobs /\ current(c) /\ inFlight # {}
        BY <1>0, <2>3, <3>1 DEF TypeOK, Runs, Leased
      <4>2. entries[c.job].state = "leased" /\ <<c.job, entries[c.job].attempt>> \in inFlight
        BY <1>0, <3>1, <4>1 DEF current, Key
      <4>3. entries'[c.job] = Entry("leased", entries[c.job].attempt, VisibilityTimeout)
        BY <1>6, <4>1, <4>2 DEF heartbeat
      <4> QED  BY <2>1, <4>1, <4>3 DEF Entry, current
    <3>2. VisibilityTimeout >= 1 /\ VisibilityTimeout >= Every + VisibilityTimeout - Every
      BY <1>1
    <3> QED  BY <2>1, <2>3, <3>1, <3>2 DEF Leased
  <2> QED  BY <1>3, <2>1, <2>2, <2>3
<1>7. ASSUME NEW c \in runs, Begin(c) PROVE BeatRuns' /\ (Fits' => Leased')
  <2>1. PICK e : e = [job |-> c.job, attempt |-> c.attempt, stage |-> "running"]
    OBVIOUS
  <2>2. /\ runs' = (runs \ {c}) \union {e}
        /\ UNCHANGED <<entries, inFlight, rekeyed, beat, longest>>
        /\ e.job = c.job /\ e.attempt = c.attempt
    BY <1>7, <2>1 DEF Begin
  <2>3. ASSUME Leased PROVE Leased'
    <3>1. \A d \in runs' : \E a \in runs : a.job = d.job /\ a.attempt = d.attempt
      BY <2>2
    <3>2. \A d \in runs' : d.job \notin rekeyed' =>
            /\ current(d)' /\ entries'[d.job].until >= 1
            /\ beat' > 0 => entries'[d.job].until >= beat' + VisibilityTimeout - Every
      BY <2>2, <2>3, <3>1 DEF Leased, current
    <3>3. \A a, b \in runs' : a.job \notin rekeyed' /\ a.job = b.job => a = b
      BY <2>2, <2>3 DEF Leased
    <3> QED  BY <3>2, <3>3 DEF Leased
  <2> QED  BY <1>0, <1>3, <2>2, <2>3 DEF BeatRuns
<1>8. ASSUME NEW c \in runs,
             complete(c) \/ \E d \in Delays : fail(c, d) \/ release(c, d)
      PROVE  BeatRuns' /\ (Fits' => Leased')
  <2>1. runs' = runs \ {c} /\ UNCHANGED <<inFlight, rekeyed, beat, longest>>
    BY <1>8 DEF complete, fail, release, reports
  <2>2. \/ \E e : entries' = [entries EXCEPT ![c.job] = e]
        \/ entries' = entries
    BY <1>8 DEF complete, fail, release
  <2>3. Leased => Leased'
    BY <1>0, <2>1, <2>2, EndLeased
  <2> QED  BY <1>0, <1>3, <2>1, <2>3 DEF BeatRuns
<1>9. ASSUME NEW n \in Nat, Passes(n), n >= 1, longest' \in Nat, longest' >= longest,
             n = 1 \/ longest' >= n
      PROVE  BeatRuns' /\ (Fits' => Leased')
  <2>1. UNCHANGED <<runs, inFlight, rekeyed>> /\ beat # 0 /\ beat' = Less(beat, n)
    BY <1>9 DEF Passes
  <2>2. BeatRuns'
    BY <1>0, <1>1, <1>9, <2>1 DEF BeatRuns, Less
  <2>3. ASSUME Fits' PROVE Leased'
    <3>1. Leased /\ n <= VisibilityTimeout - Every
      BY <1>0, <1>1, <1>3, <1>9, <2>3
    <3>2. ASSUME NEW c \in runs, c.job \notin rekeyed
          PROVE  /\ current(c)' /\ entries'[c.job].until >= 1
                 /\ beat' > 0 => entries'[c.job].until >= beat' + VisibilityTimeout - Every
      <4>1. /\ beat >= 1 /\ c.job \in Jobs /\ current(c) /\ entries[c.job].until \in Int
            /\ entries[c.job].until >= beat + VisibilityTimeout - Every
        BY <1>0, <2>1, <3>1, <3>2 DEF BeatRuns, Leased, TypeOK, Runs, Entries
      <4>2. Lower(entries[c.job].until, n) = entries[c.job].until - n /\ entries[c.job].until - n >= 1
        BY <1>0, <1>1, <3>1, <4>1, MemoryAssumption DEF Lower
      <4>3. /\ entries'[c.job].state = "leased" /\ entries'[c.job].attempt = entries[c.job].attempt
            /\ entries'[c.job].until = entries[c.job].until - n
        BY <1>9, <4>1, <4>2 DEF Passes, Live, current, Entry
      <4>4. beat' > 0 => beat' = beat - n
        BY <1>0, <1>9, <2>1, <4>1 DEF Less
      <4>5. beat' > 0 => entries'[c.job].until >= beat' + VisibilityTimeout - Every
        BY <1>0, <1>1, <4>1, <4>3, <4>4
      <4> QED  BY <4>1, <4>2, <4>3, <4>5 DEF current
    <3> QED  BY <2>1, <3>1, <3>2 DEF Leased
  <2> QED  BY <2>2, <2>3
<1>10. CASE Tick
  <2>1. 1 \in Nat /\ Passes(1) /\ longest' = longest
    BY <1>10 DEF Tick
  <2> QED  BY <1>0, <1>9, <2>1
<1>11. ASSUME NEW n \in Blocks, Block(n) PROVE BeatRuns' /\ (Fits' => Leased')
  <2>1. n \in Nat /\ n >= 1
    BY MemoryAssumption
  <2>2. Passes(n) /\ longest' \in Nat /\ longest' >= longest /\ longest' >= n
    BY <1>0, <1>11, <2>1 DEF Block
  <2> QED  BY <1>9, <2>1, <2>2
<1>12. CASE sleep \/ FireTimer \/ SettleSome \/ UNCHANGED vars
  <2>1. UNCHANGED <<runs, entries, rekeyed, beat, longest>> /\ inFlight' \subseteq inFlight
    BY <1>12 DEF sleep, FireTimer, SettleSome, Settles, vars
  <2> QED  BY <1>0, <1>3, <2>1 DEF BeatRuns, Leased, current
<1> QED
  BY <1>4, <1>5, <1>6, <1>7, <1>8, <1>10, <1>11, <1>12 DEF Next, claimSome, RunStep

(* A job is run twice at a time only after the thread was blocked for more *)
(* than the visibility timeout less one heartbeat interval, or it was      *)
(* claimed under a key that a run which gave its attempt back still had in *)
(* inFlight - for any timeout that is longer than a heartbeat. *)
THEOREM RunsDoNotOverlap == ASSUME VisibilityTimeout >= 2 PROVE Spec => []NoOverlap
<1>1. Init => LInv
  <2> SUFFICES ASSUME Init PROVE LInv
    OBVIOUS
  <2>1. FInv
    BY FiledInit
  <2>2. BeatRuns /\ Leased
    BY DEF Init, BeatRuns, Leased
  <2> QED  BY <2>1, <2>2 DEF LInv
<1>2. LInv /\ [Next]_vars => LInv'
  BY LeaseStep
<1>3. LInv => NoOverlap
  BY DEF LInv, Leased, NoOverlap
<1> QED  BY <1>1, <1>2, <1>3, PTL DEF Spec

-----------------------------------------------------------------------------
(* The contract.  tries counts attempts that were begun and not given      *)
(* back; each was another number, and none past the last.                  *)

(* A is the set of those numbers. *)
Begun(j, A) ==
  /\ A \subseteq 1 .. LastAttempt /\ tries[j] = Cardinality(A)
  /\ Live(entries[j]) => \A a \in A : a <= entries[j].attempt
  /\ \A c \in runs : c.job = j => (c.stage = "running" <=> c.attempt \in A)

Counted == \A j \in Jobs : \E A : Begun(j, A)

(* An attempt names one run, and no run is ahead of its entry. *)
Numbered ==
  /\ \A c, d \in runs : c.job = d.job /\ c.attempt = d.attempt => c = d
  /\ \A c \in runs :
       /\ entries[c.job].state # "none"
       /\ Live(entries[c.job]) => c.attempt <= entries[c.job].attempt
  /\ \A j \in Jobs : entries[j].state = "none" => tries[j] = 0

CInv == Inv /\ Numbered /\ Counted

(* Numbers up to the last attempt are finitely many. *)
LEMMA BegunFinite ==
  ASSUME NEW A, A \subseteq 1 .. LastAttempt
  PROVE  IsFiniteSet(A) /\ Cardinality(A) \in Nat /\ Cardinality(A) <= LastAttempt
<1>1. PICK n \in Nat : n = LastAttempt /\ n >= 1
  BY MemoryAssumption DEF LastAttempt
<1>2. IsFiniteSet(1 .. n) /\ Cardinality(1 .. n) = IF 1 > n THEN 0 ELSE n - 1 + 1
  BY FS_Interval
<1>3. Cardinality(1 .. n) = n
  BY <1>1, <1>2
<1>4. A \in SUBSET (1 .. n)
  BY <1>1
<1>5. IsFiniteSet(A) /\ Cardinality(A) <= n
  BY <1>2, <1>3, <1>4, FS_Subset
<1> QED
  BY <1>1, <1>5, FS_CardinalityType

(* A run that begins is one more, and the numbers still suffice. *)
LEMMA BegunMore ==
  ASSUME TypeOK, NEW c \in runs, NEW A, Begun(c.job, A), c.stage = "handed", MayRun(c)
  PROVE  /\ A \union {c.attempt} \subseteq 1 .. LastAttempt
         /\ tries[c.job] + 1 = Cardinality(A \union {c.attempt})
         /\ tries[c.job] < LastAttempt
<1>1. c.attempt \in Nat \ {0} /\ LastAttempt \in Nat
  BY EveryType DEF TypeOK, Runs
<1>2. c.attempt \notin A /\ A \subseteq 1 .. LastAttempt /\ tries[c.job] = Cardinality(A)
  BY DEF Begun
<1>3. c.attempt \in 1 .. LastAttempt
  BY <1>1 DEF MayRun
<1>4. A \union {c.attempt} \subseteq 1 .. LastAttempt
  BY <1>2, <1>3
<1>5. IsFiniteSet(A) /\ Cardinality(A) \in Nat
  BY <1>2, BegunFinite
<1>6. Cardinality(A \union {c.attempt}) = Cardinality(A) + 1
  BY <1>2, <1>5, FS_AddElement
<1>7. Cardinality(A \union {c.attempt}) <= LastAttempt
  BY <1>4, BegunFinite
<1> QED  BY <1>1, <1>2, <1>4, <1>5, <1>6, <1>7

(* A run that began and gives its attempt back is one fewer. *)
LEMMA BegunFewer ==
  ASSUME NEW c \in runs, NEW A, Begun(c.job, A), c.stage = "running"
  PROVE  /\ tries[c.job] - 1 = Cardinality(A \ {c.attempt})
         /\ tries[c.job] > 0
<1>1. c.attempt \in A /\ A \subseteq 1 .. LastAttempt /\ tries[c.job] = Cardinality(A)
  BY DEF Begun
<1>2. IsFiniteSet(A) /\ Cardinality(A) \in Nat
  BY <1>1, BegunFinite
<1>3. Cardinality(A \ {c.attempt}) = Cardinality(A) - 1
  BY <1>1, <1>2, FS_RemoveElement
<1>4. Cardinality(A) # 0
  BY <1>1, <1>2, FS_EmptySet
<1> QED  BY <1>1, <1>2, <1>3, <1>4

(* A heartbeat moves no more than the ends of leases. *)
LEMMA HeartbeatKeeps ==
  ASSUME heartbeat, NEW j \in Jobs
  PROVE  entries'[j].state = entries[j].state /\ entries'[j].attempt = entries[j].attempt
<1>1. CASE inFlight = {}
  BY <1>1 DEF heartbeat
<1>2. CASE inFlight # {}
  <2>1. entries'[j] = IF entries[j].state = "leased" /\ <<j, entries[j].attempt>> \in inFlight
                      THEN Entry("leased", entries[j].attempt, VisibilityTimeout)
                      ELSE entries[j]
    BY <1>2 DEF heartbeat
  <2> QED  BY <2>1 DEF Entry
<1> QED  BY <1>1, <1>2

(* Where a job's claims only leave, and its entry's attempts do not go     *)
(* back, its numbers stay. *)
LEMMA BegunStays ==
  ASSUME TypeOK, TypeOK', NEW j \in Jobs, NEW A, Begun(j, A), tries'[j] = tries[j],
         Live(entries'[j]) => Live(entries[j]) /\ entries[j].attempt <= entries'[j].attempt,
         \A c \in runs' : c.job = j => c \in runs \/ (c.stage = "handed" /\ c.attempt \notin A)
  PROVE  Begun(j, A)'
<1>1. A \subseteq 1 .. LastAttempt /\ LastAttempt \in Nat
  BY EveryType DEF Begun
<1>2. \A a \in A : a \in Int
  BY <1>1
<1>3. entries[j].attempt \in Int /\ entries'[j].attempt \in Int
  BY DEF TypeOK, Entries
<1>4. Live(entries'[j]) => \A a \in A : a <= entries'[j].attempt
  <2> SUFFICES ASSUME Live(entries'[j]), NEW a \in A PROVE a <= entries'[j].attempt
    OBVIOUS
  <2>1. a <= entries[j].attempt /\ entries[j].attempt <= entries'[j].attempt
    BY DEF Begun
  <2> QED  BY <1>2, <1>3, <2>1
<1>5. \A c \in runs' : c.job = j => (c.stage = "running" <=> c.attempt \in A)
  BY DEF Begun
<1> QED  BY <1>4, <1>5 DEF Begun

LEMMA CountInit == Init => CInv
<1> SUFFICES ASSUME Init PROVE CInv
  OBVIOUS
<1>1. Inv
  BY InitInv
<1>2. Numbered
  BY DEF Init, Numbered, Entry
<1>3. \A j \in Jobs : Begun(j, {})
  BY FS_EmptySet DEF Init, Begun, Entry, Live
<1> QED  BY <1>1, <1>2, <1>3 DEF CInv, Counted

(* What a report leaves of the other runs. *)
LEMMA EndNumbered ==
  ASSUME TypeOK, Numbered, NEW c \in runs, runs' = runs \ {c},
         \/ entries' = entries
         \/ /\ current(c)
            /\ \E e : /\ entries' = [entries EXCEPT ![c.job] = e]
                      /\ e.state # "none"
                      /\ Live(e) => e.attempt >= c.attempt - 1 /\ e.attempt \in Nat,
         \A j \in Jobs : tries'[j] = tries[j] \/ entries[j].state = "leased"
  PROVE  Numbered'
<1>1. \A d, e \in runs' : d.job = e.job /\ d.attempt = e.attempt => d = e
  BY DEF Numbered
<1>2. \A d \in runs : d.job \in Jobs /\ d.attempt \in Nat
  BY DEF TypeOK, Runs
<1>3. ASSUME NEW d \in runs'
      PROVE  /\ entries'[d.job].state # "none"
             /\ Live(entries'[d.job]) => d.attempt <= entries'[d.job].attempt
  <2>1. d \in runs /\ d # c
    BY <1>3
  <2>2. CASE entries'[d.job] = entries[d.job]
    BY <2>1, <2>2 DEF Numbered
  <2>3. CASE entries'[d.job] # entries[d.job]
    <3>1. /\ d.job = c.job /\ current(c)
          /\ entries'[c.job].state # "none"
          /\ Live(entries'[c.job]) => /\ entries'[c.job].attempt >= c.attempt - 1
                                      /\ entries'[c.job].attempt \in Nat
      BY <1>2, <2>1, <2>3 DEF TypeOK
    <3>2. d.attempt <= c.attempt
      BY <2>1, <3>1 DEF Numbered, current, Live
    <3>3. d.attempt # c.attempt
      BY <2>1, <3>1 DEF Numbered
    <3> QED  BY <1>2, <2>1, <3>1, <3>2, <3>3
  <2> QED  BY <2>2, <2>3
<1>4. ASSUME NEW j \in Jobs, entries'[j].state = "none" PROVE tries'[j] = 0
  <2>1. entries'[j] = entries[j]
    BY <1>2, <1>4 DEF TypeOK
  <2> QED  BY <1>4, <2>1 DEF Numbered
<1> QED  BY <1>1, <1>3, <1>4 DEF Numbered

LEMMA CountStep == ASSUME CInv, [Next]_vars PROVE CInv'
<1>0. TypeOK /\ TypeOK' /\ Inv' /\ Numbered /\ Counted
  BY NextInv DEF CInv, Inv
<1> SUFFICES Numbered' /\ Counted'
  BY <1>0 DEF CInv
<1>1. \A c \in runs : c.job \in Jobs /\ c.attempt \in Nat
  BY <1>0 DEF TypeOK, Runs
<1>2. \A j \in Jobs : entries[j].attempt \in Nat
  BY <1>0 DEF TypeOK, Entries
<1>3. ASSUME NEW k \in Jobs, NEW d \in Delays, enqueue(k, d) PROVE Numbered' /\ Counted'
  <2>1. /\ runs' = runs /\ tries' = tries /\ entries[k].state = "none" /\ entries'[k].state = "waiting"
        /\ entries'[k].attempt = 0 /\ \A j \in Jobs : j # k => entries'[j] = entries[j]
    BY <1>0, <1>3 DEF enqueue, TypeOK, Entry
  <2>2. \A c \in runs : c.job # k
    BY <1>0, <2>1 DEF Numbered
  <2>3. Numbered'
    BY <1>0, <1>1, <2>1, <2>2 DEF Numbered
  <2>4. Begun(k, {})'
    BY <1>0, <2>1, <2>2, FS_EmptySet DEF Begun, Numbered
  <2>5. \A j \in Jobs : \A A : j # k /\ Begun(j, A) => Begun(j, A)'
    BY <2>1 DEF Begun
  <2> QED  BY <1>0, <2>3, <2>4, <2>5 DEF Counted
<1>4. ASSUME NEW S \in SUBSET Jobs, claim(S) PROVE Numbered' /\ Counted'
  <2> DEFINE New == {[job |-> j, attempt |-> entries[j].attempt + 1, stage |-> "handed"] : j \in S}
  <2>1. runs' = runs \union New /\ tries' = tries
    BY <1>4 DEF claim
  <2>2. \A j \in Jobs :
          /\ j \in S => /\ Live(entries[j]) /\ entries'[j].state = "leased"
                        /\ entries'[j].attempt = entries[j].attempt + 1
          /\ j \notin S => entries'[j] = entries[j]
    BY <1>4 DEF claim, Entry, Due
  <2>3. \A c \in New : c.job \in S /\ c.attempt = entries[c.job].attempt + 1 /\ c.stage = "handed"
    OBVIOUS
  <2>4. \A c, d \in New : c.job = d.job => c = d
    OBVIOUS
  <2> HIDE DEF New
  <2>5. \A c \in runs, d \in New : c.job = d.job => c.attempt < d.attempt
    BY <1>0, <1>1, <1>2, <2>2, <2>3 DEF Numbered
  <2>6. Numbered'
    <3>1. \A c, d \in runs' : c.job = d.job /\ c.attempt = d.attempt => c = d
      BY <1>0, <1>1, <1>2, <2>1, <2>3, <2>4, <2>5 DEF Numbered
    <3>2. ASSUME NEW c \in runs'
          PROVE  /\ entries'[c.job].state # "none"
                 /\ Live(entries'[c.job]) => c.attempt <= entries'[c.job].attempt
      <4>1. CASE c \in runs /\ c.job \notin S
        BY <1>0, <1>1, <2>2, <4>1 DEF Numbered
      <4>2. CASE c \in runs /\ c.job \in S
        BY <1>0, <1>1, <1>2, <2>2, <4>2 DEF Numbered
      <4>3. CASE c \in New
        BY <1>2, <2>2, <2>3, <4>3
      <4> QED  BY <2>1, <4>1, <4>2, <4>3
    <3>3. \A j \in Jobs : entries'[j].state = "none" => tries'[j] = 0
      BY <1>0, <2>1, <2>2 DEF Numbered
    <3> QED  BY <3>1, <3>2, <3>3 DEF Numbered
  <2>7. ASSUME NEW j \in Jobs, NEW A, Begun(j, A) PROVE Begun(j, A)'
    <3>1. \A a \in A : a \in Int
      <4>1. A \subseteq 1 .. LastAttempt /\ LastAttempt \in Nat
        BY <2>7, EveryType DEF Begun
      <4> QED  BY <4>1
    <3>2. \A c \in New : c.job = j => c.attempt \notin A
      BY <1>2, <2>2, <2>3, <2>7, <3>1 DEF Begun
    <3>3. Live(entries'[j]) => Live(entries[j]) /\ entries[j].attempt <= entries'[j].attempt
      BY <1>2, <2>2
    <3>4. \A c \in runs' : c.job = j => c \in runs \/ (c.stage = "handed" /\ c.attempt \notin A)
      BY <2>1, <2>3, <3>2
    <3> QED  BY <1>0, <2>1, <2>7, <3>3, <3>4, BegunStays
  <2> QED  BY <1>0, <2>6, <2>7 DEF Counted
<1>5. ASSUME NEW c \in runs, Begin(c) PROVE Numbered' /\ Counted'
  <2>1. PICK e : e = [job |-> c.job, attempt |-> c.attempt, stage |-> "running"]
    OBVIOUS
  <2>2. /\ runs' = (runs \ {c}) \union {e} /\ entries' = entries
        /\ e.job = c.job /\ e.attempt = c.attempt /\ e.stage = "running"
        /\ \A j \in Jobs : tries'[j] = IF j = c.job THEN tries[j] + 1 ELSE tries[j]
    BY <1>0, <1>5, <2>1 DEF Begin, TypeOK
  <2>3. Numbered'
    <3>1. \A a, b \in runs' : a.job = b.job /\ a.attempt = b.attempt => a = b
      BY <1>0, <2>2 DEF Numbered
    <3>2. \A d \in runs' : \E a \in runs : a.job = d.job /\ a.attempt = d.attempt
      BY <2>2
    <3>3. \A d \in runs' : /\ entries'[d.job].state # "none"
                           /\ Live(entries'[d.job]) => d.attempt <= entries'[d.job].attempt
      BY <1>0, <2>2, <3>2 DEF Numbered
    <3>4. \A j \in Jobs : entries'[j].state = "none" => tries'[j] = 0
      BY <1>0, <1>1, <2>2 DEF Numbered
    <3> QED  BY <3>1, <3>3, <3>4 DEF Numbered
  <2>4. PICK A : Begun(c.job, A)
    BY <1>0, <1>1 DEF Counted
  <2>5. /\ A \union {c.attempt} \subseteq 1 .. LastAttempt
        /\ tries[c.job] + 1 = Cardinality(A \union {c.attempt})
    BY <1>0, <1>5, <2>4, BegunMore DEF Begin
  <2>6. Begun(c.job, A \union {c.attempt})'
    <3>1. Live(entries'[c.job]) => \A a \in A \union {c.attempt} : a <= entries'[c.job].attempt
      BY <1>0, <2>2, <2>4 DEF Begun, Numbered
    <3>2. ASSUME NEW d \in runs', d.job = c.job
          PROVE  d.stage = "running" <=> d.attempt \in A \union {c.attempt}
      <4>1. CASE d = e
        BY <2>2, <4>1
      <4>2. CASE d \in runs /\ d # c
        <5>1. d.attempt # c.attempt
          BY <1>0, <3>2, <4>2 DEF Numbered
        <5> QED  BY <2>4, <3>2, <4>2, <5>1 DEF Begun
      <4> QED  BY <2>2, <4>1, <4>2
    <3>3. tries'[c.job] = Cardinality(A \union {c.attempt})
      BY <1>1, <2>2, <2>5
    <3> QED  BY <2>5, <3>1, <3>2, <3>3 DEF Begun
  <2>7. \A j \in Jobs : \A B : j # c.job /\ Begun(j, B) => Begun(j, B)'
    BY <2>2 DEF Begun
  <2> QED  BY <1>0, <2>3, <2>6, <2>7 DEF Counted
<1>6. ASSUME NEW c \in runs, complete(c) \/ \E d \in Delays : fail(c, d) PROVE Numbered' /\ Counted'
  <2>1. runs' = runs \ {c} /\ tries' = tries
    BY <1>6 DEF complete, fail, reports
  <2>2. \/ entries' = entries
        \/ current(c) /\ \E e : /\ entries' = [entries EXCEPT ![c.job] = e]
                                /\ e.state # "none" /\ (Live(e) => e.attempt = c.attempt)
    <3>1. /\ Entry("gone", 0, 0).state # "none" /\ ~Live(Entry("gone", 0, 0))
          /\ \A d : /\ Entry("waiting", c.attempt, d).state # "none"
                   /\ Entry("waiting", c.attempt, d).attempt = c.attempt
      BY DEF Entry, Live
    <3>2. \/ entries' = entries
          \/ current(c) /\ entries' = [entries EXCEPT ![c.job] = Entry("gone", 0, 0)]
          \/ current(c) /\ \E d : entries' = [entries EXCEPT ![c.job] = Entry("waiting", c.attempt, d)]
      BY <1>6 DEF complete, fail
    <3> QED  BY <3>1, <3>2
  <2>3. Numbered'
    BY <1>0, <1>1, <2>1, <2>2, EndNumbered
  <2>4. ASSUME NEW j \in Jobs, NEW A, Begun(j, A) PROVE Begun(j, A)'
    <3>1. Live(entries'[j]) => Live(entries[j]) /\ entries[j].attempt <= entries'[j].attempt
      BY <1>0, <1>1, <1>2, <2>2 DEF TypeOK, current, Live
    <3> QED  BY <1>0, <2>1, <2>4, <3>1, BegunStays
  <2> QED  BY <1>0, <2>3, <2>4 DEF Counted
<1>7. ASSUME NEW c \in runs, NEW d \in Delays, release(c, d) PROVE Numbered' /\ Counted'
  <2>1. runs' = runs \ {c} /\ c.stage = "running"
    BY <1>7 DEF release, reports
  <2>2. CASE ~current(c)
    <3>1. entries' = entries /\ tries' = tries
      BY <1>7, <2>2 DEF release
    <3>2. Numbered'
      BY <1>0, <2>1, <3>1, EndNumbered
    <3>3. \A j \in Jobs : \A A : Begun(j, A) => Begun(j, A)'
      BY <2>1, <3>1 DEF Begun
    <3> QED  BY <1>0, <3>2, <3>3 DEF Counted
  <2>3. CASE current(c)
    <3>1. /\ entries' = [entries EXCEPT ![c.job] = Entry("waiting", c.attempt - 1, d)]
          /\ \A j \in Jobs : tries'[j] = IF j = c.job THEN tries[j] - 1 ELSE tries[j]
      BY <1>0, <1>7, <2>3 DEF release, Refunded, TypeOK
    <3>2. /\ entries'[c.job].state = "waiting" /\ entries'[c.job].attempt = c.attempt - 1
          /\ entries'[c.job].attempt \in Nat /\ entries[c.job].state = "leased"
          /\ \A j \in Jobs : j # c.job => entries'[j] = entries[j]
      BY <1>0, <1>1, <2>3, <3>1 DEF TypeOK, Entries, Entry, current
    <3>3. Numbered'
      <4>1. \E e : /\ entries' = [entries EXCEPT ![c.job] = e]
                   /\ e.state # "none"
                   /\ Live(e) => e.attempt >= c.attempt - 1 /\ e.attempt \in Nat
        <5>1. /\ Entry("waiting", c.attempt - 1, d).state # "none"
              /\ Entry("waiting", c.attempt - 1, d).attempt = c.attempt - 1
          BY DEF Entry
        <5>2. c.attempt - 1 \in Nat /\ c.attempt - 1 >= c.attempt - 1
          BY <1>0 DEF TypeOK, Runs
        <5> QED  BY <3>1, <5>1, <5>2
      <4>2. \A j \in Jobs : tries'[j] = tries[j] \/ entries[j].state = "leased"
        BY <3>1, <3>2
      <4> QED  BY <1>0, <1>1, <2>1, <2>3, <4>1, <4>2, EndNumbered
    <3>4. PICK A : Begun(c.job, A)
      BY <1>0, <1>1 DEF Counted
    <3>5. Begun(c.job, A \ {c.attempt})'
      <4>1. tries'[c.job] = Cardinality(A \ {c.attempt})
        BY <1>1, <2>1, <3>1, <3>4, BegunFewer
      <4>2. A \subseteq 1 .. LastAttempt /\ LastAttempt \in Nat
        BY <3>4, EveryType DEF Begun
      <4>3. \A a \in A : a <= c.attempt /\ a \in Int
        BY <2>3, <3>4, <4>2 DEF Begun, current, Live
      <4>4. \A a \in A \ {c.attempt} : a <= entries'[c.job].attempt
        BY <1>1, <3>2, <4>3
      <4>5. ASSUME NEW e \in runs', e.job = c.job
            PROVE  e.stage = "running" <=> e.attempt \in A \ {c.attempt}
        <5>1. e \in runs /\ e.attempt # c.attempt
          BY <1>0, <2>1, <4>5 DEF Numbered
        <5> QED  BY <3>4, <4>5, <5>1 DEF Begun
      <4> QED  BY <4>1, <4>2, <4>4, <4>5 DEF Begun
    <3>6. \A j \in Jobs : \A B : j # c.job /\ Begun(j, B) => Begun(j, B)'
      BY <2>1, <3>1, <3>2 DEF Begun
    <3> QED  BY <1>0, <3>3, <3>5, <3>6 DEF Counted
  <2> QED  BY <2>2, <2>3
<1>8. ASSUME \/ sleep \/ heartbeat \/ FireTimer \/ SettleSome \/ UNCHANGED vars
             \/ \E n \in Nat : Passes(n)
      PROVE  Numbered' /\ Counted'
  <2>1. runs' = runs /\ tries' = tries
    BY <1>8 DEF sleep, heartbeat, FireTimer, SettleSome, Settles, vars, Passes
  <2>2. \A j \in Jobs : entries'[j].state = entries[j].state /\ entries'[j].attempt = entries[j].attempt
    <3>1. ASSUME heartbeat, NEW j \in Jobs
          PROVE  entries'[j].state = entries[j].state /\ entries'[j].attempt = entries[j].attempt
      BY <3>1, HeartbeatKeeps
    <3>2. ASSUME NEW n \in Nat, Passes(n), NEW j \in Jobs
          PROVE  entries'[j].state = entries[j].state /\ entries'[j].attempt = entries[j].attempt
      BY <3>2 DEF Passes, Entry
    <3>3. CASE UNCHANGED entries
      BY <3>3
    <3> QED  BY <1>8, <3>1, <3>2, <3>3 DEF sleep, FireTimer, SettleSome, Settles, vars
  <2>3. \A j \in Jobs : Live(entries'[j]) <=> Live(entries[j])
    BY <2>2 DEF Live
  <2>4. Numbered'
    BY <1>0, <1>1, <2>1, <2>2, <2>3 DEF Numbered
  <2>5. \A j \in Jobs : \A A : Begun(j, A) => Begun(j, A)'
    BY <2>1, <2>2, <2>3 DEF Begun
  <2> QED  BY <1>0, <2>4, <2>5 DEF Counted
<1>9. Tick \/ (\E n \in Blocks : Block(n)) => \E n \in Nat : Passes(n)
  BY MemoryAssumption DEF Tick, Block
<1> QED
  BY <1>3, <1>4, <1>5, <1>6, <1>7, <1>8, <1>9 DEF Next, claimSome, RunStep

Become(j, ph, h, n) == Phase(j)' = ph /\ HolderOf(j)' = h /\ tries'[j] = n

(* The contract's steps of one job, in the words of this module. *)
Moves(j) ==
  \/ Phase(j) = "none" /\ Become(j, "waiting", Nobody, 0)
  \/ Phase(j) \in {"waiting", "held"} /\ Become(j, "held", Here, tries[j])
  \/ Phase(j) # "none" /\ tries[j] < LastAttempt /\ Become(j, Phase(j), HolderOf(j), tries[j] + 1)
  \/ /\ Phase(j) = "held" /\ HolderOf(j) = Here
     /\ \/ \E ph \in {"waiting", "gone"} : Become(j, ph, Nobody, tries[j])
        \/ tries[j] > 0 /\ Become(j, "waiting", Nobody, tries[j] - 1)
  \/ Become(j, Phase(j), HolderOf(j), tries[j])

LEMMA MovesAreSteps ==
  ASSUME \A j \in Jobs : Moves(j)
  PROVE  Contract!Next
<1> SUFFICES ASSUME NEW j \in Jobs
             PROVE  Contract!Step(j) \/ Contract!Becomes(j, Phase(j), HolderOf(j), tries[j])
  BY DEF Contract!Next
<1>1. \A ph, h, n : Contract!Becomes(j, ph, h, n) <=> Become(j, ph, h, n)
  BY DEF Contract!Becomes, Become
<1>2. Moves(j)
  OBVIOUS
<1> QED
  BY <1>1, <1>2 DEF Moves, Contract!Step, Contract!Dispatch, Contract!Take, Contract!Run,
              Contract!Decide

(* A job stays as it is when neither its entry's lease nor the runs that   *)
(* hold it change. *)
LEMMA QuietMove ==
  ASSUME NEW j \in Jobs,
         entries'[j].state = entries[j].state, entries'[j].attempt = entries[j].attempt,
         (\E c \in runs : c.job = j /\ current(c)) <=> (\E c \in runs' : c.job = j /\ current(c))
  PROVE  Phase(j)' = Phase(j) /\ HolderOf(j)' = HolderOf(j)
<1>1. \A c : c.job = j => (current(c) <=> current(c)')
  BY DEF current
<1>2. (\E c \in runs : c.job = j /\ current(c)) <=> (\E c \in runs' : c.job = j /\ current(c)')
  BY <1>1
<1> QED  BY <1>2 DEF Phase, HolderOf

(* An entry that is not leased has no holder. *)
LEMMA Unheld ==
  ASSUME NEW j \in Jobs, entries'[j].state # "leased"
  PROVE  HolderOf(j)' = Nobody
BY DEF HolderOf, current

(* The report of a run that still has its entry decides; another's changes *)
(* nothing. *)
LEMMA ReportMove ==
  ASSUME TypeOK, NEW j \in Jobs, NEW c \in runs, runs' = runs \ {c},
         IF current(c)
         THEN \E e : entries' = [entries EXCEPT ![c.job] = e] /\ e.state \in {"waiting", "gone"}
         ELSE entries' = entries,
         \/ tries'[j] = tries[j]
         \/ /\ c.job = j /\ current(c) /\ entries'[j].state = "waiting"
            /\ tries[j] > 0 /\ tries'[j] = tries[j] - 1
  PROVE  Moves(j)
<1>1. CASE c.job = j /\ current(c)
  <2>1. entries'[j].state \in {"waiting", "gone"}
    BY <1>1 DEF TypeOK
  <2>2. HolderOf(j)' = Nobody /\ Phase(j)' = entries'[j].state
    BY <2>1, Unheld DEF Phase
  <2>3. Phase(j) = "held" /\ HolderOf(j) = Here
    BY <1>1 DEF Phase, HolderOf, current
  <2> QED  BY <2>1, <2>2, <2>3 DEF Moves, Become
<1>2. CASE ~(c.job = j /\ current(c))
  <2>1. entries'[j] = entries[j] /\ tries'[j] = tries[j]
    BY <1>2 DEF TypeOK
  <2>2. (\E d \in runs : d.job = j /\ current(d)) <=> (\E d \in runs' : d.job = j /\ current(d))
    BY <1>2
  <2>3. Phase(j)' = Phase(j) /\ HolderOf(j)' = HolderOf(j)
    BY <2>1, <2>2, QuietMove
  <2> QED  BY <2>1, <2>3 DEF Moves, Become
<1> QED  BY <1>1, <1>2

LEMMA NextMoves ==
  ASSUME CInv, Next, NEW j \in Jobs
  PROVE  Moves(j)
<1>0. TypeOK /\ Numbered /\ Counted
  BY DEF CInv, Inv
<1>1. ASSUME NEW k \in Jobs, NEW d \in Delays, enqueue(k, d) PROVE Moves(j)
  <2>1. runs' = runs /\ tries' = tries
    BY <1>1 DEF enqueue
  <2>2. CASE k = j
    <3>1. entries[j].state = "none" /\ entries'[j].state = "waiting" /\ tries'[j] = 0
      BY <1>0, <1>1, <2>1, <2>2 DEF enqueue, TypeOK, Entry, Numbered
    <3> QED  BY <3>1, Unheld DEF Moves, Become, Phase
  <2>3. CASE k # j
    BY <1>0, <1>1, <2>1, <2>3, QuietMove DEF enqueue, TypeOK, Moves, Become
  <2> QED  BY <2>2, <2>3
<1>2. ASSUME NEW S \in SUBSET Jobs, claim(S) PROVE Moves(j)
  <2> DEFINE New == {[job |-> i, attempt |-> entries[i].attempt + 1, stage |-> "handed"] : i \in S}
  <2>1. runs' = runs \union New /\ tries' = tries
    BY <1>2 DEF claim
  <2>2. CASE j \in S
    <3>1. /\ entries[j].state \in {"waiting", "leased"} /\ entries'[j].state = "leased"
          /\ entries'[j].attempt = entries[j].attempt + 1
      BY <1>2, <2>2 DEF claim, Due, Live, Entry
    <3>2. PICK c : c = [job |-> j, attempt |-> entries[j].attempt + 1, stage |-> "handed"]
      OBVIOUS
    <3>3. c \in runs' /\ c.job = j /\ c.attempt = entries[j].attempt + 1
      <4>1. c \in New
        BY <2>2, <3>2
      <4> HIDE DEF New
      <4> QED  BY <2>1, <3>2, <4>1
    <3>4. \E d \in runs' : d.job = j /\ current(d)'
      BY <3>1, <3>3 DEF current
    <3> QED  BY <2>1, <3>1, <3>4 DEF Moves, Become, Phase, HolderOf
  <2>3. CASE j \notin S
    <3>1. entries'[j] = entries[j]
      BY <1>2, <2>3 DEF claim
    <3>2. \A c : c.job = j => (c \in runs' <=> c \in runs)
      BY <2>1, <2>3
    <3>3. Phase(j)' = Phase(j) /\ HolderOf(j)' = HolderOf(j)
      BY <3>1, <3>2, QuietMove
    <3> QED  BY <2>1, <3>3 DEF Moves, Become
  <2> QED  BY <2>2, <2>3
<1>3. ASSUME NEW c \in runs, Begin(c) PROVE Moves(j)
  <2>1. PICK e : e = [job |-> c.job, attempt |-> c.attempt, stage |-> "running"]
    OBVIOUS
  <2>2. /\ runs' = (runs \ {c}) \union {e} /\ entries' = entries
        /\ e.job = c.job /\ (current(e) <=> current(c))
        /\ \A i \in Jobs : tries'[i] = IF i = c.job THEN tries[i] + 1 ELSE tries[i]
    BY <1>0, <1>3, <2>1 DEF Begin, TypeOK, current
  <2>3. (\E d \in runs : d.job = j /\ current(d)) <=> (\E d \in runs' : d.job = j /\ current(d))
    BY <2>2
  <2>4. Phase(j)' = Phase(j) /\ HolderOf(j)' = HolderOf(j)
    BY <2>2, <2>3, QuietMove
  <2>5. CASE c.job # j
    BY <2>2, <2>4, <2>5 DEF Moves, Become
  <2>6. CASE c.job = j
    <3>1. tries[j] < LastAttempt
      BY <1>0, <1>3, <2>6, BegunMore DEF Counted, Begin
    <3>2. Phase(j) # "none"
      BY <1>0, <2>6 DEF Numbered, Phase
    <3> QED  BY <2>2, <2>4, <2>6, <3>1, <3>2 DEF Moves, Become
  <2> QED  BY <2>5, <2>6
<1>4. ASSUME NEW c \in runs, complete(c) PROVE Moves(j)
  BY <1>0, <1>4, ReportMove DEF complete, reports, Entry
<1>5. ASSUME NEW c \in runs, NEW d \in Delays, fail(c, d) PROVE Moves(j)
  BY <1>0, <1>5, ReportMove DEF fail, reports, Entry
<1>6. ASSUME NEW c \in runs, NEW d \in Delays, release(c, d) PROVE Moves(j)
  <2>1. /\ runs' = runs \ {c} /\ c.stage = "running"
        /\ IF current(c)
           THEN /\ entries' = [entries EXCEPT ![c.job] = Entry("waiting", Refunded(c), d)]
                /\ tries' = [tries EXCEPT ![c.job] = @ - 1]
           ELSE entries' = entries /\ tries' = tries
    BY <1>6 DEF release, reports
  <2>2. Entry("waiting", Refunded(c), d).state = "waiting"
    BY DEF Entry
  <2>3. IF current(c)
        THEN \E e : entries' = [entries EXCEPT ![c.job] = e] /\ e.state \in {"waiting", "gone"}
        ELSE entries' = entries
    BY <2>1, <2>2
  <2>4. tries'[j] = tries[j] \/ (c.job = j /\ current(c) /\ tries'[j] = tries[j] - 1)
    BY <1>0, <2>1 DEF TypeOK
  <2>5. c.job = j => tries[j] > 0
    BY <1>0, <2>1, BegunFewer DEF Counted
  <2>6. c.job = j /\ current(c) => entries'[j].state = "waiting"
    BY <1>0, <2>1, <2>2 DEF TypeOK
  <2> QED  BY <1>0, <2>1, <2>3, <2>4, <2>5, <2>6, ReportMove
<1>7. ASSUME sleep \/ heartbeat \/ FireTimer \/ SettleSome \/ \E n : Passes(n) PROVE Moves(j)
  <2>1. runs' = runs /\ tries' = tries
    BY <1>7 DEF sleep, heartbeat, FireTimer, SettleSome, Settles, Passes
  <2>2. entries'[j].state = entries[j].state /\ entries'[j].attempt = entries[j].attempt
    <3>1. CASE heartbeat
      BY <3>1, HeartbeatKeeps
    <3>2. CASE \E n : Passes(n)
      BY <3>2 DEF Passes, Entry
    <3>3. CASE sleep \/ FireTimer \/ SettleSome
      BY <3>3 DEF sleep, FireTimer, SettleSome, Settles
    <3> QED  BY <1>7, <3>1, <3>2, <3>3
  <2>3. Phase(j)' = Phase(j) /\ HolderOf(j)' = HolderOf(j)
    BY <2>1, <2>2, QuietMove
  <2> QED  BY <2>1, <2>3 DEF Moves, Become
<1> QED
  BY <1>1, <1>2, <1>3, <1>4, <1>5, <1>6, <1>7 DEF Next, claimSome, RunStep, Tick, Block

(* The memory driver keeps the contract the database keeps, for any jobs,  *)
(* slots, delays and blocked moments: each of its steps is, job by job, a  *)
(* step of the contract or none. *)
THEOREM ContractKept == Spec => KeepsContract
<1>1. Init => Contract!Init
  <2> SUFFICES ASSUME Init, NEW j \in Jobs
               PROVE  Phase(j) = "none" /\ HolderOf(j) = Nobody /\ tries[j] = 0
    BY DEF Contract!Init, Contract!Start, Contract!Is
  <2> QED  BY DEF Init, Phase, HolderOf, Entry
<1>2. Init => CInv
  BY CountInit
<1>3. CInv /\ [Next]_vars => CInv'
  BY CountStep
<1>4. CInv /\ [Next]_vars
        => [Contract!Next]_<<[j \in Jobs |-> Phase(j)], [j \in Jobs |-> HolderOf(j)], tries>>
  <2>1. CASE UNCHANGED vars
    BY <2>1 DEF vars, Phase, HolderOf, current
  <2>2. ASSUME CInv, Next PROVE Contract!Next
    BY <2>2, NextMoves, MovesAreSteps
  <2> QED  BY <2>1, <2>2
<1> QED
  BY <1>1, <1>2, <1>3, <1>4, PTL DEF Spec, KeepsContract, Contract!Spec

=============================================================================
