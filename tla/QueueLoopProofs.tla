--------------------------- MODULE QueueLoopProofs ---------------------------
(***************************************************************************)
(* The claim loop keeps count: for any number of jobs and of slots, with   *)
(* claims that reject, leases that lapse under a run, wakes, starts and    *)
(* drains in any order, every run is in inFlight, no more run than there   *)
(* are slots, and a drain that has resolved leaves nothing behind.         *)
(*                                                                         *)
(* Where a run may give its attempt back only the type invariant and the   *)
(* bound of inFlight hold: its key comes again while it is still kept.     *)
(***************************************************************************)
EXTENDS QueueLoop, FiniteSetTheorems, TLAPS

(* A job that can be claimed has an attempt left, and one that was never   *)
(* dispatched has made none. *)
Attempts ==
  \A j \in Jobs :
    /\ entry[j].at \in {"waiting", "due", "lapsed"} => entry[j].attempt < MaxAttempts
    /\ entry[j].at = "none" => entry[j].attempt = 0

TypeInv == TypeOK /\ Attempts

(* There are finitely many keys, so what is kept can be counted. *)
LEMMA KeysFinite ==
  ASSUME NEW S \in SUBSET Keys
  PROVE  IsFiniteSet(S) /\ Cardinality(S) \in Nat
<1>1. IsFiniteSet(Jobs) /\ IsFiniteSet(1 .. MaxAttempts)
  BY LoopAssumption, FS_Interval
<1>2. IsFiniteSet(Keys)
  BY <1>1, FS_Product DEF Keys
<1> QED
  BY <1>2, FS_Subset, FS_CardinalityType

-----------------------------------------------------------------------------
(* Types.                                                                  *)

LEMMA TypeInit == Init => TypeInv
<1> SUFFICES ASSUME Init PROVE TypeInv
  OBVIOUS
<1>1. entry \in [Jobs -> Entries] /\ Attempts
  BY LoopAssumption DEF Init, Entries, Attempts
<1>2. room \in 0 .. Concurrency /\ used \in [refusals : Nat, lapses : Nat, releases : Nat, stops : Nat]
  BY LoopAssumption DEF Init
<1>3. DOMAIN inFlight = {} /\ inFlight \in [DOMAIN inFlight -> RunIds]
  BY DEF Init
<1>4. got = {} /\ runs = {} /\ owed = {} /\ waitFor = {} /\ {woken, failing, timer, shutting} \subseteq BOOLEAN
  BY DEF Init
<1>5. driver \in Drivers /\ state = "idle" /\ looping = FALSE /\ pc = "off" /\ drain = "no"
  BY DEF Init
<1> QED
  BY <1>1, <1>2, <1>3, <1>4, <1>5 DEF TypeInv, TypeOK

(* Nothing but pc, woken and timer is changed by a wake. *)
LEMMA WakeType ==
  ASSUME TypeOK, Wakes \/ Announces \/ UNCHANGED loopVars
  PROVE  /\ pc' \in {"off", "top", "claiming", "returned", "asleep"}
         /\ looping' = (pc' # "off") /\ room' = room /\ got' = got
         /\ woken' \in BOOLEAN /\ timer' \in BOOLEAN /\ failing' = failing
         /\ pc' # pc => pc = "asleep" /\ pc' = "top"
BY DEF TypeOK, Wakes, Announces, loopVars

LEMMA StartType ==
  ASSUME TypeOK, Starts
  PROVE  /\ pc' \in {"off", "top", "claiming", "returned", "asleep"}
         /\ looping' = (pc' # "off") /\ room' = room /\ got' = got
         /\ woken' \in BOOLEAN /\ timer' \in BOOLEAN /\ failing' = failing
         /\ pc' # pc => pc \in {"asleep", "off"} /\ pc' = "top"
         /\ state' = "running"
BY DEF TypeOK, Starts, Wakes

LEMMA EntryType ==
  ASSUME NEW at \in {"none", "waiting", "due", "leased", "lapsed", "ended"},
         NEW n \in 0 .. MaxAttempts
  PROVE  [at |-> at, attempt |-> n] \in Entries
BY DEF Entries

LEMMA Used ==
  ASSUME used \in [refusals : Nat, lapses : Nat, releases : Nat, stops : Nat],
         NEW b \in {"refusals", "lapses", "releases", "stops"}, Use(b)
  PROVE  used' \in [refusals : Nat, lapses : Nat, releases : Nat, stops : Nat]
BY DEF Use

(* What the driver leases. *)
LEMMA LeaseType ==
  ASSUME TypeInv, NEW S \in SUBSET Jobs, S \subseteq Claimable, entry' = Leased(S)
  PROVE  /\ entry' \in [Jobs -> Entries] /\ Attempts'
         /\ \A j \in S : <<j, entry[j].attempt + 1>> \in Keys
<1>1. \A j \in S : entry[j].attempt + 1 \in 1 .. MaxAttempts
  BY LoopAssumption DEF TypeInv, TypeOK, Attempts, Claimable, Entries
<1>2. \A j \in Jobs : entry'[j] = IF j \in S THEN [at |-> "leased", attempt |-> entry[j].attempt + 1] ELSE entry[j]
  BY DEF Leased
<1>3. entry' \in [Jobs -> Entries]
  BY <1>1, EntryType DEF Leased, TypeInv, TypeOK
<1> QED
  BY <1>1, <1>2, <1>3 DEF TypeInv, Attempts, Keys

LEMMA TypeStep == TypeInv /\ [Next]_vars => TypeInv'
<1> SUFFICES ASSUME TypeInv, [Next]_vars PROVE TypeInv'
  OBVIOUS
<1> USE DEF modeVars, drainVars, runVars
<1>0. TypeOK /\ Attempts
  BY DEF TypeInv
<1>1. ASSUME NEW j \in Jobs, NEW at \in {"due", "waiting"}, Dispatch(j, at) PROVE TypeInv'
  <2>1. entry' \in [Jobs -> Entries] /\ Attempts'
    BY <1>0, <1>1, EntryType, LoopAssumption DEF Dispatch, TypeOK, Attempts
  <2>2. Starts \/ ((Announces \/ UNCHANGED loopVars) /\ UNCHANGED state)
    BY <1>1 DEF Dispatch
  <2>3. owed' \subseteq Jobs /\ UNCHANGED <<runVars, modeVars, drainVars, used>>
    BY <1>0, <1>1 DEF Dispatch, TypeOK
  <2> QED
    BY <1>0, <2>1, <2>2, <2>3, StartType, WakeType DEF TypeInv, TypeOK
<1>2. ASSUME NEW j \in Jobs, OwedWake(j) PROVE TypeInv'
  BY <1>0, <1>2, WakeType DEF OwedWake, TypeInv, TypeOK, Attempts
<1>3. ASSUME NEW j \in Jobs, DispatchElsewhere(j) PROVE TypeInv'
  <2>1. entry' \in [Jobs -> Entries] /\ Attempts'
    BY <1>0, <1>3, EntryType, LoopAssumption DEF DispatchElsewhere, TypeOK, Attempts
  <2> QED
    BY <1>0, <1>3, <2>1, WakeType DEF DispatchElsewhere, TypeInv, TypeOK
<1>4. ASSUME NEW j \in Jobs, FallDue(j) PROVE TypeInv'
  <2>1. entry' \in [Jobs -> Entries] /\ Attempts'
    BY <1>0, <1>4 DEF FallDue, TypeOK, Attempts, Entries
  <2> QED
    BY <1>0, <1>4, <2>1, WakeType DEF FallDue, TypeInv, TypeOK
<1>5. ASSUME NEW j \in Jobs, Lapse(j) PROVE TypeInv'
  <2>1. entry' \in [Jobs -> Entries] /\ Attempts'
    BY <1>0, <1>5 DEF Lapse, TypeOK, Attempts, Entries
  <2>2. used' \in [refusals : Nat, lapses : Nat, releases : Nat, stops : Nat]
    BY <1>0, <1>5, Used DEF Lapse, TypeOK
  <2> QED
    BY <1>0, <1>5, <2>1, <2>2, WakeType DEF Lapse, TypeInv, TypeOK
<1>6. ASSUME Start PROVE TypeInv'
  BY <1>0, <1>6, StartType DEF Start, TypeInv, TypeOK, Attempts
<1>7. ASSUME Signal PROVE TypeInv'
  BY <1>0, <1>7 DEF Signal, TypeInv, TypeOK, Attempts, loopVars
<1>8. ASSUME LoopTop PROVE TypeInv'
  <2>1. room' \in 0 .. Concurrency
    <3>1. Cardinality(DOMAIN inFlight) \in Nat
      BY <1>0, KeysFinite DEF TypeOK
    <3> QED
      BY <1>0, <1>8, <3>1, LoopAssumption DEF LoopTop, Room, TypeOK
  <2>2. UNCHANGED <<entry, state, owed, runs, inFlight, driver, shutting, drain, waitFor, used, got>>
    BY <1>8 DEF LoopTop
  <2>3. /\ pc' \in {"off", "top", "claiming", "returned", "asleep"} /\ looping' = (pc' # "off")
        /\ {woken', failing', timer'} \subseteq BOOLEAN
    BY <1>0, <1>8 DEF LoopTop, TypeOK, Sleeps, LoopLeaves
  <2> QED
    BY <1>0, <2>1, <2>2, <2>3 DEF TypeInv, TypeOK, Attempts
<1>9. ASSUME NEW S \in SUBSET Jobs, DriverClaims(S) PROVE TypeInv'
  <2>1. /\ entry' \in [Jobs -> Entries] /\ Attempts'
        /\ \A j \in S : <<j, entry[j].attempt + 1>> \in Keys
    BY <1>9, LeaseType DEF DriverClaims
  <2> QED
    BY <1>0, <1>9, <2>1 DEF DriverClaims, TypeInv, TypeOK
<1>10. ASSUME NEW S \in SUBSET Jobs, ClaimRejects(S) PROVE TypeInv'
  <2>1. entry' \in [Jobs -> Entries] /\ Attempts'
    BY <1>10, LeaseType DEF ClaimRejects
  <2>2. used' \in [refusals : Nat, lapses : Nat, releases : Nat, stops : Nat]
    BY <1>0, <1>10, Used DEF ClaimRejects, TypeOK
  <2> QED
    BY <1>0, <1>10, <2>1, <2>2 DEF ClaimRejects, TypeInv, TypeOK
<1>11. ASSUME ClaimReturns PROVE TypeInv'
  <2>1. PICK ids \in [got -> RunIds \ {r.id : r \in runs}] :
          /\ runs' = runs \union {[id |-> ids[k], key |-> k, stage |-> "running"] : k \in got}
          /\ inFlight' = [k \in DOMAIN inFlight \union got |-> IF k \in got THEN ids[k] ELSE inFlight[k]]
    BY <1>11 DEF ClaimReturns
  <2>2. runs' \subseteq [id : RunIds, key : Keys, stage : {"running", "reported"}]
    BY <1>0, <2>1 DEF TypeOK
  <2>3. DOMAIN inFlight' \subseteq Keys /\ inFlight' \in [DOMAIN inFlight' -> RunIds]
    BY <1>0, <2>1 DEF TypeOK
  <2>4. UNCHANGED <<entry, state, looping, room, woken, failing, owed, driver, shutting, waitFor, used>>
    BY <1>11 DEF ClaimReturns
  <2>5. /\ pc = "returned" /\ pc' \in {"top", "asleep"} /\ got' = {}
        /\ timer' \in BOOLEAN /\ drain' \in {"look", drain}
    BY <1>0, <1>11 DEF ClaimReturns, TypeOK, Sleeps, DrainGoesOn
  <2> QED
    BY <1>0, <2>2, <2>3, <2>4, <2>5 DEF TypeInv, TypeOK, Attempts
<1>12. ASSUME PollTimer PROVE TypeInv'
  BY <1>0, <1>12, WakeType DEF PollTimer, TypeInv, TypeOK, Attempts
<1>13. ASSUME NEW r \in runs, Reports(r)
       PROVE  /\ runs' \subseteq [id : RunIds, key : Keys, stage : {"running", "reported"}]
              /\ UNCHANGED <<state, owed, inFlight, driver, shutting, drain, waitFor>>
  BY <1>0, <1>13 DEF Reports, TypeOK
<1>14. ASSUME NEW r \in runs, NEW at \in {"ended", "waiting"}, Ends(r, at) PROVE TypeInv'
  <2>1. r.key[1] \in Jobs /\ r.key[2] \in 1 .. MaxAttempts
    BY <1>0 DEF TypeOK, Keys
  <2>2. entry' \in [Jobs -> Entries] /\ Attempts'
    BY <1>0, <1>14, <2>1 DEF Ends, Current, TypeOK, Attempts, Entries
  <2>3. Reports(r) /\ UNCHANGED <<loopVars, used>>
    BY <1>14 DEF Ends
  <2> QED
    BY <1>0, <1>13, <2>2, <2>3 DEF TypeInv, TypeOK, loopVars
<1>15. ASSUME NEW r \in runs, Releases(r) PROVE TypeInv'
  <2>1. r.key[1] \in Jobs /\ r.key[2] \in 1 .. MaxAttempts
    BY <1>0 DEF TypeOK, Keys
  <2>2. entry' \in [Jobs -> Entries] /\ Attempts'
    <3>1. r.key[2] - 1 \in 0 .. MaxAttempts /\ r.key[2] - 1 < MaxAttempts
      BY <2>1, LoopAssumption
    <3> QED
      BY <1>0, <1>15, <2>1, <3>1, EntryType DEF Releases, Current, TypeOK, Attempts
  <2>3. used' \in [refusals : Nat, lapses : Nat, releases : Nat, stops : Nat]
    BY <1>0, <1>15, Used DEF Releases, TypeOK
  <2>4. Reports(r) /\ (Announces \/ UNCHANGED loopVars)
    BY <1>15 DEF Releases
  <2> QED
    BY <1>0, <1>13, <2>2, <2>3, <2>4, WakeType DEF TypeInv, TypeOK
<1>16. ASSUME NEW r \in runs, Settles(r) PROVE TypeInv'
  <2>1. DOMAIN inFlight' \subseteq Keys /\ inFlight' \in [DOMAIN inFlight' -> RunIds]
    BY <1>0, <1>16 DEF Settles, Without, TypeOK
  <2> QED
    BY <1>0, <1>16, <2>1, WakeType DEF Settles, TypeInv, TypeOK, Attempts
<1>17. ASSUME Drain PROVE TypeInv'
  <2>1. used' \in [refusals : Nat, lapses : Nat, releases : Nat, stops : Nat]
    BY <1>0, <1>17, Used DEF Drain, TypeOK
  <2> QED
    BY <1>0, <1>17, <2>1, WakeType DEF Drain, DrainBegins, TypeInv, TypeOK, Attempts
<1>18. ASSUME DrainSeesRuns PROVE TypeInv'
  BY <1>0, <1>18 DEF DrainSeesRuns, TypeInv, TypeOK, Attempts, loopVars
<1>19. ASSUME DrainEnds \/ DrainTimesOut PROVE TypeInv'
  BY <1>0, <1>19 DEF DrainEnds, DrainTimesOut, TypeInv, TypeOK, Attempts, loopVars
<1>20. CASE UNCHANGED vars
  BY <1>0, <1>20 DEF vars, TypeInv, TypeOK, Attempts
<1> QED
  BY <1>1, <1>2, <1>3, <1>4, <1>5, <1>6, <1>7, <1>8, <1>9, <1>10, <1>11, <1>12, <1>14,
     <1>15, <1>16, <1>17, <1>18, <1>19, <1>20 DEF Next, Loop, RunStep

(* The loop, its driver and its runs stay within their types. *)
THEOREM TypeCorrect == Spec => []TypeOK
<1>1. TypeInv => TypeOK
  BY DEF TypeInv
<1> QED
  BY <1>1, TypeInit, TypeStep, PTL DEF Spec

-----------------------------------------------------------------------------
(* Room: the slots a claim asked for stay free until it returns.           *)

RoomKept ==
  /\ Cardinality(DOMAIN inFlight) <= Concurrency
  /\ pc = "claiming" => Cardinality(DOMAIN inFlight) + room <= Concurrency
  /\ pc = "returned" => Cardinality(DOMAIN inFlight) + Cardinality(got) <= Concurrency

(* What is kept and what was claimed, changed by everything but the loop   *)
(* and the end of a run: not at all. *)
Quiet ==
  /\ UNCHANGED <<runs, inFlight, got, room>>
  /\ pc' # pc => pc \in {"asleep", "off"} /\ pc' = "top"

LEMMA QuietSteps ==
  ASSUME TypeInv, Next
  PROVE  \/ Quiet \/ LoopTop \/ ClaimReturns
         \/ \E S \in SUBSET Jobs : DriverClaims(S) \/ ClaimRejects(S)
         \/ \E r \in runs : Ends(r, "ended") \/ Ends(r, "waiting") \/ Releases(r) \/ Settles(r)
<1> USE DEF modeVars, runVars, loopVars
<1>1. Quiet \/ ~(\E j \in Jobs : \/ Dispatch(j, "due") \/ Dispatch(j, "waiting") \/ OwedWake(j)
                                  \/ DispatchElsewhere(j) \/ FallDue(j) \/ Lapse(j))
  BY StartType, WakeType
  DEF TypeInv, Quiet, Dispatch, OwedWake, DispatchElsewhere, FallDue, Lapse
<1>2. Quiet \/ ~(Start \/ Signal \/ PollTimer)
  BY StartType, WakeType DEF TypeInv, Quiet, Start, Signal, PollTimer
<1>3. Quiet \/ ~(Drain \/ DrainSeesRuns \/ DrainEnds \/ DrainTimesOut)
  BY WakeType DEF TypeInv, Quiet, Drain, DrainSeesRuns, DrainEnds, DrainTimesOut
<1> QED
  BY <1>1, <1>2, <1>3 DEF Next, Loop, RunStep

LEMMA RoomInit == Init => RoomKept
BY FS_EmptySet, LoopAssumption DEF Init, RoomKept

LEMMA RoomStep == TypeInv /\ RoomKept /\ [Next]_vars => RoomKept'
<1> SUFFICES ASSUME TypeInv, RoomKept, [Next]_vars PROVE RoomKept'
  OBVIOUS
<1> DEFINE n == Cardinality(DOMAIN inFlight)
<1>0. /\ TypeOK /\ TypeOK' /\ n \in Nat /\ n' \in Nat /\ Concurrency \in Nat
      /\ Cardinality(got) \in Nat /\ Cardinality(got') \in Nat /\ room \in Nat
  <2>1. TypeOK /\ TypeOK'
    BY TypeStep DEF TypeInv
  <2> QED
    BY <2>1, KeysFinite, LoopAssumption DEF TypeOK
<1>1. CASE Quiet
  BY <1>1 DEF Quiet, RoomKept
<1>2. CASE LoopTop
  <2>1. UNCHANGED <<inFlight, got>>
    BY <1>2 DEF LoopTop, runVars
  <2>2. pc' \in {"off", "asleep"} \/ (pc' = "claiming" /\ room' = Room /\ Room > 0)
    BY <1>2 DEF LoopTop, LoopLeaves, Sleeps
  <2>3. Room > 0 => n + Room <= Concurrency
    BY <1>0 DEF Room
  <2> QED
    BY <2>1, <2>2, <2>3 DEF RoomKept
<1>3. ASSUME NEW S \in SUBSET Jobs, DriverClaims(S) PROVE RoomKept'
  <2>1. pc = "claiming" /\ pc' = "returned" /\ UNCHANGED inFlight
    BY <1>3 DEF DriverClaims, runVars
  <2>2. IsFiniteSet(S) /\ Cardinality(S) \in Nat /\ Cardinality(S) <= room
    <3>1. IsFiniteSet(S)
      BY FS_Subset, LoopAssumption
    <3>2. Cardinality(S) \in Nat
      BY <3>1, FS_CardinalityType
    <3>3. Cardinality(S) <= room
      BY <1>0, <1>3, <3>2 DEF DriverClaims
    <3> QED
      BY <3>1, <3>2, <3>3
  <2>3. Cardinality(got') <= Cardinality(S)
    <3> DEFINE T == {<<j, entry[j].attempt + 1>> : j \in S}
               f == [j \in S |-> <<j, entry[j].attempt + 1>>]
    <3>1. f \in Surjection(S, T)
      BY DEF Surjection
    <3> HIDE DEF f, T
    <3>2. Cardinality(T) <= Cardinality(S)
      BY <2>2, <3>1, FS_Surjection
    <3> QED
      BY <1>3, <3>2 DEF DriverClaims, T
  <2> QED
    BY <1>0, <2>1, <2>2, <2>3 DEF RoomKept
<1>4. ASSUME NEW S \in SUBSET Jobs, ClaimRejects(S) PROVE RoomKept'
  <2>1. pc = "claiming" /\ pc' = "returned" /\ UNCHANGED inFlight /\ got' = {}
    BY <1>4 DEF ClaimRejects, runVars
  <2> QED
    BY <1>0, <2>1, FS_EmptySet DEF RoomKept
<1>5. CASE ClaimReturns
  <2>1. pc = "returned" /\ pc' \in {"top", "asleep"} /\ DOMAIN inFlight' = DOMAIN inFlight \union got
    BY <1>5 DEF ClaimReturns, Sleeps
  <2>2. n' <= n + Cardinality(got)
    <3>1. IsFiniteSet(DOMAIN inFlight) /\ IsFiniteSet(got)
      BY <1>0, KeysFinite DEF TypeOK
    <3>2. n' = n + Cardinality(got) - Cardinality(DOMAIN inFlight \intersect got)
      BY <2>1, <3>1, FS_Union
    <3>3. Cardinality(DOMAIN inFlight \intersect got) \in Nat
      BY <3>1, FS_Intersection, FS_CardinalityType
    <3> QED
      BY <1>0, <3>2, <3>3
  <2> QED
    BY <1>0, <2>1, <2>2 DEF RoomKept
<1>6. ASSUME NEW r \in runs, Ends(r, "ended") \/ Ends(r, "waiting") \/ Releases(r)
      PROVE  RoomKept'
  <2>1. UNCHANGED inFlight /\ (Announces \/ UNCHANGED loopVars)
    BY <1>6 DEF Ends, Releases, Reports
  <2>2. UNCHANGED <<got, room>> /\ (pc' # pc => pc' = "top")
    BY <1>0, <2>1, WakeType
  <2> QED
    BY <2>1, <2>2 DEF RoomKept
<1>7. ASSUME NEW r \in runs, Settles(r) PROVE RoomKept'
  <2>1. UNCHANGED <<got, room>> /\ (pc' # pc => pc' = "top")
    BY <1>0, <1>7, WakeType DEF Settles
  <2>2. DOMAIN inFlight' = DOMAIN inFlight \ {r.key}
    BY <1>7 DEF Settles, Without
  <2>3. n' <= n
    <3>1. IsFiniteSet(DOMAIN inFlight)
      BY <1>0, KeysFinite DEF TypeOK
    <3> QED
      BY <2>2, <3>1, FS_Subset
  <2> QED
    BY <1>0, <2>1, <2>3 DEF RoomKept
<1>8. CASE UNCHANGED vars
  BY <1>8 DEF vars, RoomKept
<1> QED
  BY <1>1, <1>2, <1>3, <1>4, <1>5, <1>6, <1>7, <1>8, QuietSteps

(* With releases and all: inFlight has no more entries than there are      *)
(* slots. *)
THEOREM RoomHolds == Spec => [](Cardinality(DOMAIN inFlight) <= Concurrency)
<1>1. TypeInv /\ RoomKept /\ [Next]_vars => (TypeInv /\ RoomKept)'
  BY TypeStep, RoomStep
<1>2. RoomKept => Cardinality(DOMAIN inFlight) <= Concurrency
  BY DEF RoomKept
<1> QED
  BY <1>1, <1>2, TypeInit, RoomInit, PTL DEF Spec

-----------------------------------------------------------------------------
(* Tracking: a key that was used does not come again, as long as nothing   *)
(* gives its attempt back, so no claim takes a run's key from it.          *)

Behind ==
  \A k \in DOMAIN inFlight \union got : k[2] <= entry[k[1]].attempt

OwnName == \A r, s \in runs : r.id = s.id => r = s

Tracked ==
  /\ Behind
  /\ got \intersect DOMAIN inFlight = {}
  /\ got # {} => pc = "returned"
  /\ OwnName
  /\ EveryRunTracked

LEMMA TrackedInit == Init => Tracked
BY DEF Init, Tracked, Behind, OwnName, EveryRunTracked

(* Attempts only grow, but for a release. *)
LEMMA AttemptsGrow ==
  ASSUME TypeInv, Next, \A r \in runs : ~Releases(r)
  PROVE  \A j \in Jobs : entry[j].attempt <= entry'[j].attempt
<1>0. TypeOK /\ TypeOK' /\ Attempts
  BY TypeStep DEF TypeInv
<1>1. \A j \in Jobs : entry[j].attempt \in Int /\ entry'[j].attempt \in Int
  BY <1>0 DEF TypeOK, Entries
<1>2. ASSUME NEW j \in Jobs, Dispatch(j, "due") \/ Dispatch(j, "waiting") \/ DispatchElsewhere(j)
      PROVE  \A i \in Jobs : entry'[i].attempt = entry[i].attempt
  BY <1>0, <1>2 DEF Dispatch, DispatchElsewhere, TypeOK, Attempts
<1>3. ASSUME NEW j \in Jobs, FallDue(j) \/ Lapse(j)
      PROVE  \A i \in Jobs : entry'[i].attempt = entry[i].attempt
  BY <1>0, <1>3 DEF FallDue, Lapse, TypeOK, Entries
<1>4. ASSUME NEW S \in SUBSET Jobs, DriverClaims(S) \/ ClaimRejects(S)
      PROVE  \A i \in Jobs : entry[i].attempt <= entry'[i].attempt
  BY <1>1, <1>4 DEF DriverClaims, ClaimRejects, Leased
<1>5. ASSUME NEW r \in runs, Ends(r, "ended") \/ Ends(r, "waiting")
      PROVE  \A i \in Jobs : entry'[i].attempt = entry[i].attempt
  <2>1. entry' = entry \/ \E at : entry' = [entry EXCEPT ![r.key[1]].at = at]
    BY <1>5 DEF Ends
  <2>2. ASSUME NEW at, entry' = [entry EXCEPT ![r.key[1]].at = at], NEW i \in Jobs
        PROVE  entry'[i].attempt = entry[i].attempt
    <3>1. entry[i] \in Entries /\ entry'[i] \in {entry[i], [entry[i] EXCEPT !.at = at]}
      BY <1>0, <2>2 DEF TypeOK
    <3> QED
      BY <3>1 DEF Entries
  <2> QED
    BY <2>1, <2>2
<1>6. ASSUME \/ \E j \in Jobs : OwedWake(j)
             \/ Start \/ Signal \/ LoopTop \/ ClaimReturns \/ PollTimer
             \/ Drain \/ DrainSeesRuns \/ DrainEnds \/ DrainTimesOut
             \/ \E r \in runs : Settles(r)
      PROVE  entry' = entry
  BY <1>6 DEF OwedWake, Start, Signal, LoopTop, ClaimReturns, PollTimer, Drain,
     DrainSeesRuns, DrainEnds, DrainTimesOut, Settles
<1> QED
  BY <1>1, <1>2, <1>3, <1>4, <1>5, <1>6 DEF Next, Loop, RunStep

LEMMA TrackedStep ==
  ASSUME TypeInv, Tracked, Next, \A r \in runs : ~Releases(r)
  PROVE  Tracked'
<1>0. TypeOK /\ TypeOK'
  BY TypeStep DEF TypeInv
<1>1. \A k \in Keys : /\ k[1] \in Jobs /\ k[2] \in Int
                      /\ entry[k[1]].attempt <= entry'[k[1]].attempt
                      /\ entry[k[1]].attempt \in Int /\ entry'[k[1]].attempt \in Int
  BY <1>0, AttemptsGrow DEF Keys, TypeOK, Entries
<1>2. DOMAIN inFlight \subseteq Keys /\ got \subseteq Keys
  BY <1>0 DEF TypeOK
<1>3. ASSUME DOMAIN inFlight' \union got' \subseteq DOMAIN inFlight \union got
      PROVE  Behind'
  BY <1>1, <1>2, <1>3 DEF Tracked, Behind
<1>4. CASE Quiet \/ LoopTop
  <2>1. UNCHANGED <<runs, inFlight, got>>
    BY <1>4 DEF Quiet, LoopTop, runVars
  <2>2. got # {} => pc' = "returned"
    BY <1>4 DEF Quiet, LoopTop, Tracked
  <2> QED
    BY <1>3, <2>1, <2>2 DEF Tracked, OwnName, EveryRunTracked
<1>5. ASSUME NEW S \in SUBSET Jobs, DriverClaims(S) \/ ClaimRejects(S)
      PROVE  Tracked'
  <2>1. UNCHANGED <<runs, inFlight>> /\ pc' = "returned" /\ entry' = Leased(S)
    BY <1>5 DEF DriverClaims, ClaimRejects, runVars
  <2>2. got' \subseteq {<<j, entry[j].attempt + 1>> : j \in S}
    BY <1>5 DEF DriverClaims, ClaimRejects
  <2>3. \A j \in S : entry'[j].attempt = entry[j].attempt + 1 /\ entry[j].attempt \in Int
    BY <1>0, <2>1 DEF Leased, TypeOK, Entries
  <2>4. \A k \in got' : k[2] = entry[k[1]].attempt + 1 /\ k[2] = entry'[k[1]].attempt /\ k \in Keys
    BY <1>0, <2>2, <2>3 DEF TypeOK
  <2>5. got' \intersect DOMAIN inFlight = {}
    BY <1>1, <2>4 DEF Tracked, Behind
  <2>6. Behind'
    BY <1>1, <1>2, <2>1, <2>4 DEF Tracked, Behind
  <2> QED
    BY <2>1, <2>5, <2>6 DEF Tracked, OwnName, EveryRunTracked
<1>6. CASE ClaimReturns
  <2>1. PICK ids \in [got -> RunIds \ {r.id : r \in runs}] :
          /\ \A k, l \in got : k # l => ids[k] # ids[l]
          /\ runs' = runs \union {[id |-> ids[k], key |-> k, stage |-> "running"] : k \in got}
          /\ inFlight' = [k \in DOMAIN inFlight \union got |-> IF k \in got THEN ids[k] ELSE inFlight[k]]
    BY <1>6 DEF ClaimReturns
  <2>2. got' = {}
    BY <1>6 DEF ClaimReturns
  <2>3. Behind'
    BY <1>3, <2>1, <2>2
  <2>4. OwnName'
    BY <2>1 DEF Tracked, OwnName
  <2>5. EveryRunTracked'
    BY <2>1 DEF Tracked, EveryRunTracked
  <2> QED
    BY <2>2, <2>3, <2>4, <2>5 DEF Tracked
<1>7. ASSUME NEW r \in runs, Ends(r, "ended") \/ Ends(r, "waiting")
      PROVE  Tracked'
  <2>1. runs' = (runs \ {r}) \union {[r EXCEPT !.stage = "reported"]} /\ UNCHANGED <<inFlight, got, pc>>
    BY <1>7 DEF Ends, Reports, loopVars
  <2>2. \A s \in runs' : \E q \in runs : s.id = q.id /\ s.key = q.key /\ (s # q => q = r /\ s = [r EXCEPT !.stage = "reported"])
    BY <1>0, <2>1 DEF TypeOK
  <2>3. OwnName'
    BY <2>1, <2>2 DEF Tracked, OwnName
  <2>4. EveryRunTracked'
    BY <2>1, <2>2 DEF Tracked, EveryRunTracked
  <2> QED
    BY <1>3, <2>1, <2>3, <2>4 DEF Tracked
<1>8. ASSUME NEW r \in runs, Settles(r) PROVE Tracked'
  <2>1. UNCHANGED got /\ (pc' # pc => pc = "asleep")
    BY <1>0, <1>8, WakeType DEF Settles
  <2>2. runs' = runs \ {r} /\ inFlight' = [x \in DOMAIN inFlight \ {r.key} |-> inFlight[x]]
    BY <1>8 DEF Settles, Without
  <2>3. \A s \in runs' : s.key # r.key
    BY <2>2 DEF Tracked, EveryRunTracked, OwnName
  <2>4. EveryRunTracked' /\ OwnName'
    BY <2>2, <2>3 DEF Tracked, EveryRunTracked, OwnName
  <2> QED
    BY <1>3, <2>1, <2>2, <2>4 DEF Tracked
<1> QED
  BY <1>4, <1>5, <1>6, <1>7, <1>8, QuietSteps

(* With no release allowed, none is made. *)
LEMMA NoReleases ==
  ASSUME MaxReleases = 0, TypeInv, NEW r
  PROVE  ~Releases(r)
BY DEF TypeInv, TypeOK, Releases

LEMMA TrackedAlways == ASSUME MaxReleases = 0 PROVE Spec => []Tracked
<1>1. TypeInv /\ Tracked /\ [Next]_vars => (TypeInv /\ Tracked)'
  <2>1. ASSUME TypeInv, Tracked, UNCHANGED vars PROVE Tracked'
    BY <2>1 DEF vars, Tracked, Behind, OwnName, EveryRunTracked
  <2>2. ASSUME TypeInv, Tracked, Next PROVE Tracked'
    BY <2>2, NoReleases, TrackedStep
  <2> QED
    BY <2>1, <2>2, TypeStep
<1> QED
  BY <1>1, TypeInit, TrackedInit, PTL DEF Spec

(* Where no run gives its attempt back, every run is kept under its key    *)
(* until it has ended: it takes a slot, is heartbeated and waited for. *)
THEOREM RunsTracked == ASSUME MaxReleases = 0 PROVE Spec => []EveryRunTracked
<1>1. Tracked => EveryRunTracked
  BY DEF Tracked
<1> QED
  BY <1>1, TrackedAlways, PTL

(* Under the same condition, no more run than there are slots: runs have   *)
(* different keys, and all of them are kept. *)
THEOREM SlotsKept == ASSUME MaxReleases = 0 PROVE Spec => []SlotsRespected
<1>1. ASSUME TypeInv, RoomKept, Tracked PROVE SlotsRespected
  <2> DEFINE D == DOMAIN inFlight
             f == [r \in runs |-> r.key]
  <2>1. IsFiniteSet(D) /\ Cardinality(D) \in Nat
    BY <1>1, KeysFinite DEF TypeInv, TypeOK
  <2>2. \A r \in runs : r.key \in D
    BY <1>1 DEF Tracked, EveryRunTracked
  <2>3. \A r, s \in runs : r.key = s.key => r = s
    BY <1>1 DEF Tracked, EveryRunTracked, OwnName
  <2> HIDE DEF D
  <2>4. f \in Injection(runs, D)
    BY <2>2, <2>3 DEF Injection, IsInjective
  <2> HIDE DEF f
  <2>5. IsFiniteSet(runs) /\ Cardinality(runs) <= Cardinality(D)
    BY <2>1, <2>4, FS_Injection
  <2>6. Cardinality(runs) \in Nat
    BY <2>5, FS_CardinalityType
  <2> QED
    BY <1>1, <2>1, <2>5, <2>6, LoopAssumption DEF RoomKept, SlotsRespected, D
<1>2. Spec => []Tracked
  BY TrackedAlways
<1>3. TypeInv /\ RoomKept /\ [Next]_vars => (TypeInv /\ RoomKept)'
  BY TypeStep, RoomStep
<1> QED
  BY <1>1, <1>2, <1>3, TypeInit, RoomInit, PTL DEF Spec

-----------------------------------------------------------------------------
(* Draining.                                                               *)

(* A drain has waited for the claim in progress before it looks at what    *)
(* runs, and then waits for everything it saw; a stopped loop brings       *)
(* nothing more. *)
DrainSees ==
  /\ state = "stopped" /\ drain \in {"look", "runs", "done"} => pc \notin {"claiming", "returned"}
  /\ state = "stopped" /\ drain \in {"runs", "done"} => \A r \in runs : r.id \in waitFor
  /\ drain = "done" => waitFor = {}

LEMMA DrainInit == Init => DrainSees
BY DEF Init, DrainSees

(* Only a drain stops the manager, and then it begins anew. *)
LEMMA DrainStep ==
  ASSUME TypeInv, Tracked, DrainSees, [Next]_vars
  PROVE  DrainSees'
<1> USE DEF modeVars, drainVars, runVars, loopVars
<1>0. TypeOK
  BY DEF TypeInv
<1>1. ASSUME UNCHANGED <<runs, waitFor, drain>>, pc' # pc => pc' \notin {"claiming", "returned"},
             state' = state \/ state' = "running"
      PROVE  DrainSees'
  BY <1>1 DEF DrainSees
<1>2. ASSUME NEW j \in Jobs,
             \/ Dispatch(j, "due") \/ Dispatch(j, "waiting") \/ OwedWake(j)
             \/ DispatchElsewhere(j) \/ FallDue(j) \/ Lapse(j)
      PROVE  DrainSees'
  <2>1. Starts \/ ((Announces \/ Wakes \/ UNCHANGED loopVars) /\ UNCHANGED state)
    BY <1>2 DEF Dispatch, OwedWake, DispatchElsewhere, FallDue, Lapse
  <2>2. UNCHANGED <<runs, waitFor, drain>>
    BY <1>2 DEF Dispatch, OwedWake, DispatchElsewhere, FallDue, Lapse
  <2> QED
    BY <1>0, <1>1, <2>1, <2>2, StartType, WakeType
<1>3. ASSUME Start \/ Signal \/ PollTimer PROVE DrainSees'
  <2>1. Starts \/ ((Wakes \/ UNCHANGED loopVars) /\ UNCHANGED state)
    BY <1>3 DEF Start, Signal, PollTimer
  <2>2. UNCHANGED <<runs, waitFor, drain>>
    BY <1>3 DEF Start, Signal, PollTimer
  <2> QED
    BY <1>0, <1>1, <2>1, <2>2, StartType, WakeType
<1>4. CASE LoopTop
  <2>1. pc' = "claiming" => state = "running"
    BY <1>4 DEF LoopTop, LoopLeaves, Sleeps
  <2>2. UNCHANGED <<state, runs, waitFor, drain>> /\ pc' # "returned"
    BY <1>4 DEF LoopTop, LoopLeaves, Sleeps
  <2> QED
    BY <2>1, <2>2 DEF DrainSees
<1>5. ASSUME NEW S \in SUBSET Jobs, DriverClaims(S) \/ ClaimRejects(S)
      PROVE  DrainSees'
  <2>1. pc = "claiming" /\ UNCHANGED <<state, runs, waitFor, drain>>
    BY <1>5 DEF DriverClaims, ClaimRejects
  <2> QED
    BY <2>1 DEF DrainSees
<1>6. CASE ClaimReturns
  <2>1. pc = "returned" /\ pc' \in {"top", "asleep"} /\ UNCHANGED <<state, waitFor>>
        /\ drain' \in {drain, "look"}
    BY <1>6 DEF ClaimReturns, Sleeps, DrainGoesOn
  <2> QED
    BY <2>1 DEF DrainSees
<1>7. ASSUME NEW r \in runs, Ends(r, "ended") \/ Ends(r, "waiting") \/ Releases(r)
      PROVE  DrainSees'
  <2>1. UNCHANGED <<state, waitFor, drain>> /\ (Announces \/ UNCHANGED loopVars)
    BY <1>7 DEF Ends, Releases, Reports
  <2>2. runs' = (runs \ {r}) \union {[r EXCEPT !.stage = "reported"]}
    BY <1>7 DEF Ends, Releases, Reports
  <2>3. \A s \in runs' : \E q \in runs : s.id = q.id
    BY <1>0, <2>2 DEF TypeOK
  <2>4. pc' # pc => pc' = "top"
    BY <1>0, <2>1, WakeType
  <2> QED
    BY <2>1, <2>3, <2>4 DEF DrainSees
<1>8. ASSUME NEW r \in runs, Settles(r) PROVE DrainSees'
  <2>1. UNCHANGED <<state, drain>> /\ (pc' # pc => pc' = "top")
    BY <1>0, <1>8, WakeType DEF Settles
  <2>2. runs' = runs \ {r} /\ waitFor' = waitFor \ {r.id}
    BY <1>8 DEF Settles
  <2>3. \A s \in runs' : s \in runs /\ s.id # r.id
    BY <2>2 DEF Tracked, OwnName
  <2> QED
    BY <2>1, <2>2, <2>3 DEF DrainSees
<1>9. CASE Drain
  <2>1. drain' \in {"claim", "look"} /\ (drain' = "look" => pc \notin {"claiming", "returned"})
    BY <1>9 DEF Drain, DrainBegins
  <2>2. pc' # pc => pc' = "top"
    BY <1>0, <1>9, WakeType DEF Drain
  <2> QED
    BY <2>1, <2>2 DEF DrainSees
<1>10. CASE DrainSeesRuns
  <2>1. \A r \in runs : r.id \in {inFlight[k] : k \in DOMAIN inFlight}
    BY DEF Tracked, EveryRunTracked
  <2> QED
    BY <1>10, <2>1 DEF DrainSeesRuns, DrainSees
<1>11. CASE DrainEnds \/ DrainTimesOut
  BY <1>11 DEF DrainEnds, DrainTimesOut, DrainSees
<1>12. CASE UNCHANGED vars
  BY <1>12 DEF vars, DrainSees
<1> QED
  BY <1>2, <1>3, <1>4, <1>5, <1>6, <1>7, <1>8, <1>9, <1>10, <1>11, <1>12 DEF Next, Loop, RunStep

(* A drain that has resolved, whatever claims, lapses and starts came      *)
(* while it waited, leaves nothing running and nothing about to. *)
THEOREM DrainsIdle == ASSUME MaxReleases = 0 PROVE Spec => []DrainedMeansIdle
<1>1. TypeInv /\ Tracked /\ DrainSees /\ [Next]_vars => DrainSees'
  BY DrainStep
<1>2. TypeInv /\ [Next]_vars => TypeInv'
  BY TypeStep
<1>3. Tracked /\ DrainSees => DrainedMeansIdle
  BY DEF Tracked, DrainSees, DrainedMeansIdle
<1> QED
  BY <1>1, <1>2, <1>3, TrackedAlways, TypeInit, DrainInit, PTL DEF Spec

=============================================================================
