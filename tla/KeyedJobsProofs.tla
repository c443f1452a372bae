--------------------------- MODULE KeyedJobsProofs ---------------------------
(***************************************************************************)
(* A unique key is one job's, and is not held for nothing, and the limits  *)
(* hold, for any number of dispatches, processes, slots and windows,       *)
(* whatever fails.                                                         *)
(***************************************************************************)
EXTENDS KeyedJobs, FiniteSetTheorems, TLAPS

(* What Runs says of a run, field by field, and back. *)
LEMMA RunFields ==
  ASSUME NEW r \in Runs
  PROVE  /\ r.stage \in Stages /\ r.job \in Jobs \union {Nobody} /\ r.attempt \in Int
         /\ r.outcome \in Outcomes /\ r.at \in Nat /\ r.slot \in Nat
         /\ r.lost \in BOOLEAN /\ r.counted \in SUBSET Nat /\ r.past \in SUBSET Nat
BY DEF Runs

(* The run of a claim is one, and so is none. *)
LEMMA RunType ==
  ASSUME NEW stage \in Stages, NEW j \in Jobs \union {Nobody}, NEW n \in Int,
         NEW outcome \in Outcomes
  PROVE  Run(stage, j, n, outcome) \in Runs
BY DEF Run, Runs

LEMMA IdleType == Idle \in Runs /\ Idle.stage = "idle"
BY KeyedAssumption DEF Idle, Run, Runs, Stages, Outcomes

(* Ending a run, and admitting it, leave it a run of the same job. *)
LEMMA EndsType ==
  ASSUME NEW r \in Runs, NEW outcome \in Outcomes
  PROVE  /\ Ends(r, outcome) \in Runs /\ Ends(r, outcome).stage = "report"
         /\ Ends(r, outcome).job = r.job /\ Ends(r, outcome).attempt = r.attempt
         /\ Ends(r, outcome).outcome = outcome
BY DEF Ends, Runs, Stages

LEMMA AfterSlotType ==
  ASSUME NEW r \in Runs
  PROVE  /\ Enters(r) \in Runs /\ AfterSlot(r) \in Runs
         /\ Enters(r).stage = "run" /\ AfterSlot(r).stage \in {"run", "hit"}
         /\ Enters(r).job = r.job /\ Enters(r).attempt = r.attempt
         /\ Enters(r).outcome = r.outcome
         /\ AfterSlot(r).job = r.job /\ AfterSlot(r).attempt = r.attempt
         /\ AfterSlot(r).outcome = r.outcome
BY DEF AfterSlot, Enters, Runs, Stages

RunsTyped ==
  /\ run \in [Procs -> Runs]
  /\ \A p \in Procs : run[p].stage # "idle" => run[p].job \in Jobs

LEMMA MovesTyped ==
  ASSUME RunsTyped, NEW p \in Procs, NEW r \in Runs, r.stage # "idle" => r.job \in Jobs,
         RunTo(p, r)
  PROVE  RunsTyped'
BY DEF RunsTyped, RunTo

-----------------------------------------------------------------------------
(* Types.                                                                  *)

SlotType == [state : {"free", "held", "leaked", "lapsing"}, by : Procs \union {Nobody}]
SlotsTyped == slot \in [1 .. kind.slots -> SlotType]
WindowType == [count : Int, hits : Int, late : Nat]
WindowsTyped == window \in [DOMAIN kind.windows -> WindowType]

LEMMA TypeInit == Init => TypeOK
<1> SUFFICES ASSUME Init PROVE TypeOK
  OBVIOUS
<1>1. Idle \in Runs /\ Idle.stage = "idle"
  BY IdleType
<1> QED
  BY <1>1, KeyedAssumption
     DEF Init, TypeOK, Push, PushStages, Row, Statuses, Free, Slot, Fresh, Window

(* What the store's statements make of slots and windows is typed. *)
LEMMA StoreTypes ==
  ASSUME TypeOK
  PROVE  /\ keyFreedBy(Nobody) \in Jobs \union {Nobody}
         /\ \A j \in Jobs : {keyFreedBy(j), keyTakenBy(j)} \subseteq Jobs \union {Nobody}
         /\ \A p \in Procs :
              /\ slotFreed(p) \in [1 .. kind.slots -> SlotType]
              /\ \A state \in {"leaked", "lapsing"} :
                   slotLeft(p, state) \in [1 .. kind.slots -> SlotType]
         /\ \A i, state, by : state \in {"held", "lapsing"} /\ by \in Procs =>
              [slot EXCEPT ![i] = Slot(state, by)] \in [1 .. kind.slots -> SlotType]
         /\ \A i : [slot EXCEPT ![i] = Free] \in [1 .. kind.slots -> SlotType]
         /\ \A k : Hits(k) \in [DOMAIN kind.windows -> WindowType]
         /\ \A p, ks : Refunds(p, ks) \in [DOMAIN kind.windows -> WindowType]
         /\ \A k : [window EXCEPT ![k] = Fresh] \in [DOMAIN kind.windows -> WindowType]
<1>1. slot \in [1 .. kind.slots -> SlotType] /\ window \in [DOMAIN kind.windows -> WindowType]
  BY DEF TypeOK, SlotType, WindowType
<1>2. \A k \in DOMAIN kind.windows :
         window[k].count \in Int /\ window[k].hits \in Int /\ window[k].late \in Nat
  BY <1>1 DEF WindowType
<1> DEFINE D == DOMAIN kind.windows
<1>5. ASSUME NEW k, NEW w, k \in D => w \in WindowType
      PROVE  [window EXCEPT ![k] = w] \in [D -> WindowType]
  BY <1>1, <1>5
<1>6. \A c, h \in Int, l \in Nat : Window(c, h, l) \in WindowType
  BY DEF Window, WindowType
<1> HIDE DEF D
<1>7. ASSUME NEW k PROVE Hits(k) \in [D -> WindowType]
  <2>1. k \in D => Window(window[k].count + 1, window[k].hits + 1, window[k].late) \in WindowType
    BY <1>2, <1>6 DEF D
  <2> QED
    BY <2>1, <1>5 DEF Hits
<1>8. ASSUME NEW p, NEW ks PROVE Refunds(p, ks) \in [D -> WindowType]
  <2> DEFINE back(w, k) ==
               CASE k \notin ks -> w
                 [] k \in ks /\ k \in run[p].past ->
                      IF w.count > 0 THEN Window(w.count - 1, w.hits, w.late + 1) ELSE w
                 [] OTHER ->
                      Window(IF w.count > 0 THEN w.count - 1 ELSE w.count, w.hits - 1, w.late)
  <2>1. ASSUME NEW k \in D PROVE back(window[k], k) \in WindowType
    <3> DEFINE w == window[k]
    <3>1. w.count \in Int /\ w.hits \in Int /\ w.late \in Nat /\ w \in WindowType
      BY <1>1, <1>2, <2>1 DEF D
    <3> HIDE DEF w
    <3>2. /\ Window(w.count - 1, w.hits, w.late + 1) \in WindowType
          /\ Window(w.count - 1, w.hits - 1, w.late) \in WindowType
          /\ Window(w.count, w.hits - 1, w.late) \in WindowType
      BY <3>1, <1>6
    <3>3. back(w, k) \in WindowType
      BY <3>1, <3>2
    <3> QED
      BY <3>3 DEF w
  <2>2. DOMAIN window = D
    BY <1>1 DEF D
  <2>3. Refunds(p, ks) = [k \in D |-> back(window[k], k)]
    BY <2>2 DEF Refunds
  <2> HIDE DEF back
  <2> QED
    BY <2>1, <2>3
<1>9. ASSUME NEW k PROVE [window EXCEPT ![k] = Fresh] \in [D -> WindowType]
  BY <1>5, <1>6 DEF Fresh
<1>3. /\ \A k : Hits(k) \in [DOMAIN kind.windows -> WindowType]
      /\ \A p, ks : Refunds(p, ks) \in [DOMAIN kind.windows -> WindowType]
      /\ \A k : [window EXCEPT ![k] = Fresh] \in [DOMAIN kind.windows -> WindowType]
  BY <1>7, <1>8, <1>9 DEF D
<1>4. /\ \A p \in Procs :
              /\ slotFreed(p) \in [1 .. kind.slots -> SlotType]
              /\ \A state \in {"leaked", "lapsing"} :
                   slotLeft(p, state) \in [1 .. kind.slots -> SlotType]
      /\ \A i, state, by : state \in {"held", "lapsing"} /\ by \in Procs =>
              [slot EXCEPT ![i] = Slot(state, by)] \in [1 .. kind.slots -> SlotType]
      /\ \A i : [slot EXCEPT ![i] = Free] \in [1 .. kind.slots -> SlotType]
  BY <1>1 DEF slotFreed, slotLeft, Slot, Free, SlotType
<1> QED
  BY <1>3, <1>4, KeyedAssumption DEF TypeOK, keyFreedBy, keyTakenBy

(* The parts of TypeOK that few actions change. *)
PushTyped == push \in [Jobs -> [stage : PushStages, round : Nat]]
RowsTyped == row \in [Jobs -> [status : Statuses, attempts : Int]]
KeyTyped == key \in Jobs \union {Nobody}
TroubleTyped == trouble \in [Jobs -> SUBSET Troubles]

Parts ==
  /\ kind \in Kinds /\ PushTyped /\ RowsTyped /\ RunsTyped /\ KeyTyped
  /\ SlotsTyped /\ WindowsTyped /\ TroubleTyped /\ mishaps \in Nat

LEMMA TypeParts == (TypeOK <=> Parts) /\ (TypeOK' <=> Parts')
BY DEF TypeOK, Parts, PushTyped, RowsTyped, RunsTyped, KeyTyped, SlotsTyped, WindowsTyped,
       TroubleTyped, SlotType, WindowType

LEMMA PushToTyped ==
  ASSUME PushTyped, NEW j \in Jobs, NEW stage \in PushStages, PushTo(j, stage)
  PROVE  PushTyped'
BY DEF PushTyped, PushTo

LEMMA BefallsTyped ==
  ASSUME TroubleTyped, NEW j \in Jobs, NEW what \in Troubles, Befalls(j, what)
  PROVE  TroubleTyped'
BY DEF TroubleTyped, Befalls

LEMMA RowTyped ==
  ASSUME RowsTyped, NEW j \in Jobs, NEW status \in Statuses, NEW n \in Int,
         row' = [row EXCEPT ![j] = Row(status, n)]
  PROVE  RowsTyped'
BY DEF RowsTyped, Row

LEMMA SpendsTyped == mishaps \in Nat /\ (Spends \/ UNCHANGED mishaps) => mishaps' \in Nat
BY DEF Spends

(* The steps of a dispatch keep the types. *)
LEMMA PushStepTyped ==
  ASSUME TypeOK, NEW j \in Jobs, PushStep(j) \/ pushRejects(j) \/ pushDies(j)
  PROVE  TypeOK'
<1>0. kind \in Kinds /\ PushTyped /\ RowsTyped /\ RunsTyped /\ KeyTyped
        /\ SlotsTyped /\ WindowsTyped /\ TroubleTyped /\ mishaps \in Nat
  BY TypeParts DEF Parts
<1>1. {keyFreedBy(j), keyTakenBy(j)} \subseteq Jobs \union {Nobody}
  BY StoreTypes
<1>2. UNCHANGED <<kind, run, slot, window>>
  BY DEF PushStep, dispatch, acquireKey, readHolder, record, undo, pushRejects, pushDies
<1>3. RunsTyped' /\ SlotsTyped' /\ WindowsTyped' /\ kind' \in Kinds
  BY <1>0, <1>2 DEF RunsTyped, SlotsTyped, WindowsTyped
<1>4. mishaps' \in Nat
  BY <1>0, SpendsTyped
     DEF PushStep, dispatch, acquireKey, readHolder, record, undo, pushRejects, pushDies
<1>5. KeyTyped'
  BY <1>0, <1>1
     DEF PushStep, dispatch, acquireKey, readHolder, record, undo, pushRejects, pushDies, KeyTyped
<1>6. PushTyped'
  <2>1. CASE dispatch(j)
    BY <1>0, <2>1, PushToTyped DEF dispatch, PushStages
  <2>2. CASE acquireKey(j)
    BY <1>0, <2>2, PushToTyped DEF acquireKey, PushStages
  <2>3. CASE readHolder(j)
    <3>1. push[j].round \in Nat
      BY <1>0 DEF PushTyped
    <3> QED
      BY <1>0, <2>3, <3>1 DEF readHolder, PushTyped, Push, PushStages
  <2>4. CASE record(j) \/ undo(j) \/ pushDies(j)
    BY <1>0, <2>4, PushToTyped DEF record, undo, pushDies, PushStages
  <2>5. CASE pushRejects(j)
    BY <1>0, <2>5, PushToTyped DEF pushRejects, AfterFailedRecord, PushStages
  <2> QED
    BY <2>1, <2>2, <2>3, <2>4, <2>5 DEF PushStep
<1>7. RowsTyped' /\ TroubleTyped'
  <2>1. CASE row' = row /\ trouble' = trouble
    BY <1>0, <2>1 DEF RowsTyped, TroubleTyped
  <2>2. CASE record(j)
    <3>1. row' = [row EXCEPT ![j] = Row("pending", 0)] /\ trouble' = trouble
      BY <2>2 DEF record
    <3>2. RowsTyped'
      BY <1>0, <3>1 DEF RowsTyped, Row, Statuses
    <3> QED
      BY <1>0, <3>1, <3>2 DEF TroubleTyped
  <2>3. CASE pushRejects(j)
    <3>1. (row' = [row EXCEPT ![j] = Row("pending", 0)]) \/ UNCHANGED row
      BY <2>3 DEF pushRejects
    <3>2. Befalls(j, "failed") \/ Befalls(j, "unanswered") \/ UNCHANGED trouble
      BY <2>3 DEF pushRejects
    <3>3. RowsTyped'
      BY <1>0, <3>1, RowTyped DEF Statuses, RowsTyped
    <3>4. TroubleTyped'
      BY <1>0, <3>2, BefallsTyped DEF Troubles, TroubleTyped
    <3> QED
      BY <3>3, <3>4
  <2>4. CASE pushDies(j)
    BY <1>0, <2>4, BefallsTyped DEF pushDies, Troubles, RowsTyped
  <2>5. dispatch(j) \/ acquireKey(j) \/ readHolder(j) \/ undo(j) => row' = row /\ trouble' = trouble
    BY DEF dispatch, acquireKey, readHolder, undo
  <2>6. \/ row' = row /\ trouble' = trouble
        \/ record(j) \/ pushRejects(j) \/ pushDies(j)
    BY <2>5 DEF PushStep
  <2> QED
    BY <2>1, <2>2, <2>3, <2>4, <2>6
<1> QED
  BY <1>3, <1>4, <1>5, <1>6, <1>7, TypeParts DEF Parts

(* So do claims, ... *)
LEMMA ClaimsTyped ==
  ASSUME TypeOK, NEW p \in Procs, NEW j \in Jobs, claim(p, j) \/ claimAgain(p, j)
  PROVE  TypeOK'
<1>0. Parts
  BY TypeParts
<1>1. /\ row' = [row EXCEPT ![j] = Row("claimed", @.attempts + 1)]
      /\ RunTo(p, Run("check", j, row[j].attempts + 1, "none"))
      /\ kind' = kind /\ push' = push /\ key' = key /\ slot' = slot /\ window' = window
  BY DEF claim, claimAgain, Claims, RunTo
<1>2. row[j].attempts + 1 \in Int
  BY <1>0 DEF Parts, RowsTyped
<1>3. Run("check", j, row[j].attempts + 1, "none") \in Runs
  BY <1>2, RunType DEF Stages, Outcomes
<1>4. Run("check", j, row[j].attempts + 1, "none").job = j
  BY DEF Run
<1>5. RunsTyped'
  BY <1>0, <1>1, <1>3, <1>4, MovesTyped DEF Parts
<1>6. RowsTyped'
  BY <1>0, <1>1, <1>2 DEF Parts, RowsTyped, Row, Statuses
<1>7. Befalls(j, "doubled") \/ trouble' = trouble
  BY DEF claim, claimAgain
<1>8. TroubleTyped'
  BY <1>0, <1>7, BefallsTyped DEF Parts, TroubleTyped, Troubles
<1>9. mishaps' \in Nat
  BY <1>0, SpendsTyped DEF Parts, claim, claimAgain
<1> QED
  BY <1>0, <1>1, <1>5, <1>6, <1>8, <1>9, TypeParts
     DEF Parts, PushTyped, KeyTyped, SlotsTyped, WindowsTyped

(* ... the steps of an attempt, ... *)
LEMMA ReportedTyped ==
  ASSUME TypeOK, NEW p \in Procs
  PROVE  Reported(p) \in [Jobs -> [status : Statuses, attempts : Int]]
<1> DEFINE r == run[p]
           old == row[r.job]
           new == IF ~Current(r) THEN old
                  ELSE CASE r.outcome = "complete" -> Row("gone", 0)
                         [] r.outcome \in {"dead", "dropped"} -> Row("dead", old.attempts)
                         [] r.outcome = "retry" -> Row("pending", old.attempts)
                         [] OTHER -> Row("pending", old.attempts - 1)
           T == [status : Statuses, attempts : Int]
<1>1. row \in [Jobs -> T]
  BY DEF TypeOK
<1>2. Reported(p) = [row EXCEPT ![r.job] = new]
  BY DEF Reported
<1>3. ASSUME r.job \in Jobs PROVE new \in T
  <2>1. old \in T /\ old.attempts \in Int
    BY <1>1, <1>3
  <2> HIDE DEF old, r
  <2>2. /\ Row("gone", 0) \in T /\ Row("dead", old.attempts) \in T
        /\ Row("pending", old.attempts) \in T /\ Row("pending", old.attempts - 1) \in T
    BY <2>1 DEF Row, Statuses
  <2> HIDE DEF T
  <2> QED
    BY <2>1, <2>2
<1> HIDE DEF new, T, r
<1>4. [row EXCEPT ![r.job] = new] \in [Jobs -> T]
  BY <1>1, <1>3
<1> QED
  BY <1>2, <1>4 DEF T

(* Where the steps of an attempt take it. *)
LEMMA RunGoes ==
  ASSUME TypeOK, NEW p \in Procs,
         RunStep(p) \/ drop(p) \/ releases(p) \/ rejects(p) \/ crash(p)
  PROVE  \E r \in Runs : RunTo(p, r) /\ (r.stage # "idle" => r.job \in Jobs)
<1>1. run[p] \in Runs /\ (run[p].stage # "idle" => run[p].job \in Jobs)
  BY DEF TypeOK
<1>2. /\ \A o \in Outcomes : Ends(run[p], o) \in Runs /\ Ends(run[p], o).job = run[p].job
      /\ Idle \in Runs /\ Idle.stage = "idle"
  BY <1>1, EndsType, IdleType
<1>3. \A r \in Runs : AfterSlot(r) \in Runs /\ AfterSlot(r).job = r.job
                     /\ Enters(r) \in Runs /\ Enters(r).job = r.job
  BY AfterSlotType
<1>4. run[p].outcome \in Outcomes /\ run[p].at \in Nat
  BY <1>1, RunFields
<1>5. CASE check(p)
  <2>1. [run[p] EXCEPT !.stage = "slot"] \in Runs /\ [run[p] EXCEPT !.stage = "slot"].job = run[p].job
    BY <1>1 DEF Runs, Stages
  <2> QED
    BY <1>1, <1>2, <1>3, <1>5, <2>1 DEF check, Outcomes
<1>6. CASE takeSlot(p)
  <2> DEFINE i == run[p].at
  <2>1. [run[p] EXCEPT !.slot = i] \in Runs /\ [run[p] EXCEPT !.slot = i].job = run[p].job
    BY <1>1, <1>4 DEF Runs
  <2>2. [run[p] EXCEPT !.at = i + 1] \in Runs /\ [run[p] EXCEPT !.at = i + 1].job = run[p].job
    BY <1>1, <1>4 DEF Runs
  <2> DEFINE r == [run[p] EXCEPT !.slot = i]
             s == [run[p] EXCEPT !.at = i + 1]
  <2>3. \/ RunTo(p, AfterSlot(r)) \/ RunTo(p, s) \/ RunTo(p, Ends(run[p], "refused"))
    BY <1>6 DEF takeSlot
  <2>4. run[p].stage # "idle"
    BY <1>6 DEF takeSlot
  <2>5. r \in Runs /\ r.job = run[p].job /\ s \in Runs /\ s.job = run[p].job
    BY <2>1, <2>2
  <2>6. "refused" \in Outcomes
    BY DEF Outcomes
  <2> HIDE DEF r, s
  <2> QED
    BY <1>1, <1>2, <1>3, <2>3, <2>4, <2>5, <2>6
<1>7. CASE hit(p)
  <2> DEFINE k == run[p].at
             r == [run[p] EXCEPT !.counted = @ \union {k}, !.at = k + 1]
             f == [run[p] EXCEPT !.stage = "refund", !.outcome = "refused"]
  <2>0. run[p].counted \union {k} \in SUBSET Nat /\ k + 1 \in Nat
    BY <1>1, <1>4, RunFields
  <2>1. r \in Runs /\ r.job = run[p].job
    <3> DEFINE c == run[p].counted \union {k}
    <3>1. r = [run[p] EXCEPT !.counted = c, !.at = k + 1]
      OBVIOUS
    <3>2. c \in SUBSET Nat
      BY <2>0
    <3> HIDE DEF c, r
    <3> QED
      BY <1>1, <2>0, <3>1, <3>2 DEF Runs
  <2>2. f \in Runs /\ f.job = run[p].job
    BY <1>1 DEF Runs, Stages, Outcomes
  <2>3. run[p].stage # "idle"
    BY <1>7 DEF hit
  <2>4. RunTo(p, r) \/ RunTo(p, Enters(r)) \/ RunTo(p, f)
    BY <1>7 DEF hit
  <2> HIDE DEF r, f
  <2> QED
    BY <1>1, <1>3, <2>1, <2>2, <2>3, <2>4
<1>8. ASSUME NEW k \in run[p].counted, refund(p, k)
      PROVE \E r \in Runs : RunTo(p, r) /\ (r.stage # "idle" => r.job \in Jobs)
  <2> DEFINE r == [run[p] EXCEPT !.counted = @ \ {k}, !.past = @ \ {k}]
  <2>1. r \in Runs /\ r.job = run[p].job
    BY <1>1 DEF Runs
  <2>2. run[p].stage # "idle" /\ RunTo(p, r)
    BY <1>8 DEF refund
  <2> HIDE DEF r
  <2> QED
    BY <1>1, <2>1, <2>2
<1>9. CASE unslot(p) \/ drop(p)
  <2>1. RunTo(p, Ends(run[p], run[p].outcome)) \/ RunTo(p, Ends(run[p], "dropped"))
    BY <1>9 DEF unslot, drop
  <2>2. run[p].stage # "idle"
    BY <1>9 DEF unslot, drop
  <2> QED
    BY <1>1, <1>2, <1>4, <2>1, <2>2 DEF Outcomes
<1>10. ASSUME NEW o \in Outcomes, Settles(p, o)
       PROVE \E r \in Runs : RunTo(p, r) /\ (r.stage # "idle" => r.job \in Jobs)
  <2> DEFINE r == [run[p] EXCEPT !.stage = "unslot", !.outcome = o]
  <2>1. r \in Runs /\ r.job = run[p].job
    BY <1>1 DEF Runs, Stages
  <2>2. run[p].stage # "idle" /\ (RunTo(p, r) \/ RunTo(p, Ends(run[p], o)))
    BY <1>10 DEF Settles
  <2> HIDE DEF r
  <2> QED
    BY <1>1, <1>2, <2>1, <2>2
<1>11. CASE succeeds(p) \/ releases(p) \/ \E retry \in BOOLEAN : fails(p, retry)
  <2>1. \E o \in Outcomes : Settles(p, o)
    BY <1>11 DEF succeeds, releases, fails, Outcomes
  <2> QED
    BY <1>10, <2>1
<1>12. CASE report(p)
  <2> DEFINE r == [run[p] EXCEPT !.stage = "unkey"]
  <2>1. r \in Runs /\ r.job = run[p].job
    BY <1>1 DEF Runs, Stages
  <2>2. run[p].stage # "idle" /\ (RunTo(p, r) \/ RunTo(p, Idle))
    BY <1>12 DEF report, AfterReport
  <2> HIDE DEF r
  <2> QED
    BY <1>1, <1>2, <2>1, <2>2
<1>13. CASE releaseUnique(p) \/ crash(p)
  BY <1>2, <1>13 DEF releaseUnique, crash
<1>14. CASE rejects(p)
  <2>1. run[p].stage # "idle" /\ (RunTo(p, Idle) \/ RunTo(p, Ends(run[p], run[p].outcome)))
    BY <1>14 DEF rejects
  <2> QED
    BY <1>1, <1>2, <1>4, <2>1
<1> QED
  BY <1>5, <1>6, <1>7, <1>8, <1>9, <1>11, <1>12, <1>13, <1>14 DEF RunStep

LEMMA RunStepTyped ==
  ASSUME TypeOK, NEW p \in Procs,
         RunStep(p) \/ drop(p) \/ releases(p) \/ rejects(p) \/ crash(p)
  PROVE  TypeOK'
<1>0. kind \in Kinds /\ PushTyped /\ RowsTyped /\ RunsTyped /\ KeyTyped
        /\ SlotsTyped /\ WindowsTyped /\ TroubleTyped /\ mishaps \in Nat
  BY TypeParts DEF Parts
<1>1. kind' = kind /\ push' = push
  BY DEF RunStep, check, takeSlot, hit, unslot, refund, succeeds, fails, releases, Settles, report,
         releaseUnique, drop, rejects, crash
<1>2. RunsTyped'
  <2>1. PICK r \in Runs : RunTo(p, r) /\ (r.stage # "idle" => r.job \in Jobs)
    BY RunGoes
  <2> QED
    BY <1>0, <2>1, MovesTyped
<1>3. mishaps' \in Nat
  <2>1. Spends \/ mishaps' = mishaps
    BY DEF RunStep, check, takeSlot, hit, unslot, refund, succeeds, fails, releases, Settles,
           report, releaseUnique, drop, rejects, crash
  <2> QED
    BY <1>0, <2>1, SpendsTyped
<1>4. run[p].stage # "idle" => run[p].job \in Jobs
  BY <1>0 DEF RunsTyped
<1>5. TroubleTyped'
  <2>1. \/ trouble' = trouble
        \/ /\ run[p].stage # "idle"
           /\ \E what \in {"unbuilt", "failed", "died"} : Befalls(run[p].job, what)
    BY DEF RunStep, check, takeSlot, hit, unslot, refund, succeeds, fails, releases, Settles,
           report, releaseUnique, drop, rejects, crash
  <2>2. CASE trouble' = trouble
    BY <1>0, <2>2 DEF TroubleTyped
  <2>3. ASSUME NEW what \in {"unbuilt", "failed", "died"}, Befalls(run[p].job, what),
               run[p].stage # "idle"
        PROVE  TroubleTyped'
    BY <1>0, <1>4, <2>3, BefallsTyped DEF Troubles
  <2> QED
    BY <2>1, <2>2, <2>3
<1>6. RowsTyped'
  <2>1. row' = row \/ row' = Reported(p)
    BY DEF RunStep, check, takeSlot, hit, unslot, refund, succeeds, fails, releases, Settles,
           report, releaseUnique, drop, rejects, crash
  <2> QED
    BY <1>0, <2>1, ReportedTyped DEF RowsTyped
<1>7. KeyTyped'
  <2>1. key' = key \/ key' = keyFreedBy(run[p].job)
    BY DEF RunStep, check, takeSlot, hit, unslot, refund, succeeds, fails, releases, Settles,
           report, releaseUnique, drop, rejects, crash
  <2> QED
    BY <1>0, <2>1 DEF KeyTyped, keyFreedBy
<1>8. SlotsTyped'
  <2>1. \/ slot' = slot \/ slot' = slotFreed(p)
        \/ \E state \in {"leaked", "lapsing"} : slot' = slotLeft(p, state)
        \/ \E i : \E state \in {"held", "lapsing"} : slot' = [slot EXCEPT ![i] = Slot(state, p)]
        \/ crash(p)
    <3>1. CASE rejects(p)
      BY <3>1 DEF rejects
    <3> QED
      BY <3>1 DEF RunStep, check, takeSlot, hit, unslot, refund, succeeds, fails, releases, Settles,
                  report, releaseUnique, drop
  <2>2. CASE crash(p)
    BY <1>0, <1>1, <2>2 DEF crash, SlotsTyped, SlotType, Slot
  <2>3. slot' \in [1 .. kind.slots -> SlotType] => SlotsTyped'
    BY <1>1 DEF SlotsTyped
  <2>4. slot \in [1 .. kind.slots -> SlotType]
    BY <1>0 DEF SlotsTyped
  <2> QED
    BY <2>1, <2>2, <2>3, <2>4, StoreTypes
<1>9. WindowsTyped'
  <2>1. \/ window' = window \/ (\E k : window' = Hits(k)) \/ \E ks : window' = Refunds(p, ks)
    <3>1. CASE rejects(p)
      BY <3>1 DEF rejects
    <3>2. CASE \E k \in run[p].counted : refund(p, k)
      BY <3>2 DEF refund
    <3>3. CASE hit(p)
      BY <3>3 DEF hit
    <3> QED
      BY <3>1, <3>2, <3>3
      DEF RunStep, check, takeSlot, unslot, succeeds, fails, releases, Settles,
          report, releaseUnique, drop, crash
  <2>2. window' \in [DOMAIN kind.windows -> WindowType] => WindowsTyped'
    BY <1>1 DEF WindowsTyped
  <2>3. window \in [DOMAIN kind.windows -> WindowType]
    BY <1>0 DEF WindowsTyped
  <2> QED
    BY <2>1, <2>2, <2>3, StoreTypes
<1> QED
  BY <1>0, <1>1, <1>2, <1>3, <1>5, <1>6, <1>7, <1>8, <1>9, TypeParts DEF Parts, PushTyped

(* ... and what happens of itself. *)
LEMMA WorldTyped ==
  ASSUME TypeOK,
         \/ keyRunsOut \/ (\E i \in DOMAIN slot : slotRunsOut(i) \/ slotLost(i))
         \/ (\E k \in DOMAIN window : windowEnds(k)) \/ (\E j \in Jobs : retryDead(j))
  PROVE  TypeOK'
<1>0. kind \in Kinds /\ PushTyped /\ RowsTyped /\ RunsTyped /\ KeyTyped
        /\ SlotsTyped /\ WindowsTyped /\ TroubleTyped /\ mishaps \in Nat
  BY TypeParts DEF Parts
<1>1. CASE keyRunsOut
  <2>1. /\ key \in Jobs /\ key' = Nobody /\ Befalls(key, "expired")
        /\ UNCHANGED <<kind, push, row, run, slot, window, mishaps>>
    BY <1>0, <1>1 DEF keyRunsOut, KeyTyped
  <2>2. TroubleTyped'
    BY <1>0, <2>1, BefallsTyped DEF Troubles
  <2> QED
    BY <1>0, <2>1, <2>2, TypeParts
       DEF Parts, PushTyped, RowsTyped, RunsTyped, KeyTyped, SlotsTyped, WindowsTyped
<1>2. ASSUME NEW i \in DOMAIN slot, slotRunsOut(i) \/ slotLost(i)
      PROVE  TypeOK'
  <2>1. /\ slot' = [slot EXCEPT ![i] = Free]
        /\ run' = run \/ run' = [run EXCEPT ![slot[i].by].lost = TRUE]
        /\ UNCHANGED <<kind, push, row, key, window, trouble>>
        /\ Spends \/ mishaps' = mishaps
    BY <1>2 DEF slotRunsOut, slotLost
  <2>2. SlotsTyped'
    BY <2>1, StoreTypes DEF SlotsTyped
  <2>3. RunsTyped'
    <3>1. CASE run' = run
      BY <1>0, <3>1 DEF RunsTyped
    <3>2. ASSUME run' = [run EXCEPT ![slot[i].by].lost = TRUE], NEW p \in Procs
          PROVE  run'[p] \in Runs /\ run'[p].stage = run[p].stage /\ run'[p].job = run[p].job
      <4>1. run'[p] = run[p] \/ run'[p] = [run[p] EXCEPT !.lost = TRUE]
        BY <1>0, <3>2 DEF RunsTyped
      <4> QED
        BY <1>0, <4>1 DEF RunsTyped, Runs
    <3>3. CASE run' = [run EXCEPT ![slot[i].by].lost = TRUE]
      <4>1. run' = [p \in Procs |-> run'[p]]
        BY <1>0, <3>3 DEF RunsTyped
      <4> QED
        BY <1>0, <3>2, <3>3, <4>1 DEF RunsTyped
    <3> QED
      BY <2>1, <3>1, <3>3
  <2>4. mishaps' \in Nat
    BY <1>0, <2>1, SpendsTyped
  <2> QED
    BY <1>0, <2>1, <2>2, <2>3, <2>4, TypeParts
       DEF Parts, PushTyped, RowsTyped, KeyTyped, WindowsTyped, TroubleTyped
<1>3. ASSUME NEW k \in DOMAIN window, windowEnds(k)
      PROVE  TypeOK'
  <2>1. /\ window' = [window EXCEPT ![k] = Fresh]
        /\ run' = [p \in Procs |->
                    [run[p] EXCEPT !.past = @ \union ({k} \intersect run[p].counted)]]
        /\ UNCHANGED <<kind, push, row, key, slot, trouble, mishaps>>
    BY <1>3 DEF windowEnds
  <2>2. WindowsTyped'
    BY <2>1, StoreTypes DEF WindowsTyped
  <2>3. ASSUME NEW p \in Procs
        PROVE  run'[p] \in Runs /\ run'[p].stage = run[p].stage /\ run'[p].job = run[p].job
    <3> DEFINE past == run[p].past \union ({k} \intersect run[p].counted)
    <3>1. run[p] \in Runs /\ past \in SUBSET Nat
      BY <1>0, RunFields DEF RunsTyped
    <3>2. run'[p] = [run[p] EXCEPT !.past = past]
      BY <2>1
    <3> HIDE DEF past
    <3> QED
      BY <3>1, <3>2 DEF Runs
  <2>4. run' \in [Procs -> Runs]
    BY <2>1, <2>3
  <2>5. RunsTyped'
    BY <1>0, <2>3, <2>4 DEF RunsTyped
  <2> QED
    BY <1>0, <2>1, <2>2, <2>5, TypeParts
       DEF Parts, PushTyped, RowsTyped, KeyTyped, SlotsTyped, TroubleTyped
<1>4. ASSUME NEW j \in Jobs, retryDead(j)
      PROVE  TypeOK'
  <2>1. /\ Spends /\ Befalls(j, "revived")
        /\ row' = [row EXCEPT ![j] = Row("pending", 0)]
        /\ UNCHANGED <<kind, push, run, key, slot, window>>
    BY <1>4 DEF retryDead
  <2>2. TroubleTyped'
    BY <1>0, <2>1, BefallsTyped DEF Troubles
  <2>3. RowsTyped'
    BY <1>0, <2>1 DEF RowsTyped, Row, Statuses
  <2>4. mishaps' \in Nat
    BY <1>0, <2>1, SpendsTyped
  <2> QED
    BY <1>0, <2>1, <2>2, <2>3, <2>4, TypeParts
       DEF Parts, PushTyped, RunsTyped, KeyTyped, SlotsTyped, WindowsTyped
<1> QED
  BY <1>1, <1>2, <1>3, <1>4

(* Every step is a dispatch's, an attempt's, a claim or the world's. *)
LEMMA Steps ==
  ASSUME Next
  PROVE  \/ \E j \in Jobs : PushStep(j) \/ pushRejects(j) \/ pushDies(j)
         \/ \E p \in Procs, j \in Jobs : claim(p, j) \/ claimAgain(p, j)
         \/ \E p \in Procs : RunStep(p) \/ drop(p) \/ releases(p) \/ rejects(p) \/ crash(p)
         \/ keyRunsOut \/ (\E i \in DOMAIN slot : slotRunsOut(i) \/ slotLost(i))
         \/ (\E k \in DOMAIN window : windowEnds(k)) \/ (\E j \in Jobs : retryDead(j))
BY DEF Next, Fault

LEMMA TypeStep == TypeOK /\ [Next]_vars => TypeOK'
<1> SUFFICES ASSUME TypeOK, [Next]_vars PROVE TypeOK'
  OBVIOUS
<1>1. CASE Next
  BY <1>1, Steps, PushStepTyped, ClaimsTyped, RunStepTyped, WorldTyped
<1>2. CASE UNCHANGED vars
  BY <1>2 DEF vars, TypeOK
<1> QED
  BY <1>1, <1>2

(* The rows, the attempts, the locks and the windows stay within their types, *)
(* for every kind of job and whatever fails. *)
THEOREM TypeCorrect == Spec => []TypeOK
<1> QED
  BY TypeInit, TypeStep, PTL DEF Spec

-----------------------------------------------------------------------------
(* The inductive invariant.                                                *)

Sound(j) == trouble[j] \intersect Bares = {}

(* Only unique jobs use the key. *)
Keyed ==
  ~kind.unique =>
    key = Nobody /\ \A j \in Jobs : push[j].stage \notin {"ask", "look", "undo"}

(* No row before the record; and none when the key is given back, but for  *)
(* an unanswered record. *)
Unrecorded ==
  \A j \in Jobs :
    /\ push[j].stage \in {"idle", "ask", "look", "record"} => row[j].status = "none"
    /\ push[j].stage = "undo" /\ Sound(j) => row[j].status = "none"

(* A job that waits, runs or is being recorded has the key. *)
Covered ==
  kind.unique =>
    \A j \in Jobs : Sound(j) /\ (Live(j) \/ push[j].stage = "record") => key = j

(* An attempt holds its claim until it has reported; one that frees the    *)
(* key has ended the job. *)
RunsHold ==
  \A p \in Procs :
    run[p].stage # "idle" /\ Sound(run[p].job) =>
      IF run[p].stage = "unkey" THEN row[run[p].job].status \in {"gone", "dead"}
      ELSE Current(run[p])

OneRunEach ==
  \A p, q \in Procs :
    run[p].stage # "idle" /\ run[q].stage # "idle" /\ p # q /\ run[p].job = run[q].job =>
      ~Sound(run[p].job)

DropsMarked ==
  \A p \in Procs :
    run[p].stage # "idle" /\ run[p].outcome = "dropped" => "unbuilt" \in trouble[run[p].job]

KeyInv ==
  Keyed /\ Unrecorded /\ Covered /\ RunsHold /\ OneRunEach /\ DropsMarked /\ KeyHeldForAJob

IInv == TypeOK /\ KeyInv

LEMMA KeyInit == Init => KeyInv
<1> SUFFICES ASSUME Init PROVE KeyInv
  OBVIOUS
<1>1. Idle.stage = "idle"
  BY IdleType
<1>2. \A p \in Procs : run[p].stage = "idle"
  BY <1>1 DEF Init
<1> QED
  BY <1>2, KeyedAssumption
     DEF Init, KeyInv, Keyed, Unrecorded, Covered, RunsHold, OneRunEach, DropsMarked,
         KeyHeldForAJob, Push, Row, Live

(* What befell a job stays with it. *)
Grows == \A j \in Jobs : trouble[j] \subseteq trouble'[j]

LEMMA BefallsPoints ==
  ASSUME TypeOK, NEW j \in Jobs, NEW what, Befalls(j, what)
  PROVE  Grows /\ what \in trouble'[j] /\ \A i \in Jobs \ {j} : trouble'[i] = trouble[i]
BY DEF TypeOK, Befalls, Grows

LEMMA SoundBefore == Grows => \A j \in Jobs : Sound(j)' => Sound(j)
BY DEF Grows, Sound

LEMMA RunToPoints ==
  ASSUME TypeOK, NEW p \in Procs, NEW r, RunTo(p, r)
  PROVE  run'[p] = r /\ \A q \in Procs \ {p} : run'[q] = run[q]
BY DEF TypeOK, RunTo

LEMMA JobOfRun == TypeOK => \A p \in Procs : run[p].stage # "idle" => run[p].job \in Jobs
BY DEF TypeOK

(* A driver changes no row but that of a current claim, and never so that  *)
(* a job that did not wait or run does. *)
LEMMA ReportedPoints ==
  ASSUME TypeOK, NEW p \in Procs, run[p].stage # "idle"
  PROVE  /\ \A j \in Jobs \ {run[p].job} : Reported(p)[j] = row[j]
         /\ ~Current(run[p]) => Reported(p) = row
         /\ Current(run[p]) =>
              /\ row[run[p].job].status = "claimed"
              /\ Reported(p)[run[p].job].status \in {"gone", "dead", "pending"}
              /\ run[p].outcome \in {"complete", "dead"} =>
                   Reported(p)[run[p].job].status \in {"gone", "dead"}
              /\ run[p].outcome \notin {"complete", "dead", "dropped"} =>
                   Reported(p)[run[p].job].status = "pending"
<1> DEFINE r == run[p]
           old == row[r.job]
           new == IF ~Current(r) THEN old
                  ELSE CASE r.outcome = "complete" -> Row("gone", 0)
                         [] r.outcome \in {"dead", "dropped"} -> Row("dead", old.attempts)
                         [] r.outcome = "retry" -> Row("pending", old.attempts)
                         [] OTHER -> Row("pending", old.attempts - 1)
<1>1. row \in [Jobs -> [status : Statuses, attempts : Int]] /\ r.job \in Jobs
  BY DEF TypeOK
<1>2. Reported(p) = [row EXCEPT ![r.job] = new]
  BY DEF Reported
<1>3. /\ ~Current(r) => new = old
      /\ Current(r) /\ r.outcome = "complete" => new = Row("gone", 0)
      /\ Current(r) /\ r.outcome \in {"dead", "dropped"} => new = Row("dead", old.attempts)
      /\ Current(r) /\ r.outcome = "retry" => new = Row("pending", old.attempts)
      /\ Current(r) /\ r.outcome \notin {"complete", "dead", "dropped", "retry"} =>
           new = Row("pending", old.attempts - 1)
  <2> HIDE DEF r, old
  <2> QED
    OBVIOUS
<1>4. \A status, n : Row(status, n).status = status
  BY DEF Row
<1>5. Current(r) => old.status = "claimed"
  BY <1>4 DEF Current
<1>6. Reported(p)[r.job] = new /\ \A j \in Jobs \ {r.job} : Reported(p)[j] = row[j]
  <2> HIDE DEF new, r
  <2> QED
    BY <1>1, <1>2
<1>7. ~Current(r) => Reported(p) = row
  <2> HIDE DEF new, r
  <2> QED
    BY <1>1, <1>2, <1>3 DEF old
<1> HIDE DEF new, old
<1> QED
  BY <1>3, <1>4, <1>5, <1>6, <1>7 DEF old

(* A step of an attempt that neither reports nor frees the key. *)
LEMMA AttemptGoesOn ==
  ASSUME TypeOK, KeyInv, NEW p \in Procs, Grows,
         row' = row, key' = key, kind' = kind, push' = push,
         run[p].stage \notin {"idle", "unkey"}, run'[p].stage \notin {"idle", "unkey"},
         run'[p].job = run[p].job, run'[p].attempt = run[p].attempt,
         \/ run'[p].outcome # "dropped" \/ run'[p].outcome = run[p].outcome
         \/ "unbuilt" \in trouble'[run[p].job],
         \A q \in Procs \ {p} : run'[q] = run[q]
  PROVE  KeyInv'
<1>1. \A j \in Jobs : Sound(j)' => Sound(j)
  BY SoundBefore
<1>2. \A q \in Procs : run[q].stage # "idle" => run[q].job \in Jobs
  BY JobOfRun
<1>3. Keyed' /\ Unrecorded' /\ Covered'
  BY <1>1 DEF KeyInv, Keyed, Unrecorded, Covered, Live
<1>4. RunsHold'
  BY <1>1, <1>2 DEF KeyInv, RunsHold, Current
<1>5. OneRunEach'
  BY <1>1, <1>2 DEF KeyInv, OneRunEach
<1>6. DropsMarked'
  BY <1>2 DEF KeyInv, DropsMarked, Grows
<1>7. KeyHeldForAJob'
  <2> SUFFICES ASSUME NEW j \in Jobs, key' = j
               PROVE  \/ Live(j)' \/ push'[j].stage \in {"record", "undo"}
                      \/ \E q \in Procs : run'[q].stage = "unkey" /\ run'[q].job = j
                      \/ trouble'[j] \intersect {"failed", "died", "unbuilt"} # {}
    BY DEF KeyHeldForAJob
  <2> QED
    BY DEF KeyInv, KeyHeldForAJob, Live, Grows
<1> QED
  BY <1>3, <1>4, <1>5, <1>6, <1>7 DEF KeyInv

(* A step that is the end of an attempt. *)
LEMMA AttemptLeaves ==
  ASSUME TypeOK, KeyInv, NEW p \in Procs, Grows,
         kind' = kind, push' = push, run[p].stage # "idle", run'[p].stage = "idle",
         \A q \in Procs \ {p} : run'[q] = run[q],
         row' = row \/ (run[p].stage = "report" /\ row' = Reported(p)),
         key' = key \/ (run[p].stage = "unkey" /\ key' = keyFreedBy(run[p].job)),
         \/ trouble'[run[p].job] \intersect {"failed", "died", "unbuilt"} # {}
         \/ run[p].stage = "unkey" /\ key' = keyFreedBy(run[p].job)
         \/ run[p].stage = "report" /\ ~(kind.unique /\ run[p].outcome \in FreesKeyAfter)
  PROVE  KeyInv'
<1> DEFINE job == run[p].job
<1>0. job \in Jobs
  BY JobOfRun
<1>1. \A j \in Jobs : Sound(j)' => Sound(j)
  BY SoundBefore
<1>2. \A q \in Procs : run[q].stage # "idle" => run[q].job \in Jobs
  BY JobOfRun
<1>3. /\ \A j \in Jobs \ {job} : row'[j] = row[j]
      /\ row'[job] # row[job] => row[job].status = "claimed" /\ row'[job].status # "none"
      /\ row'[job].status \in {"pending", "claimed"} => Live(job)
  BY ReportedPoints, <1>0 DEF Live
<1>4. \A j \in Jobs : (row[j].status = "none" => row'[j] = row[j]) /\ (Live(j)' => Live(j))
  BY <1>3 DEF Live
<1>5. Keyed'
  BY DEF KeyInv, Keyed, keyFreedBy
<1>6. Unrecorded'
  BY <1>1, <1>4 DEF KeyInv, Unrecorded
<1>7. Covered'
  <2> SUFFICES ASSUME kind.unique, NEW j \in Jobs, Sound(j), Live(j) \/ push[j].stage = "record"
               PROVE  key' = j
    BY <1>1, <1>4 DEF Covered
  <2>1. key = j
    BY DEF KeyInv, Covered
  <2>2. CASE run[p].stage = "unkey" /\ key' = keyFreedBy(job) /\ job = j
    <3>1. row[j].status \in {"gone", "dead"}
      BY <2>2 DEF KeyInv, RunsHold
    <3> QED
      BY <3>1 DEF KeyInv, Unrecorded, Live
  <2> QED
    BY <2>1, <2>2 DEF keyFreedBy
<1>8. ASSUME NEW q \in Procs \ {p}, run[q].stage # "idle", Sound(run[q].job)
      PROVE  row'[run[q].job] = row[run[q].job]
  <2>1. run[q].job # job
    BY <1>8 DEF KeyInv, OneRunEach
  <2> QED
    BY <1>2, <1>3, <1>8, <2>1
<1>9. RunsHold'
  BY <1>1, <1>2, <1>8 DEF KeyInv, RunsHold, Current
<1>10. OneRunEach'
  BY <1>1, <1>2 DEF KeyInv, OneRunEach
<1>11. DropsMarked'
  BY <1>2 DEF KeyInv, DropsMarked, Grows
<1>12. KeyHeldForAJob'
  <2> SUFFICES ASSUME NEW j \in Jobs, key' = j
               PROVE  \/ Live(j)' \/ push'[j].stage \in {"record", "undo"}
                      \/ \E q \in Procs : run'[q].stage = "unkey" /\ run'[q].job = j
                      \/ trouble'[j] \intersect {"failed", "died", "unbuilt"} # {}
    BY DEF KeyHeldForAJob
  <2>1. key = j
    BY KeyedAssumption DEF keyFreedBy
  <2>2. \/ Live(j) \/ push[j].stage \in {"record", "undo"}
        \/ \E q \in Procs : run[q].stage = "unkey" /\ run[q].job = j
        \/ trouble[j] \intersect {"failed", "died", "unbuilt"} # {}
    BY <2>1 DEF KeyInv, KeyHeldForAJob
  <2>3. trouble[j] \subseteq trouble'[j]
    BY DEF Grows
  <2>4. CASE j # job
    BY <1>3, <2>2, <2>3, <2>4 DEF Live
  <2>5. CASE j = job /\ run[p].stage = "unkey" /\ key' = keyFreedBy(job)
    BY <2>5, KeyedAssumption DEF keyFreedBy
  <2>6. CASE /\ j = job /\ run[p].stage = "report"
             /\ ~(kind.unique /\ run[p].outcome \in FreesKeyAfter)
    <3>1. kind.unique
      BY <2>1, KeyedAssumption DEF KeyInv, Keyed
    <3>2. CASE run[p].outcome = "dropped"
      BY <2>3, <2>6, <3>2 DEF KeyInv, DropsMarked
    <3>3. CASE run[p].outcome # "dropped"
      <4>1. run[p].outcome \notin {"complete", "dead", "dropped"}
        BY <2>6, <3>1, <3>3 DEF FreesKeyAfter
      <4>2. Live(j) => Live(j)'
        BY <2>6, <4>1, ReportedPoints DEF Live
      <4> QED
        BY <2>2, <2>3, <2>6, <4>2
    <3> QED
      BY <3>2, <3>3
  <2> QED
    BY <2>4, <2>5, <2>6
<1> QED
  BY <1>5, <1>6, <1>7, <1>9, <1>10, <1>11, <1>12 DEF KeyInv

(* The report of an end after which the key is freed. *)
LEMMA AttemptFrees ==
  ASSUME TypeOK, KeyInv, NEW p \in Procs, Grows,
         kind' = kind, push' = push, key' = key, row' = Reported(p),
         run[p].stage = "report", run[p].outcome \in FreesKeyAfter,
         run'[p] = [run[p] EXCEPT !.stage = "unkey"],
         \A q \in Procs \ {p} : run'[q] = run[q]
  PROVE  KeyInv'
<1> DEFINE job == run[p].job
<1>0. job \in Jobs /\ run[p] \in Runs
  BY JobOfRun DEF TypeOK
<1>1. \A j \in Jobs : Sound(j)' => Sound(j)
  BY SoundBefore
<1>2. \A q \in Procs : run[q].stage # "idle" => run[q].job \in Jobs
  BY JobOfRun
<1>3. run'[p].stage = "unkey" /\ run'[p].job = job /\ run'[p].outcome = run[p].outcome
  BY <1>0 DEF Runs
<1>4. /\ \A j \in Jobs \ {job} : row'[j] = row[j]
      /\ Current(run[p]) => row[job].status = "claimed" /\ row'[job].status \in {"gone", "dead"}
      /\ ~Current(run[p]) => row' = row
  BY ReportedPoints DEF FreesKeyAfter
<1>5. \A j \in Jobs : (row[j].status = "none" => row'[j] = row[j]) /\ (Live(j)' => Live(j))
  BY <1>4 DEF Live
<1>6. Keyed' /\ Unrecorded' /\ Covered'
  BY <1>1, <1>5 DEF KeyInv, Keyed, Unrecorded, Covered
<1>7. ASSUME NEW q \in Procs \ {p}, run[q].stage # "idle", Sound(run[q].job)
      PROVE  row'[run[q].job] = row[run[q].job]
  <2>1. run[q].job # job
    BY <1>7 DEF KeyInv, OneRunEach
  <2> QED
    BY <1>2, <1>4, <1>7, <2>1
<1>8. RunsHold'
  <2> SUFFICES ASSUME NEW q \in Procs, run'[q].stage # "idle", Sound(run[q].job)'
               PROVE  IF run'[q].stage = "unkey" THEN row'[run'[q].job].status \in {"gone", "dead"}
                      ELSE Current(run[q])'
    BY DEF RunsHold
  <2>1. CASE q = p
    <3>1. Sound(job)
      BY <1>0, <1>1, <1>3, <2>1
    <3>2. Current(run[p])
      BY <3>1 DEF KeyInv, RunsHold
    <3> QED
      BY <1>3, <1>4, <2>1, <3>2
  <2>2. CASE q # p
    BY <1>1, <1>2, <1>7, <2>2 DEF KeyInv, RunsHold, Current
  <2> QED
    BY <2>1, <2>2
<1>9. OneRunEach'
  <2> SUFFICES ASSUME NEW q \in Procs, NEW s \in Procs, run'[q].stage # "idle",
                      run'[s].stage # "idle", q # s, run'[q].job = run'[s].job
               PROVE  ~Sound(run[q].job)'
    BY DEF OneRunEach
  <2>1. \A n \in Procs : run'[n].job = run[n].job /\ (run'[n].stage # "idle" => run[n].stage # "idle")
    BY <1>3
  <2>2. ~Sound(run[q].job)
    BY <2>1 DEF KeyInv, OneRunEach
  <2> QED
    BY <1>1, <1>2, <2>1, <2>2 DEF Sound
<1>10. DropsMarked'
  BY <1>2, <1>3 DEF KeyInv, DropsMarked, Grows
<1>11. KeyHeldForAJob'
  <2> SUFFICES ASSUME NEW j \in Jobs, key' = j
               PROVE  \/ Live(j)' \/ push'[j].stage \in {"record", "undo"}
                      \/ \E q \in Procs : run'[q].stage = "unkey" /\ run'[q].job = j
                      \/ trouble'[j] \intersect {"failed", "died", "unbuilt"} # {}
    BY DEF KeyHeldForAJob
  <2>1. CASE j = job
    BY <1>3, <2>1
  <2>2. CASE j # job
    BY <1>4, <2>2 DEF KeyInv, KeyHeldForAJob, Live, Grows
  <2> QED
    BY <2>1, <2>2
<1> QED
  BY <1>6, <1>8, <1>9, <1>10, <1>11 DEF KeyInv

(* A claim of a sound job finds no attempt of it. *)
LEMMA ClaimKeeps ==
  ASSUME TypeOK, KeyInv, NEW p \in Procs, NEW j \in Jobs, claim(p, j) \/ claimAgain(p, j)
  PROVE  KeyInv'
<1>1. /\ kind' = kind /\ push' = push /\ key' = key /\ run[p].stage = "idle"
      /\ row' = [row EXCEPT ![j] = Row("claimed", row[j].attempts + 1)]
      /\ RunTo(p, Run("check", j, row[j].attempts + 1, "none"))
      /\ row[j].status \in {"pending", "claimed"}
  BY IdleType DEF claim, claimAgain, Claims, RunTo
<1>2. /\ row'[j] = Row("claimed", row[j].attempts + 1)
      /\ \A i \in Jobs \ {j} : row'[i] = row[i]
  BY <1>1 DEF TypeOK
<1>3. /\ run'[p] = Run("check", j, row[j].attempts + 1, "none")
      /\ \A q \in Procs \ {p} : run'[q] = run[q]
  BY <1>1, RunToPoints
<1>4. /\ run'[p].stage = "check" /\ run'[p].job = j /\ run'[p].outcome = "none"
      /\ run'[p].attempt = row[j].attempts + 1
  BY <1>3 DEF Run
<1>5. trouble' = trouble \/ Befalls(j, "doubled")
  BY DEF claim, claimAgain
<1>6. Grows
  BY <1>5, BefallsPoints DEF Grows
<1>7. \A i \in Jobs : Sound(i)' => Sound(i)
  BY <1>6, SoundBefore
<1>8. Sound(j)' => claim(p, j)
  <2>1. claimAgain(p, j) => "doubled" \in trouble'[j]
    BY BefallsPoints DEF claimAgain
  <2> QED
    BY <2>1 DEF Sound, Bares
<1>9. \A q \in Procs : run[q].stage # "idle" => run[q].job \in Jobs
  BY JobOfRun
<1>10. ASSUME Sound(j)', NEW q \in Procs, run[q].stage # "idle", run[q].job = j
       PROVE  FALSE
  <2>1. Sound(run[q].job) /\ claim(p, j)
    BY <1>7, <1>8, <1>10
  <2>2. run[q].stage # "unkey" /\ Current(run[q])
    BY <1>1, <1>10, <2>1 DEF KeyInv, RunsHold
  <2>3. row[j].status = "claimed" /\ run[q].attempt = row[j].attempts
    BY <1>10, <2>2 DEF Current, Row
  <2>4. Held(j)
    BY <1>10, <2>3 DEF Held
  <2> QED
    BY <2>1, <2>3, <2>4 DEF claim
<1>11. row'[j].status = "claimed" /\ row'[j] = Row("claimed", run'[p].attempt)
  BY <1>2, <1>4 DEF Row
<1>12. Keyed' /\ Unrecorded' /\ Covered'
  <2>1. Keyed'
    BY <1>1 DEF KeyInv, Keyed
  <2>2. Unrecorded'
    BY <1>1, <1>2, <1>7 DEF KeyInv, Unrecorded
  <2>3. Covered'
    BY <1>1, <1>2, <1>7 DEF KeyInv, Covered, Live
  <2> QED
    BY <2>1, <2>2, <2>3
<1>13. RunsHold'
  <2> SUFFICES ASSUME NEW q \in Procs, run'[q].stage # "idle", Sound(run[q].job)'
               PROVE  IF run'[q].stage = "unkey" THEN row'[run'[q].job].status \in {"gone", "dead"}
                      ELSE Current(run[q])'
    BY DEF RunsHold
  <2>1. CASE q = p
    BY <1>4, <1>11, <2>1 DEF Current
  <2>2. CASE q # p
    <3>1. run'[q] = run[q] /\ run[q].job \in Jobs /\ Sound(run[q].job)
      BY <1>3, <1>7, <1>9, <2>2 DEF Sound
    <3>2. run[q].job # j
      BY <1>10, <3>1 DEF Sound
    <3> QED
      BY <1>2, <3>1, <3>2 DEF KeyInv, RunsHold, Current
  <2> QED
    BY <2>1, <2>2
<1>14. OneRunEach'
  <2> SUFFICES ASSUME NEW q \in Procs, NEW s \in Procs, run'[q].stage # "idle",
                      run'[s].stage # "idle", q # s, run'[q].job = run'[s].job,
                      Sound(run[q].job)'
               PROVE  FALSE
    BY DEF OneRunEach
  <2>1. CASE q # p /\ s # p
    BY <1>3, <1>7, <1>9, <2>1 DEF KeyInv, OneRunEach, Sound
  <2>2. CASE q = p
    <3>1. run'[s] = run[s] /\ run[s].job = j /\ Sound(j)'
      BY <1>3, <1>4, <2>2 DEF Sound
    <3> QED
      BY <1>10, <3>1
  <2>3. CASE s = p
    <3>1. run'[q] = run[q] /\ run[q].job = j /\ Sound(j)'
      BY <1>3, <1>4, <2>3 DEF Sound
    <3> QED
      BY <1>10, <3>1
  <2> QED
    BY <2>1, <2>2, <2>3
<1>15. DropsMarked'
  BY <1>3, <1>4, <1>6, <1>9 DEF KeyInv, DropsMarked, Grows
<1>16. KeyHeldForAJob'
  <2> SUFFICES ASSUME NEW i \in Jobs, key' = i
               PROVE  \/ Live(i)' \/ push'[i].stage \in {"record", "undo"}
                      \/ \E q \in Procs : run'[q].stage = "unkey" /\ run'[q].job = i
                      \/ trouble'[i] \intersect {"failed", "died", "unbuilt"} # {}
    BY DEF KeyHeldForAJob
  <2>1. Live(i) => Live(i)'
    BY <1>2, <1>11 DEF Live
  <2>2. \A q \in Procs : run[q].stage = "unkey" => run'[q] = run[q]
    BY <1>1, <1>3
  <2> QED
    BY <1>1, <1>6, <2>1, <2>2 DEF KeyInv, KeyHeldForAJob, Grows
<1> QED
  BY <1>12, <1>13, <1>14, <1>15, <1>16 DEF KeyInv

(* Steps that change nothing the invariant tells of. *)
LEMMA NothingSeen ==
  ASSUME TypeOK, KeyInv,
         kind' = kind, push' = push, row' = row, key' = key, trouble' = trouble,
         \A q \in Procs : /\ run'[q].stage = run[q].stage /\ run'[q].job = run[q].job
                          /\ run'[q].attempt = run[q].attempt
                          /\ run'[q].outcome = run[q].outcome
  PROVE  KeyInv'
<1>1. Keyed' /\ Unrecorded' /\ Covered'
  BY DEF KeyInv, Keyed, Unrecorded, Covered, Live, Sound
<1>2. RunsHold' /\ OneRunEach' /\ DropsMarked'
  BY DEF KeyInv, RunsHold, OneRunEach, DropsMarked, Current, Sound
<1>3. KeyHeldForAJob'
  BY DEF KeyInv, KeyHeldForAJob, Live
<1> QED
  BY <1>1, <1>2, <1>3 DEF KeyInv

(* A row that is written outside of the attempts is new, or of an unsound job. *)
LEMMA RunsUntouched ==
  ASSUME TypeOK, KeyInv, Grows, run' = run, NEW j \in Jobs,
         \A i \in Jobs \ {j} : row'[i] = row[i],
         row'[j] = row[j] \/ row[j].status = "none" \/ ~Sound(j)'
  PROVE  RunsHold' /\ OneRunEach' /\ DropsMarked'
<1>1. \A i \in Jobs : Sound(i)' => Sound(i)
  BY SoundBefore
<1>2. \A q \in Procs : run[q].stage # "idle" => run[q].job \in Jobs
  BY JobOfRun
<1>3. RunsHold'
  <2> SUFFICES ASSUME NEW q \in Procs, run[q].stage # "idle", Sound(run[q].job)'
               PROVE  IF run[q].stage = "unkey" THEN row'[run[q].job].status \in {"gone", "dead"}
                      ELSE row'[run[q].job] = Row("claimed", run[q].attempt)
    BY DEF RunsHold, Current
  <2>1. run[q].job \in Jobs /\ Sound(run[q].job) /\ (run[q].job = j => Sound(j)')
    BY <1>1, <1>2 DEF Sound
  <2>2. IF run[q].stage = "unkey" THEN row[run[q].job].status \in {"gone", "dead"}
        ELSE row[run[q].job] = Row("claimed", run[q].attempt)
    BY <2>1 DEF KeyInv, RunsHold, Current
  <2>3. row[run[q].job].status # "none"
    BY <2>2 DEF Row
  <2> QED
    BY <2>1, <2>2, <2>3
<1>4. OneRunEach'
  BY <1>1, <1>2 DEF KeyInv, OneRunEach, Sound
<1>5. DropsMarked'
  BY <1>2 DEF KeyInv, DropsMarked, Grows
<1> QED
  BY <1>3, <1>4, <1>5

LEMMA PushToPoints ==
  ASSUME TypeOK, NEW j \in Jobs, NEW stage, PushTo(j, stage)
  PROVE  push'[j].stage = stage /\ \A i \in Jobs \ {j} : push'[i] = push[i]
BY DEF TypeOK, PushTo

(* A dispatch is not recorded before it has the key, and gives the key     *)
(* back only when there is no row. *)
LEMMA PushKeeps ==
  ASSUME TypeOK, KeyInv, NEW j \in Jobs, PushStep(j) \/ pushRejects(j) \/ pushDies(j)
  PROVE  KeyInv'
<1>1. kind' = kind /\ run' = run
  BY DEF PushStep, dispatch, acquireKey, readHolder, record, undo, pushRejects, pushDies
<1>2. \/ trouble' = trouble
      \/ \E what \in {"failed", "unanswered", "died"} : Befalls(j, what)
  BY DEF PushStep, dispatch, acquireKey, readHolder, record, undo, pushRejects, pushDies
<1>3. Grows
  BY <1>2, BefallsPoints DEF Grows
<1>4. \A i \in Jobs : Sound(i)' => Sound(i)
  BY <1>3, SoundBefore
<1>5. \A i \in Jobs \ {j} : push'[i] = push[i]
  <2>1. (\E stage : PushTo(j, stage)) \/ \E v : push' = [push EXCEPT ![j] = v]
    BY DEF PushStep, dispatch, acquireKey, readHolder, record, undo, pushRejects, pushDies
  <2> QED
    BY <2>1, PushToPoints DEF TypeOK
<1>6. \/ row' = row
      \/ row' = [row EXCEPT ![j] = Row("pending", 0)] /\ push[j].stage = "record"
  BY DEF PushStep, dispatch, acquireKey, readHolder, record, undo, pushRejects, pushDies
<1>7. /\ \A i \in Jobs \ {j} : row'[i] = row[i]
      /\ row'[j] = row[j] \/ (row[j].status = "none" /\ row'[j].status = "pending")
  BY <1>6 DEF TypeOK, Row, KeyInv, Unrecorded
<1>8. RunsHold' /\ OneRunEach' /\ DropsMarked'
  BY <1>1, <1>3, <1>7, RunsUntouched
(* What each step makes of the stage, the row and the key of j. *)
<1>9. \/ /\ push[j].stage = "idle" /\ push'[j].stage = IF kind.unique THEN "ask" ELSE "record"
         /\ key' = key /\ row' = row
      \/ /\ push[j].stage = "ask" /\ key = Nobody /\ key' = j
         /\ push'[j].stage = "record" /\ row' = row
      \/ /\ push[j].stage = "ask" /\ key # Nobody /\ key' = key
         /\ push'[j].stage = "look" /\ row' = row
      \/ /\ push[j].stage = "look" /\ push'[j].stage \in {"ask", "done", "failed"}
         /\ key' = key /\ row' = row
      \/ /\ push[j].stage = "record" /\ push'[j].stage = "done" /\ key' = key
         /\ row'[j].status = "pending"
      \/ /\ push[j].stage = "undo" /\ push'[j].stage = "failed" /\ key' = keyFreedBy(j)
         /\ row' = row
      \/ /\ push[j].stage = "record" /\ push'[j].stage = AfterFailedRecord /\ key' = key
         /\ row' = row
      \/ /\ push[j].stage = "record" /\ push'[j].stage = AfterFailedRecord /\ key' = key
         /\ row'[j].status = "pending" /\ "unanswered" \in trouble'[j]
      \/ /\ push[j].stage \in {"ask", "look", "record", "undo"} /\ push'[j].stage = "failed"
         /\ row' = row /\ trouble'[j] \intersect {"failed", "died"} # {}
         /\ \/ key' = key
            \/ push[j].stage = "ask" /\ key' = keyTakenBy(j)
            \/ push[j].stage = "undo" /\ key' = keyFreedBy(j)
  <2>1. CASE dispatch(j)
    BY <2>1, PushToPoints DEF dispatch
  <2>2. CASE acquireKey(j)
    BY <2>2, PushToPoints DEF acquireKey, keyTakenBy
  <2>3. CASE readHolder(j)
    BY <2>3 DEF readHolder, TypeOK, Push
  <2>4. CASE record(j)
    BY <2>4, PushToPoints DEF record, TypeOK, Row
  <2>5. CASE undo(j)
    BY <2>5, PushToPoints DEF undo
  <2>6. CASE pushDies(j)
    BY <2>6, PushToPoints, BefallsPoints DEF pushDies
  <2>7. CASE pushRejects(j)
    <3>1. row' = [row EXCEPT ![j] = Row("pending", 0)] => row'[j].status = "pending"
      BY DEF TypeOK, Row
    <3>2. \A what : Befalls(j, what) => what \in trouble'[j]
      BY BefallsPoints
    <3>3. \A stage : PushTo(j, stage) => push'[j].stage = stage
      BY PushToPoints
    <3> QED
      BY <2>7, <3>1, <3>2, <3>3 DEF pushRejects
  <2> QED
    BY <2>1, <2>2, <2>3, <2>4, <2>5, <2>6, <2>7 DEF PushStep
<1>10. Keyed'
  BY <1>1, <1>5, <1>9 DEF KeyInv, Keyed, AfterFailedRecord, keyFreedBy
<1>11. Unrecorded'
  <2>1. /\ push'[j].stage \in {"idle", "ask", "look", "record"} => row'[j].status = "none"
        /\ push'[j].stage = "undo" /\ Sound(j)' => row'[j].status = "none"
    BY <1>4, <1>9 DEF KeyInv, Unrecorded, AfterFailedRecord, Sound, Bares
  <2> QED
    BY <1>4, <1>5, <1>7, <2>1 DEF KeyInv, Unrecorded
<1>12. Covered'
  <2> SUFFICES ASSUME kind.unique, NEW i \in Jobs, Sound(i)',
                      row'[i].status \in {"pending", "claimed"} \/ push'[i].stage = "record"
               PROVE  key' = i
    BY <1>1 DEF Covered, Live
  <2>1. Sound(i)
    BY <1>4
  <2>2. CASE i = j
    BY <1>9, <2>1, <2>2
       DEF KeyInv, Covered, Unrecorded, Live, AfterFailedRecord, keyFreedBy, keyTakenBy
  <2>3. CASE i # j
    <3>1. key = i
      BY <1>5, <1>7, <2>1, <2>3 DEF KeyInv, Covered, Live
    <3> QED
      BY <1>9, <2>3, <3>1, KeyedAssumption DEF keyFreedBy, keyTakenBy
  <2> QED
    BY <2>2, <2>3
<1>13. KeyHeldForAJob'
  <2> SUFFICES ASSUME NEW i \in Jobs, key' = i
               PROVE  \/ Live(i)' \/ push'[i].stage \in {"record", "undo"}
                      \/ \E q \in Procs : run'[q].stage = "unkey" /\ run'[q].job = i
                      \/ trouble'[i] \intersect {"failed", "died", "unbuilt"} # {}
    BY DEF KeyHeldForAJob
  <2>1. Live(i) => Live(i)'
    BY <1>7 DEF Live
  <2>2. CASE i # j
    <3>1. key = i
      BY <1>9, <2>2, KeyedAssumption DEF keyFreedBy, keyTakenBy
    <3> QED
      BY <1>1, <1>3, <1>5, <2>1, <2>2, <3>1 DEF KeyInv, KeyHeldForAJob, Grows
  <2>3. CASE i = j /\ push'[j].stage \notin {"record", "undo"} /\ row'[j].status # "pending"
                   /\ trouble'[j] \intersect {"failed", "died"} = {}
    <3>1. \/ push[j].stage \in {"ask", "look", "idle"} /\ key' = key /\ row' = row
          \/ push[j].stage = "undo" /\ key' = keyFreedBy(j)
          \/ push[j].stage = "record" /\ key' = key /\ ~kind.unique
      BY <1>9, <2>3 DEF AfterFailedRecord
    <3>2. push[j].stage # "undo"
      BY <2>3, <3>1, KeyedAssumption DEF keyFreedBy
    <3>3. kind.unique
      BY <2>3, <3>1, <3>2, KeyedAssumption DEF KeyInv, Keyed
    <3> QED
      BY <1>1, <1>3, <2>1, <2>3, <3>1, <3>2, <3>3 DEF KeyInv, KeyHeldForAJob, Grows
  <2> QED
    BY <2>2, <2>3 DEF Live
<1> QED
  BY <1>8, <1>10, <1>11, <1>12, <1>13 DEF KeyInv

LEMMA AttemptKeeps ==
  ASSUME TypeOK, KeyInv, NEW p \in Procs,
         RunStep(p) \/ drop(p) \/ releases(p) \/ rejects(p) \/ crash(p)
  PROVE  KeyInv'
<1> DEFINE r == run[p]
<1>1. kind' = kind /\ push' = push
  BY DEF RunStep, check, takeSlot, hit, unslot, refund, succeeds, fails, releases, Settles, report,
         releaseUnique, drop, rejects, crash
<1>2. r \in Runs /\ (r.stage # "idle" => r.job \in Jobs)
  BY DEF TypeOK
<1>3. Idle.stage = "idle"
  BY IdleType
<1>4. trouble' = trouble => Grows
  BY DEF Grows
<1>5. \A what : r.stage # "idle" /\ Befalls(r.job, what) => Grows /\ what \in trouble'[r.job]
  BY <1>2, BefallsPoints
<1>6. \A s : RunTo(p, s) => run'[p] = s /\ \A q \in Procs \ {p} : run'[q] = run[q]
  BY RunToPoints
(* The runs that attempts go on as. *)
<1>7. /\ \A o \in Outcomes : /\ Ends(r, o).stage = "report" /\ Ends(r, o).job = r.job
                             /\ Ends(r, o).attempt = r.attempt /\ Ends(r, o).outcome = o
      /\ \A s \in Runs :
           /\ AfterSlot(s).stage \in {"run", "hit"} /\ AfterSlot(s).job = s.job
           /\ AfterSlot(s).attempt = s.attempt /\ AfterSlot(s).outcome = s.outcome
           /\ Enters(s).stage = "run" /\ Enters(s).job = s.job
           /\ Enters(s).attempt = s.attempt /\ Enters(s).outcome = s.outcome
  BY <1>2, EndsType, AfterSlotType
<1>8. r.outcome \in Outcomes /\ r.at \in Nat
  BY <1>2, RunFields
<1>9. ASSUME NEW s, RunTo(p, s), r.stage \notin {"idle", "unkey"}, s.stage \notin {"idle", "unkey"},
             s.job = r.job, s.attempt = r.attempt,
             s.outcome # "dropped" \/ s.outcome = r.outcome \/ "unbuilt" \in trouble'[r.job],
             row' = row, key' = key, Grows
      PROVE  KeyInv'
  <2>1. run'[p] = s /\ \A q \in Procs \ {p} : run'[q] = run[q]
    BY <1>6, <1>9
  <2> QED
    BY <1>1, <1>9, <2>1, AttemptGoesOn
<1>10. ASSUME RunTo(p, Idle), r.stage # "idle", Grows,
              row' = row \/ (r.stage = "report" /\ row' = Reported(p)),
              key' = key \/ (r.stage = "unkey" /\ key' = keyFreedBy(r.job)),
              \/ trouble'[r.job] \intersect {"failed", "died", "unbuilt"} # {}
              \/ r.stage = "unkey" /\ key' = keyFreedBy(r.job)
              \/ r.stage = "report" /\ ~(kind.unique /\ r.outcome \in FreesKeyAfter)
       PROVE  KeyInv'
  <2>1. run'[p].stage = "idle" /\ \A q \in Procs \ {p} : run'[q] = run[q]
    BY <1>3, <1>6, <1>10
  <2> QED
    BY <1>1, <1>10, <2>1, AttemptLeaves
<1>11. CASE check(p)
  <2> DEFINE s == [r EXCEPT !.stage = "slot"]
  <2>1. s.stage = "slot" /\ s.job = r.job /\ s.attempt = r.attempt /\ s.outcome = r.outcome
    BY <1>2 DEF Runs
  <2>2. /\ RunTo(p, Ends(r, "dead")) \/ RunTo(p, s) \/ RunTo(p, AfterSlot(r))
        /\ r.stage = "check" /\ row' = row /\ key' = key /\ trouble' = trouble
    BY <1>11 DEF check
  <2>3. "dead" \in Outcomes
    BY DEF Outcomes
  <2> HIDE DEF s
  <2> QED
    BY <1>2, <1>4, <1>7, <1>9, <2>1, <2>2, <2>3
<1>12. CASE takeSlot(p)
  <2> DEFINE i == r.at
             s == [r EXCEPT !.slot = i]
             t == [r EXCEPT !.at = i + 1]
  <2>1. /\ s \in Runs /\ s.job = r.job /\ s.attempt = r.attempt /\ s.outcome = r.outcome
        /\ t.stage = r.stage /\ t.job = r.job /\ t.attempt = r.attempt /\ t.outcome = r.outcome
    BY <1>2, <1>8 DEF Runs
  <2>2. /\ RunTo(p, AfterSlot(s)) \/ RunTo(p, t) \/ RunTo(p, Ends(r, "refused"))
        /\ r.stage = "slot" /\ row' = row /\ key' = key /\ trouble' = trouble
    BY <1>12 DEF takeSlot
  <2>3. "refused" \in Outcomes
    BY DEF Outcomes
  <2> HIDE DEF s, t
  <2> QED
    BY <1>4, <1>7, <1>9, <2>1, <2>2, <2>3
<1>13. CASE hit(p)
  <2> DEFINE k == r.at
             s == [r EXCEPT !.counted = @ \union {k}, !.at = k + 1]
             t == [r EXCEPT !.stage = "refund", !.outcome = "refused"]
  <2>0. r.counted \union {k} \in SUBSET Nat /\ k + 1 \in Nat
    BY <1>2, <1>8, RunFields
  <2>1. s \in Runs /\ s.stage = r.stage /\ s.job = r.job /\ s.attempt = r.attempt
          /\ s.outcome = r.outcome
    <3> DEFINE c == r.counted \union {k}
    <3>1. s = [r EXCEPT !.counted = c, !.at = k + 1] /\ c \in SUBSET Nat
      BY <2>0
    <3> HIDE DEF c, s
    <3> QED
      BY <1>2, <2>0, <3>1 DEF Runs
  <2>2. t.stage = "refund" /\ t.job = r.job /\ t.attempt = r.attempt /\ t.outcome = "refused"
    BY <1>2 DEF Runs
  <2>3. /\ RunTo(p, s) \/ RunTo(p, Enters(s)) \/ RunTo(p, t)
        /\ r.stage = "hit" /\ row' = row /\ key' = key /\ trouble' = trouble
    BY <1>13 DEF hit
  <2> HIDE DEF s, t
  <2> QED
    BY <1>4, <1>7, <1>9, <2>1, <2>2, <2>3
<1>14. ASSUME NEW k \in r.counted, refund(p, k) PROVE KeyInv'
  <2> DEFINE s == [r EXCEPT !.counted = @ \ {k}, !.past = @ \ {k}]
  <2>1. s.stage = r.stage /\ s.job = r.job /\ s.attempt = r.attempt /\ s.outcome = r.outcome
    BY <1>2 DEF Runs
  <2>2. RunTo(p, s) /\ r.stage = "refund" /\ row' = row /\ key' = key /\ trouble' = trouble
    BY <1>14 DEF refund
  <2> HIDE DEF s
  <2> QED
    BY <1>4, <1>9, <2>1, <2>2
<1>15. CASE unslot(p)
  <2>1. /\ RunTo(p, Ends(r, r.outcome)) /\ r.stage \in {"unslot", "refund"}
        /\ row' = row /\ key' = key /\ trouble' = trouble
    BY <1>15 DEF unslot
  <2> QED
    BY <1>4, <1>7, <1>8, <1>9, <2>1
<1>16. CASE drop(p)
  <2>1. /\ RunTo(p, Ends(r, "dropped")) /\ r.stage = "check"
        /\ row' = row /\ key' = key /\ Befalls(r.job, "unbuilt")
    BY <1>16 DEF drop
  <2>2. "dropped" \in Outcomes
    BY DEF Outcomes
  <2> QED
    BY <1>5, <1>7, <1>9, <2>1, <2>2
<1>17. ASSUME NEW o \in Outcomes, o # "dropped", Settles(p, o) PROVE KeyInv'
  <2> DEFINE s == [r EXCEPT !.stage = "unslot", !.outcome = o]
  <2>1. s.stage = "unslot" /\ s.job = r.job /\ s.attempt = r.attempt /\ s.outcome = o
    BY <1>2 DEF Runs
  <2>2. /\ RunTo(p, s) \/ RunTo(p, Ends(r, o))
        /\ r.stage = "run" /\ row' = row /\ key' = key /\ trouble' = trouble
    BY <1>17 DEF Settles
  <2> HIDE DEF s
  <2> QED
    BY <1>4, <1>7, <1>9, <1>17, <2>1, <2>2
<1>18. CASE succeeds(p) \/ releases(p) \/ \E retry \in BOOLEAN : fails(p, retry)
  <2>1. \E o \in {"complete", "release", "retry", "dead"} : Settles(p, o)
    BY <1>18 DEF succeeds, releases, fails
  <2>2. {"complete", "release", "retry", "dead"} \subseteq Outcomes
    BY DEF Outcomes
  <2> QED
    BY <1>17, <2>1, <2>2
<1>19. CASE report(p)
  <2>1. r.stage = "report" /\ row' = Reported(p) /\ key' = key /\ trouble' = trouble
    BY <1>19 DEF report
  <2>2. CASE kind.unique /\ r.outcome \in FreesKeyAfter
    <3>1. RunTo(p, [r EXCEPT !.stage = "unkey"])
      BY <1>19, <2>2 DEF report, AfterReport
    <3>2. /\ run'[p] = [r EXCEPT !.stage = "unkey"]
          /\ \A q \in Procs \ {p} : run'[q] = run[q]
      BY <1>6, <3>1
    <3> QED
      BY <1>1, <1>4, <2>1, <2>2, <3>2, AttemptFrees
  <2>3. CASE ~(kind.unique /\ r.outcome \in FreesKeyAfter)
    <3>1. RunTo(p, Idle)
      BY <1>19, <2>3 DEF report, AfterReport
    <3> QED
      BY <1>4, <1>10, <2>1, <2>3, <3>1
  <2> QED
    BY <2>2, <2>3
<1>20. CASE releaseUnique(p)
  BY <1>4, <1>10, <1>20 DEF releaseUnique
<1>21. CASE crash(p)
  <2>1. /\ r.stage # "idle" /\ Befalls(r.job, "died") /\ RunTo(p, Idle) /\ row' = row /\ key' = key
    BY <1>21 DEF crash
  <2> QED
    BY <1>5, <1>10, <2>1
<1>22. CASE rejects(p)
  <2>1. /\ r.stage # "idle" /\ Befalls(r.job, "failed")
        /\ \/ RunTo(p, Idle)
           \/ RunTo(p, Ends(r, r.outcome)) /\ r.stage = "unslot" /\ row' = row /\ key' = key
        /\ row' = row \/ (r.stage = "report" /\ row' = Reported(p))
        /\ key' = key \/ (r.stage = "unkey" /\ key' = keyFreedBy(r.job))
    BY <1>22 DEF rejects
  <2>2. Grows /\ trouble'[r.job] \intersect {"failed", "died", "unbuilt"} # {}
    BY <1>5, <2>1
  <2> QED
    BY <1>7, <1>8, <1>9, <1>10, <2>1, <2>2
<1> QED
  BY <1>11, <1>12, <1>13, <1>14, <1>15, <1>16, <1>18, <1>19, <1>20, <1>21, <1>22 DEF RunStep

LEMMA WorldKeeps ==
  ASSUME TypeOK, KeyInv,
         \/ keyRunsOut \/ (\E i \in DOMAIN slot : slotRunsOut(i) \/ slotLost(i))
         \/ (\E k \in DOMAIN window : windowEnds(k)) \/ (\E j \in Jobs : retryDead(j))
  PROVE  KeyInv'
<1>1. CASE keyRunsOut
  <2>1. PICK j \in Jobs : /\ key = j /\ key' = Nobody /\ Befalls(j, "expired")
                          /\ kind' = kind /\ push' = push /\ row' = row /\ run' = run
    BY <1>1 DEF keyRunsOut, TypeOK
  <2>2. Grows /\ "expired" \in trouble'[j] /\ \A i \in Jobs \ {j} : trouble'[i] = trouble[i]
    BY <2>1, BefallsPoints
  <2>3. ~Sound(j)' /\ \A i \in Jobs : Sound(i)' => Sound(i)
    BY <2>2, SoundBefore DEF Sound, Bares
  <2>4. RunsHold' /\ OneRunEach' /\ DropsMarked'
    BY <2>1, <2>2, RunsUntouched
  <2>5. Keyed' /\ Unrecorded' /\ Covered'
    BY <2>1, <2>3 DEF KeyInv, Keyed, Unrecorded, Covered, Live
  <2>6. KeyHeldForAJob'
    BY <2>1, KeyedAssumption DEF KeyHeldForAJob
  <2> QED
    BY <2>4, <2>5, <2>6 DEF KeyInv
<1>2. ASSUME NEW i \in DOMAIN slot, slotRunsOut(i) \/ slotLost(i)
      PROVE  KeyInv'
  <2>1. /\ run' = run \/ run' = [run EXCEPT ![slot[i].by].lost = TRUE]
        /\ kind' = kind /\ push' = push /\ row' = row /\ key' = key /\ trouble' = trouble
    BY <1>2 DEF slotRunsOut, slotLost
  <2>2. ASSUME NEW q \in Procs
        PROVE  /\ run'[q].stage = run[q].stage /\ run'[q].job = run[q].job
               /\ run'[q].attempt = run[q].attempt /\ run'[q].outcome = run[q].outcome
    <3>1. run[q] \in Runs /\ (run'[q] = run[q] \/ run'[q] = [run[q] EXCEPT !.lost = TRUE])
      BY <2>1 DEF TypeOK
    <3> QED
      BY <3>1 DEF Runs
  <2> QED
    BY <2>1, <2>2, NothingSeen
<1>3. ASSUME NEW k \in DOMAIN window, windowEnds(k)
      PROVE  KeyInv'
  <2>1. /\ run' = [q \in Procs |->
                    [run[q] EXCEPT !.past = @ \union ({k} \intersect run[q].counted)]]
        /\ kind' = kind /\ push' = push /\ row' = row /\ key' = key /\ trouble' = trouble
    BY <1>3 DEF windowEnds
  <2>2. ASSUME NEW q \in Procs
        PROVE  /\ run'[q].stage = run[q].stage /\ run'[q].job = run[q].job
               /\ run'[q].attempt = run[q].attempt /\ run'[q].outcome = run[q].outcome
    <3>1. run[q] \in Runs
             /\ run'[q] = [run[q] EXCEPT !.past = @ \union ({k} \intersect run[q].counted)]
      BY <2>1 DEF TypeOK
    <3> QED
      BY <3>1 DEF Runs
  <2> QED
    BY <2>1, <2>2, NothingSeen
<1>4. ASSUME NEW j \in Jobs, retryDead(j)
      PROVE  KeyInv'
  <2>1. /\ row[j].status = "dead" /\ Befalls(j, "revived")
        /\ row' = [row EXCEPT ![j] = Row("pending", 0)]
        /\ kind' = kind /\ push' = push /\ run' = run /\ key' = key
    BY <1>4 DEF retryDead
  <2>2. Grows /\ "revived" \in trouble'[j] /\ \A i \in Jobs \ {j} : trouble'[i] = trouble[i]
    BY <2>1, BefallsPoints
  <2>3. ~Sound(j)' /\ \A i \in Jobs : Sound(i)' => Sound(i)
    BY <2>2, SoundBefore DEF Sound, Bares
  <2>4. row'[j].status = "pending" /\ \A i \in Jobs \ {j} : row'[i] = row[i]
    BY <2>1 DEF TypeOK, Row
  <2>5. RunsHold' /\ OneRunEach' /\ DropsMarked'
    BY <2>1, <2>2, <2>3, <2>4, RunsUntouched
  <2>6. Keyed'
    BY <2>1 DEF KeyInv, Keyed
  <2>7. Unrecorded' /\ Covered'
    BY <2>1, <2>3, <2>4 DEF KeyInv, Unrecorded, Covered, Live
  <2>8. KeyHeldForAJob'
    <3> SUFFICES ASSUME NEW i \in Jobs, key' = i
                 PROVE  \/ Live(i)' \/ push'[i].stage \in {"record", "undo"}
                        \/ \E q \in Procs : run'[q].stage = "unkey" /\ run'[q].job = i
                        \/ trouble'[i] \intersect {"failed", "died", "unbuilt"} # {}
      BY DEF KeyHeldForAJob
    <3>1. Live(i) => Live(i)'
      BY <2>4 DEF Live
    <3> QED
      BY <2>1, <2>2, <3>1 DEF KeyInv, KeyHeldForAJob, Grows
  <2> QED
    BY <2>5, <2>6, <2>7, <2>8 DEF KeyInv
<1> QED
  BY <1>1, <1>2, <1>3, <1>4

LEMMA IInvInit == Init => IInv
BY TypeInit, KeyInit DEF IInv

LEMMA IInvStep == IInv /\ [Next]_vars => IInv'
<1> SUFFICES ASSUME IInv, [Next]_vars PROVE IInv'
  OBVIOUS
<1>1. TypeOK /\ KeyInv
  BY DEF IInv
<1>2. TypeOK'
  BY <1>1, TypeStep
<1>3. CASE Next
  <2>1. KeyInv'
    BY <1>1, <1>3, Steps, PushKeeps, ClaimKeeps, AttemptKeeps, WorldKeeps
  <2> QED
    BY <1>2, <2>1 DEF IInv
<1>4. CASE UNCHANGED vars
  <2>1. KeyInv'
    BY <1>1, <1>4, NothingSeen DEF vars
  <2> QED
    BY <1>2, <2>1 DEF IInv
<1> QED
  BY <1>3, <1>4

LEMMA IInvImplies == IInv => OnePerKey /\ KeyHeldForAJob
<1>1. IInv => OnePerKey
  BY DEF IInv, KeyInv, Covered, OnePerKey, Sound
<1> QED
  BY <1>1 DEF IInv, KeyInv

(* No two jobs are waiting or running under one unique key, whatever fails, *)
(* unless one of the few things befell one of them that take its key away.  *)
THEOREM KeysExclusive == Spec => []OnePerKey
<1> QED
  BY IInvInit, IInvStep, IInvImplies, PTL DEF Spec

(* A unique key that is held is the key of a job that is there, unless a   *)
(* call failed, a process died or the job could not be built.              *)
THEOREM KeysInUse == Spec => []KeyHeldForAJob
<1> QED
  BY IInvInit, IInvStep, IInvImplies, PTL DEF Spec

-----------------------------------------------------------------------------
(* Slots and windows.                                                      *)

(* A run that was admitted has a slot that is held for it, or lost it. *)
HasSlot(p) ==
  /\ run[p].slot \in 1 .. kind.slots
  /\ run[p].lost \/ slot[run[p].slot] = Slot("held", p)

Admitted == {"hit", "refund", "run", "unslot"}

Owned(p) ==
  /\ run[p].stage = "check" => run[p].at = 1
  /\ run[p].stage = "slot" => run[p].at \in 1 .. kind.slots
  /\ run[p].stage \in Admitted /\ kind.slots > 0 => HasSlot(p)

SlotsOwned == \A p \in Procs : Owned(p)

(* A window's count is within its limit, and short of its hits by no more  *)
(* than the refunds of earlier ones. *)
WindowsCounted ==
  \A k \in DOMAIN window :
    /\ window[k].count <= kind.windows[k]
    /\ window[k].hits <= window[k].count + window[k].late

LimitInv == SlotsOwned /\ WindowsCounted

LEMMA LimitInit == Init => LimitInv
<1> SUFFICES ASSUME Init PROVE LimitInv
  OBVIOUS
<1>1. \A p \in Procs : run[p].stage = "idle"
  BY IdleType DEF Init
<1>2. SlotsOwned
  BY <1>1 DEF SlotsOwned, Owned, Admitted
<1>3. \A k \in DOMAIN kind.windows : kind.windows[k] \in Nat
  BY KeyedAssumption DEF Init
<1>4. WindowsCounted
  BY <1>3 DEF Init, WindowsCounted, Fresh, Window
<1> QED
  BY <1>2, <1>4 DEF LimitInv

(* No hit, refund or end of a window takes a count over its limit, or its  *)
(* hits ahead of the count but for late refunds. *)
LEMMA WindowsStep ==
  ASSUME TypeOK, WindowsCounted, kind' = kind,
         \/ window' = window \/ (\E k : Room(k) /\ window' = Hits(k))
         \/ (\E p, ks : window' = Refunds(p, ks))
         \/ (\E k : window' = [window EXCEPT ![k] = Fresh])
  PROVE  WindowsCounted'
<1> DEFINE D == DOMAIN window
           Good(w, limit) == w.count <= limit /\ w.hits <= w.count + w.late
<1>1. /\ \A k \in D : /\ window[k].count \in Int /\ window[k].hits \in Int
                      /\ window[k].late \in Nat /\ kind.windows[k] \in Nat
      /\ D = DOMAIN kind.windows
      /\ window = [k \in D |-> window[k]]
  <2>1. D = DOMAIN kind.windows /\ window \in [D -> WindowType]
    BY TypeParts DEF Parts, WindowsTyped
  <2>2. \A k \in DOMAIN kind.windows : kind.windows[k] \in Nat
    BY KeyedAssumption DEF TypeOK
  <2> QED
    BY <2>1, <2>2 DEF WindowType
<1>2. \A k \in D : Good(window[k], kind.windows[k])
  BY DEF WindowsCounted
<1>3. \A c, h, l : /\ Window(c, h, l).count = c /\ Window(c, h, l).hits = h
                   /\ Window(c, h, l).late = l
  BY DEF Window
<1>4. ASSUME DOMAIN window' = D, \A k \in D : Good(window'[k], kind.windows[k])
      PROVE  WindowsCounted'
  BY <1>4 DEF WindowsCounted
<1>5. CASE window' = window
  BY <1>2, <1>4, <1>5
<1>6. ASSUME NEW k, Room(k), window' = Hits(k) PROVE WindowsCounted'
  <2> DEFINE new == Window(window[k].count + 1, window[k].hits + 1, window[k].late)
  <2>1. DOMAIN window' = D /\ \A n \in D : window'[n] = IF n = k THEN new ELSE window[n]
    BY <1>1, <1>6 DEF Hits
  <2>2. k \in D => Good(new, kind.windows[k])
    <3> SUFFICES ASSUME k \in D PROVE Good(new, kind.windows[k])
      OBVIOUS
    <3>1. window[k].count < kind.windows[k]
      BY <1>6 DEF Room
    <3>2. new.count = window[k].count + 1 /\ new.hits = window[k].hits + 1
             /\ new.late = window[k].late
      BY <1>3
    <3> HIDE DEF new
    <3> QED
      BY <1>1, <1>2, <3>1, <3>2
  <2> HIDE DEF new, Good
  <2> QED
    BY <1>2, <1>4, <2>1, <2>2
<1>7. ASSUME NEW p, NEW ks, window' = Refunds(p, ks) PROVE WindowsCounted'
  <2> SUFFICES ASSUME NEW k \in D PROVE Good(window'[k], kind.windows[k])
    BY <1>4, <1>7 DEF Refunds
  <2> DEFINE w == window[k]
             v == window'[k]
  <2>1. \/ v = w
        \/ w.count > 0 /\ v = Window(w.count - 1, w.hits, w.late + 1)
        \/ w.count > 0 /\ v = Window(w.count - 1, w.hits - 1, w.late)
        \/ ~(w.count > 0) /\ v = Window(w.count, w.hits - 1, w.late)
    BY <1>7 DEF Refunds
  <2>2. /\ w.count \in Int /\ w.hits \in Int /\ w.late \in Nat /\ kind.windows[k] \in Nat
        /\ Good(w, kind.windows[k])
    BY <1>1, <1>2
  <2> HIDE DEF w, v
  <2>3. Good(v, kind.windows[k])
    BY <1>3, <2>1, <2>2
  <2> QED
    BY <2>3 DEF v
<1>8. ASSUME NEW k, window' = [window EXCEPT ![k] = Fresh] PROVE WindowsCounted'
  <2>1. Fresh.count = 0 /\ Fresh.hits = 0 /\ Fresh.late = 0
    BY DEF Fresh, Window
  <2>2. DOMAIN window' = D /\ \A n \in D : window'[n] = IF n = k THEN Fresh ELSE window[n]
    BY <1>1, <1>8
  <2>3. \A n \in D : Good(Fresh, kind.windows[n])
    BY <1>1, <2>1
  <2> HIDE DEF Good
  <2> QED
    BY <1>2, <1>4, <2>2, <2>3
<1> QED
  BY <1>5, <1>6, <1>7, <1>8

(* What an attempt does leaves the slots of the others alone. *)
LEMMA SlotsOfOthers ==
  ASSUME TypeOK, NEW p \in Procs, NEW q \in Procs \ {p}, NEW i \in 1 .. kind.slots,
         slot[i] = Slot("held", q)
  PROVE  /\ slotFreed(p)[i] = slot[i]
         /\ \A state : slotLeft(p, state)[i] = slot[i]
         /\ \A n, state : slot[n] = Free => [slot EXCEPT ![n] = Slot(state, p)][i] = slot[i]
<1>1. DOMAIN slot = 1 .. kind.slots
  BY DEF TypeOK
<1>2. Slot("held", q) # Slot("held", p) /\ Slot("held", q) # Free
  BY DEF Slot, Free
<1> QED
  BY <1>1, <1>2 DEF slotFreed, slotLeft

(* The slots of the others are as they were, and p's run is as it should be. *)
LEMMA OneOwns ==
  ASSUME SlotsOwned, NEW p \in Procs, kind' = kind, Owned(p)',
         \A q \in Procs \ {p} : run'[q] = run[q],
         \A q \in Procs \ {p}, i \in 1 .. kind.slots :
           slot[i] = Slot("held", q) => slot'[i] = Slot("held", q)
  PROVE  SlotsOwned'
<1> SUFFICES ASSUME NEW q \in Procs \ {p} PROVE Owned(q)'
  BY DEF SlotsOwned
<1>1. run'[q] = run[q] /\ Owned(q)
  BY DEF SlotsOwned
<1> QED
  BY <1>1 DEF Owned, HasSlot

LEMMA AfterSlotKeeps ==
  ASSUME NEW r \in Runs
  PROVE  /\ Enters(r).slot = r.slot /\ Enters(r).lost = r.lost
         /\ AfterSlot(r).slot = r.slot /\ AfterSlot(r).lost = r.lost
BY DEF AfterSlot, Enters, Runs

(* An attempt holds the slot it took until it gives it back. *)
LEMMA AttemptOwns ==
  ASSUME TypeOK, SlotsOwned, NEW p \in Procs,
         RunStep(p) \/ drop(p) \/ releases(p) \/ rejects(p) \/ crash(p)
  PROVE  SlotsOwned'
<1> DEFINE r == run[p]
<1>1. kind' = kind
  BY DEF RunStep, check, takeSlot, hit, unslot, refund, succeeds, fails, releases, Settles, report,
         releaseUnique, drop, rejects, crash
<1>2. r \in Runs /\ Owned(p) /\ kind.slots \in Nat /\ DOMAIN slot = 1 .. kind.slots
  BY KeyedAssumption DEF TypeOK, SlotsOwned
<1>3. \A s : RunTo(p, s) => run'[p] = s /\ \A q \in Procs \ {p} : run'[q] = run[q]
  BY RunToPoints
<1>4. \A q \in Procs \ {p} : run'[q] = run[q]
  <2>1. \E s : RunTo(p, s)
    BY RunGoes
  <2> QED
    BY <1>3, <2>1
<1>5. ASSUME NEW q \in Procs \ {p}, NEW i \in 1 .. kind.slots, slot[i] = Slot("held", q)
      PROVE  slot'[i] = Slot("held", q)
  <2>1. \/ slot' = slot \/ slot' = slotFreed(p)
        \/ \E state \in {"leaked", "lapsing"} : slot' = slotLeft(p, state)
        \/ \E n : \E state \in {"held", "lapsing"} :
             slot[n] = Free /\ slot' = [slot EXCEPT ![n] = Slot(state, p)]
        \/ crash(p)
    <3>1. CASE rejects(p)
      BY <3>1 DEF rejects
    <3>2. CASE takeSlot(p)
      BY <3>2 DEF takeSlot
    <3> QED
      BY <3>1, <3>2 DEF RunStep, check, hit, unslot, refund, succeeds, fails, releases, Settles,
                        report, releaseUnique, drop
  <2>2. CASE crash(p)
    <3>1. slot[i].by # p
      BY <1>5 DEF Slot
    <3> QED
      BY <1>2, <1>5, <2>2, <3>1 DEF crash
  <2>3. /\ slotFreed(p)[i] = slot[i]
        /\ \A state : slotLeft(p, state)[i] = slot[i]
        /\ \A n, state : slot[n] = Free => [slot EXCEPT ![n] = Slot(state, p)][i] = slot[i]
    BY <1>5, SlotsOfOthers
  <2> QED
    BY <1>5, <2>1, <2>2, <2>3
<1> DEFINE Ended == {"idle", "report", "unkey"}
<1>6. ASSUME NEW s, RunTo(p, s), s.stage \in Ended
      PROVE  Owned(p)'
  <2>1. run'[p].stage \in Ended
    BY <1>3, <1>6
  <2> QED
    BY <2>1 DEF Owned, Admitted
<1>7. ASSUME NEW s, RunTo(p, s), s.stage \in Admitted, r.stage \in Admitted,
             s.slot = r.slot, s.lost = r.lost, slot' = slot
      PROVE  Owned(p)'
  <2>1. run'[p] = s
    BY <1>3, <1>7
  <2> QED
    BY <1>1, <1>2, <1>7, <2>1 DEF Owned, Admitted, HasSlot
<1>8. /\ \A o \in Outcomes : Ends(r, o).stage = "report"
      /\ Idle.stage = "idle" /\ r.outcome \in Outcomes /\ r.at \in Nat
  BY <1>2, EndsType, IdleType, RunFields
<1>9. /\ \A s \in Runs : /\ AfterSlot(s).stage \in {"run", "hit"} /\ Enters(s).stage = "run"
                         /\ Enters(s).slot = s.slot /\ Enters(s).lost = s.lost
                         /\ AfterSlot(s).slot = s.slot /\ AfterSlot(s).lost = s.lost
  BY AfterSlotType, AfterSlotKeeps
<1>10. CASE check(p)
  <2> DEFINE s == [r EXCEPT !.stage = "slot"]
  <2>1. s.stage = "slot" /\ s.at = r.at
    BY <1>2 DEF Runs
  <2>2. r.at = 1
    BY <1>2, <1>10 DEF check, Owned
  <2>3. \/ RunTo(p, Ends(r, "dead"))
        \/ kind.slots > 0 /\ RunTo(p, s)
        \/ ~(kind.slots > 0) /\ RunTo(p, AfterSlot(r))
    BY <1>10 DEF check
  <2>4. "dead" \in Outcomes
    BY DEF Outcomes
  <2> HIDE DEF s
  <2>5. ASSUME kind.slots > 0 /\ RunTo(p, s)
       PROVE  Owned(p)'
    <3>1. run'[p].stage = "slot" /\ run'[p].at = 1
      BY <1>3, <2>1, <2>2, <2>5
    <3>2. 1 \in 1 .. kind.slots
      BY <1>2, <2>5
    <3> QED
      BY <1>1, <3>1, <3>2 DEF Owned, Admitted
  <2>6. ASSUME ~(kind.slots > 0) /\ RunTo(p, AfterSlot(r))
       PROVE  Owned(p)'
    <3>1. run'[p].stage \in {"run", "hit"}
      BY <1>2, <1>3, <1>9, <2>6
    <3> QED
      BY <1>1, <2>6, <3>1 DEF Owned
  <2>7. ASSUME RunTo(p, Ends(r, "dead"))
       PROVE  Owned(p)'
    BY <1>6, <1>8, <2>4, <2>7
  <2> QED
    BY <1>1, <1>4, <1>5, <2>3, <2>5, <2>6, <2>7, OneOwns
<1>11. CASE takeSlot(p)
  <2> DEFINE i == r.at
             s == [r EXCEPT !.slot = i]
             t == [r EXCEPT !.at = i + 1]
  <2>1. r.stage = "slot" /\ i \in 1 .. kind.slots
    BY <1>2, <1>11 DEF takeSlot, Owned
  <2>2. s \in Runs /\ s.slot = i /\ s.lost = r.lost /\ t.stage = "slot" /\ t.at = i + 1
    BY <1>2, <1>8, <2>1 DEF Runs
  <2>3. \/ slot' = [slot EXCEPT ![i] = Slot("held", p)] /\ RunTo(p, AfterSlot(s))
        \/ i < kind.slots /\ RunTo(p, t)
        \/ RunTo(p, Ends(r, "refused"))
    BY <1>11 DEF takeSlot
  <2>4. "refused" \in Outcomes
    BY DEF Outcomes
  <2> HIDE DEF s, t, i
  <2>5. ASSUME slot' = [slot EXCEPT ![i] = Slot("held", p)] /\ RunTo(p, AfterSlot(s))
       PROVE  Owned(p)'
    <3>1. /\ run'[p].stage \in {"run", "hit"} /\ run'[p].slot = i
          /\ slot'[i] = Slot("held", p)
      BY <1>2, <1>3, <1>9, <2>1, <2>2, <2>5
    <3> QED
      BY <1>1, <2>1, <3>1 DEF Owned, HasSlot, Admitted
  <2>6. ASSUME i < kind.slots /\ RunTo(p, t)
       PROVE  Owned(p)'
    <3>1. run'[p].stage = "slot" /\ run'[p].at = i + 1
      BY <1>3, <2>2, <2>6
    <3>2. i + 1 \in 1 .. kind.slots
      BY <1>2, <2>1, <2>6
    <3> QED
      BY <1>1, <3>1, <3>2 DEF Owned, Admitted
  <2>7. ASSUME RunTo(p, Ends(r, "refused"))
       PROVE  Owned(p)'
    BY <1>6, <1>8, <2>4, <2>7
  <2> QED
    BY <1>1, <1>4, <1>5, <2>3, <2>5, <2>6, <2>7, OneOwns
<1>12. CASE hit(p)
  <2> DEFINE k == r.at
             s == [r EXCEPT !.counted = @ \union {k}, !.at = k + 1]
             t == [r EXCEPT !.stage = "refund", !.outcome = "refused"]
  <2>0. r.counted \union {k} \in SUBSET Nat /\ k + 1 \in Nat
    BY <1>2, <1>8, RunFields
  <2>1. s \in Runs /\ s.stage = r.stage /\ s.slot = r.slot /\ s.lost = r.lost
    <3> DEFINE c == r.counted \union {k}
    <3>1. s = [r EXCEPT !.counted = c, !.at = k + 1] /\ c \in SUBSET Nat
      BY <2>0
    <3> HIDE DEF c, s
    <3> QED
      BY <1>2, <2>0, <3>1 DEF Runs
  <2>2. t.stage = "refund" /\ t.slot = r.slot /\ t.lost = r.lost
    BY <1>2 DEF Runs
  <2>3. /\ RunTo(p, s) \/ RunTo(p, Enters(s)) \/ RunTo(p, t)
        /\ r.stage = "hit" /\ slot' = slot
    BY <1>12 DEF hit
  <2> HIDE DEF s, t
  <2>4. Owned(p)'
    BY <1>7, <1>9, <2>1, <2>2, <2>3 DEF Admitted
  <2> QED
    BY <1>1, <1>4, <1>5, <2>4, OneOwns
<1>13. ASSUME NEW k \in r.counted, refund(p, k) PROVE SlotsOwned'
  <2> DEFINE s == [r EXCEPT !.counted = @ \ {k}, !.past = @ \ {k}]
  <2>1. s.stage = r.stage /\ s.slot = r.slot /\ s.lost = r.lost
    BY <1>2 DEF Runs
  <2>2. RunTo(p, s) /\ r.stage = "refund" /\ slot' = slot
    BY <1>13 DEF refund
  <2> HIDE DEF s
  <2>3. Owned(p)'
    BY <1>7, <2>1, <2>2 DEF Admitted
  <2> QED
    BY <1>1, <1>4, <1>5, <2>3, OneOwns
<1>14. ASSUME NEW o \in Outcomes, Settles(p, o) PROVE SlotsOwned'
  <2> DEFINE s == [r EXCEPT !.stage = "unslot", !.outcome = o]
  <2>1. s.stage = "unslot" /\ s.slot = r.slot /\ s.lost = r.lost
    BY <1>2 DEF Runs
  <2>2. (RunTo(p, s) \/ RunTo(p, Ends(r, o))) /\ r.stage = "run" /\ slot' = slot
    BY <1>14 DEF Settles
  <2> HIDE DEF s
  <2>3. Owned(p)'
    BY <1>6, <1>7, <1>8, <2>1, <2>2 DEF Admitted
  <2> QED
    BY <1>1, <1>4, <1>5, <2>3, OneOwns
<1>15. CASE succeeds(p) \/ releases(p) \/ \E retry \in BOOLEAN : fails(p, retry)
  <2>1. \E o \in Outcomes : Settles(p, o)
    BY <1>15 DEF succeeds, releases, fails, Outcomes
  <2> QED
    BY <1>14, <2>1
<1>16. CASE report(p)
  <2> DEFINE s == [r EXCEPT !.stage = "unkey"]
  <2>1. s.stage = "unkey"
    BY <1>2 DEF Runs
  <2>2. RunTo(p, s) \/ RunTo(p, Idle)
    BY <1>16 DEF report, AfterReport
  <2> HIDE DEF s
  <2>3. Owned(p)'
    BY <1>6, <1>8, <2>1, <2>2
  <2> QED
    BY <1>1, <1>4, <1>5, <2>3, OneOwns
<1>17. CASE unslot(p) \/ drop(p) \/ releaseUnique(p) \/ crash(p) \/ rejects(p)
  <2>1. RunTo(p, Idle) \/ \E o \in Outcomes : RunTo(p, Ends(r, o))
    <3>1. RunTo(p, Idle) \/ RunTo(p, Ends(r, r.outcome)) \/ RunTo(p, Ends(r, "dropped"))
      BY <1>17 DEF unslot, drop, releaseUnique, crash, rejects
    <3> QED
      BY <1>8, <3>1 DEF Outcomes
  <2>2. Owned(p)'
    BY <1>6, <1>8, <2>1
  <2> QED
    BY <1>1, <1>4, <1>5, <2>2, OneOwns
<1> QED
  BY <1>10, <1>11, <1>12, <1>13, <1>15, <1>16, <1>17 DEF RunStep

LEMMA ClaimOwns ==
  ASSUME TypeOK, SlotsOwned, NEW p \in Procs, NEW j \in Jobs, claim(p, j) \/ claimAgain(p, j)
  PROVE  SlotsOwned'
<1>1. kind' = kind /\ slot' = slot /\ RunTo(p, Run("check", j, row[j].attempts + 1, "none"))
  BY DEF claim, claimAgain, Claims, RunTo
<1>2. /\ run'[p].stage = "check" /\ run'[p].at = 1
      /\ \A q \in Procs \ {p} : run'[q] = run[q]
  BY <1>1, RunToPoints DEF Run
<1>3. Owned(p)'
  BY <1>2 DEF Owned, Admitted
<1> QED
  BY <1>1, <1>2, <1>3, OneOwns

(* Slots run out for runs that hold them no more, or that learn of it. *)
LEMMA WorldOwns ==
  ASSUME TypeOK, SlotsOwned,
         \/ keyRunsOut \/ (\E i \in DOMAIN slot : slotRunsOut(i) \/ slotLost(i))
         \/ (\E k \in DOMAIN window : windowEnds(k)) \/ (\E j \in Jobs : retryDead(j))
  PROVE  SlotsOwned'
<1> SUFFICES ASSUME NEW p \in Procs PROVE Owned(p)'
  BY DEF SlotsOwned
<1>1. Owned(p) /\ run[p] \in Runs /\ DOMAIN slot = 1 .. kind.slots
  BY DEF TypeOK, SlotsOwned
<1>2. ASSUME NEW past \in SUBSET Nat, run'[p] = [run[p] EXCEPT !.past = past],
             slot' = slot, kind' = kind
      PROVE  Owned(p)'
  <2>1. /\ run'[p].stage = run[p].stage /\ run'[p].at = run[p].at
        /\ run'[p].slot = run[p].slot /\ run'[p].lost = run[p].lost
    BY <1>1, <1>2 DEF Runs
  <2> QED
    BY <1>1, <1>2, <2>1 DEF Owned, HasSlot
<1>3. CASE keyRunsOut \/ \E j \in Jobs : retryDead(j)
  <2>1. run' = run /\ slot' = slot /\ kind' = kind
    BY <1>3 DEF keyRunsOut, retryDead
  <2> QED
    BY <1>1, <2>1 DEF Owned, HasSlot
<1>4. CASE \E k \in DOMAIN window : windowEnds(k)
  <2>1. PICK k : /\ run' = [q \in Procs |->
                             [run[q] EXCEPT !.past = @ \union ({k} \intersect run[q].counted)]]
                 /\ slot' = slot /\ kind' = kind
    BY <1>4 DEF windowEnds
  <2>2. run[p].past \union ({k} \intersect run[p].counted) \in SUBSET Nat
    BY <1>1, RunFields
  <2> QED
    BY <1>2, <2>1, <2>2
<1>5. ASSUME NEW i \in DOMAIN slot, slotRunsOut(i)
      PROVE  Owned(p)'
  <2>1. slot[i] # Slot("held", p)
    BY <1>5 DEF slotRunsOut, Slot
  <2>2. run' = run /\ kind' = kind /\ slot' = [slot EXCEPT ![i] = Free]
    BY <1>5 DEF slotRunsOut
  <2> QED
    BY <1>1, <2>1, <2>2 DEF Owned, HasSlot
<1>6. ASSUME NEW i \in DOMAIN slot, slotLost(i)
      PROVE  Owned(p)'
  <2>1. /\ run' = [run EXCEPT ![slot[i].by].lost = TRUE]
        /\ kind' = kind /\ slot' = [slot EXCEPT ![i] = Free]
    BY <1>6 DEF slotLost
  <2>2. /\ run'[p] = run[p] \/ run'[p] = [run[p] EXCEPT !.lost = TRUE]
        /\ slot[i].by = p => run'[p] = [run[p] EXCEPT !.lost = TRUE]
    BY <2>1 DEF TypeOK
  <2>3. /\ run'[p].stage = run[p].stage /\ run'[p].at = run[p].at /\ run'[p].slot = run[p].slot
        /\ run[p].lost => run'[p].lost
        /\ slot[i].by = p => run'[p].lost
    BY <1>1, <2>2 DEF Runs
  <2>4. slot[i] = Slot("held", p) => slot[i].by = p
    BY DEF Slot
  <2>5. run[p].slot \in 1 .. kind.slots /\ slot[run[p].slot] = Slot("held", p) =>
          run'[p].lost \/ slot'[run[p].slot] = Slot("held", p)
    BY <1>1, <2>1, <2>3, <2>4
  <2> QED
    BY <1>1, <2>1, <2>3, <2>5 DEF Owned, HasSlot
<1> QED
  BY <1>3, <1>4, <1>5, <1>6

LEMMA LimitStep == TypeOK /\ LimitInv /\ [Next]_vars => LimitInv'
<1> SUFFICES ASSUME TypeOK, LimitInv, [Next]_vars PROVE LimitInv'
  OBVIOUS
<1>1. SlotsOwned /\ WindowsCounted
  BY DEF LimitInv
<1>2. ASSUME NEW j \in Jobs, PushStep(j) \/ pushRejects(j) \/ pushDies(j)
      PROVE  LimitInv'
  <2>1. UNCHANGED <<kind, run, slot, window>>
    BY <1>2 DEF PushStep, dispatch, acquireKey, readHolder, record, undo, pushRejects, pushDies
  <2> QED
    BY <1>1, <2>1 DEF LimitInv, SlotsOwned, Owned, HasSlot, WindowsCounted
<1>3. ASSUME NEW p \in Procs, NEW j \in Jobs, claim(p, j) \/ claimAgain(p, j)
      PROVE  LimitInv'
  <2>1. kind' = kind /\ window' = window
    BY <1>3 DEF claim, claimAgain, Claims
  <2> QED
    BY <1>1, <1>3, <2>1, ClaimOwns, WindowsStep DEF LimitInv
<1>4. ASSUME NEW p \in Procs,
             RunStep(p) \/ drop(p) \/ releases(p) \/ rejects(p) \/ crash(p)
      PROVE  LimitInv'
  <2>1. kind' = kind
    BY <1>4 DEF RunStep, check, takeSlot, hit, unslot, refund, succeeds, fails, releases, Settles,
                report, releaseUnique, drop, rejects, crash
  <2>2. \/ window' = window \/ (\E k : Room(k) /\ window' = Hits(k))
        \/ (\E q, ks : window' = Refunds(q, ks))
    <3>1. CASE rejects(p)
      BY <3>1 DEF rejects
    <3>2. CASE \E k \in run[p].counted : refund(p, k)
      BY <3>2 DEF refund
    <3>3. CASE hit(p)
      BY <3>3 DEF hit
    <3> QED
      BY <1>4, <3>1, <3>2, <3>3
      DEF RunStep, check, takeSlot, unslot, succeeds, fails, releases, Settles,
          report, releaseUnique, drop, crash
  <2> QED
    BY <1>1, <1>4, <2>1, <2>2, AttemptOwns, WindowsStep DEF LimitInv
<1>5. ASSUME \/ keyRunsOut \/ (\E i \in DOMAIN slot : slotRunsOut(i) \/ slotLost(i))
             \/ (\E k \in DOMAIN window : windowEnds(k)) \/ (\E j \in Jobs : retryDead(j))
      PROVE  LimitInv'
  <2>1. kind' = kind /\ (window' = window \/ \E k : window' = [window EXCEPT ![k] = Fresh])
    BY <1>5 DEF keyRunsOut, slotRunsOut, slotLost, windowEnds, retryDead
  <2> QED
    BY <1>1, <1>5, <2>1, WorldOwns, WindowsStep DEF LimitInv
<1>6. CASE UNCHANGED vars
  <2>1. UNCHANGED <<kind, run, slot, window>>
    BY <1>6 DEF vars
  <2> QED
    BY <1>1, <2>1 DEF LimitInv, SlotsOwned, Owned, HasSlot, WindowsCounted
<1> QED
  BY <1>2, <1>3, <1>4, <1>5, <1>6, Steps

(* Runs that hold a slot hold different ones. *)
LEMMA LimitImplies == TypeOK /\ LimitInv => LimitsHold
<1> SUFFICES ASSUME TypeOK, LimitInv PROVE LimitsHold
  OBVIOUS
<1>0. kind.slots \in Nat /\ window \in [DOMAIN kind.windows -> WindowType]
        /\ \A k \in DOMAIN kind.windows : kind.windows[k] \in Nat
  BY KeyedAssumption DEF TypeOK, WindowType
<1>1. SlotsKept
  <2> SUFFICES ASSUME kind.slots > 0
               PROVE  Cardinality({p \in Procs : run[p].stage = "run" /\ ~run[p].lost}) <= kind.slots
    BY DEF SlotsKept
  <2> DEFINE S == {p \in Procs : run[p].stage = "run" /\ ~run[p].lost}
             T == 1 .. kind.slots
             f == [p \in S |-> run[p].slot]
  <2>1. \A p \in S : f[p] \in T /\ slot[f[p]] = Slot("held", p)
    BY DEF LimitInv, SlotsOwned, Owned, HasSlot, Admitted
  <2>2. \A p : Slot("held", p).by = p
    BY DEF Slot
  <2>3. f \in [S -> T] /\ DOMAIN f = S
    BY <2>1
  <2> HIDE DEF S, f, T
  <2>4. \A p, q \in S : f[p] = f[q] => p = q
    BY <2>1, <2>2
  <2>5. f \in Injection(S, T)
    BY <2>3, <2>4 DEF Injection, IsInjective
  <2>6. IsFiniteSet(T) /\ Cardinality(T) = kind.slots
    <3>1. PICK n \in Nat : n = kind.slots /\ n > 0
      BY <1>0
    <3>2. 1 \in Int /\ n \in Int
      OBVIOUS
    <3>3. IsFiniteSet(1 .. n) /\ Cardinality(1 .. n) = IF 1 > n THEN 0 ELSE n - 1 + 1
      BY <3>2, FS_Interval, Zenon
    <3>4. (IF 1 > n THEN 0 ELSE n - 1 + 1) = n
      BY <3>1
    <3> QED
      BY <3>1, <3>3, <3>4 DEF T
  <2>7. Cardinality(S) <= Cardinality(T)
    BY <2>5, <2>6, FS_Injection
  <2> QED
    BY <2>6, <2>7 DEF S
<1>2. WindowsKept
  <2> SUFFICES ASSUME NEW k \in DOMAIN window
               PROVE  window[k].hits <= kind.windows[k] + window[k].late
    BY DEF WindowsKept
  <2>1. window[k].count \in Int /\ window[k].hits \in Int /\ window[k].late \in Nat
          /\ kind.windows[k] \in Nat
    BY <1>0 DEF WindowType
  <2> QED
    BY <2>1 DEF LimitInv, WindowsCounted
<1> QED
  BY <1>1, <1>2 DEF LimitsHold

(* Whatever fails, lapses or is run twice: no more run at once than the    *)
(* concurrency limit but those that lost their slot, and no window counts  *)
(* more than its limit but for refunds of an earlier window's hits.        *)
THEOREM LimitsKept == Spec => []LimitsHold
<1>1. TypeOK /\ LimitInv /\ [Next]_vars => (TypeOK /\ LimitInv)'
  BY TypeStep, LimitStep
<1> QED
  BY <1>1, TypeInit, LimitInit, LimitImplies, PTL DEF Spec

=============================================================================
