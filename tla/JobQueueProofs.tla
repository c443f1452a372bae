--------------------------- MODULE JobQueueProofs ---------------------------
(***************************************************************************)
(* JobQueue is correct for any jobs, processes and configuration: proofs.  *)
(*                                                                         *)
(* The inductive invariant says that within one life of a job its attempt  *)
(* numbers only grow while the row can be claimed, so that an attempt      *)
(* names one run and only the newest run carries the row's attempt.        *)
(***************************************************************************)
EXTENDS JobQueue, FiniteSetTheorems, TLAPS

IInv == TypeOK /\ AttemptNamesOneRun /\ NoRunAhead /\ OnlyNewestClaimCounts

-----------------------------------------------------------------------------
(* Types.                                                                  *)

(* The heartbeat's interval is a number of ticks. *)
LEMMA EveryType == Every \in Int
BY ConfigAssumption DEF Every

(* What a process makes of a claim - running it, or finding it superseded - *)
(* is a claim. *)
LEMMA ClaimTypes ==
  ASSUME NEW c \in Claims
  PROVE  /\ Taken(c.job, c.attempt, c.life, "running", c.rank) \in Claims
         /\ Taken(c.job, c.attempt, c.life, c.stage, "superseded") \in Claims
BY DEF Claims, Taken

(* Each row a statement writes is a row. *)
LEMMA RowTypes ==
  ASSUME NEW r \in Rows, NEW d \in Int
  PROVE  /\ Blank \in Rows /\ deletedRow \in Rows
         /\ claimedRow(r) \in Rows /\ deadRow(r) \in Rows
         /\ retryRow(r, d) \in Rows /\ releasedRow(r, d) \in Rows
         /\ Later(r) \in Rows /\ extendedRow(r) \in Rows
<1>1. \A s \in Statuses, a, e, l \in Int : Row(s, a, e, l) \in Rows
  BY DEF Rows, Row
<1>2. /\ r.status \in Statuses /\ r.attempts \in Int
      /\ r.due \in Int /\ r.lease \in Int
  BY DEF Rows
<1>3. \A t \in Int : Lower(t) \in Int
  BY ConfigAssumption DEF Lower
<1>4. Later(r) \in Rows
  BY <1>1, <1>2, <1>3 DEF Later, Statuses
<1> QED
  BY <1>1, <1>2, <1>4, ConfigAssumption
  DEF Statuses, Blank, deletedRow, claimedRow, deadRow, retryRow, releasedRow, extendedRow

(* What the process runs is leaving once its report has landed. *)
LEMMA EndsType ==
  ASSUME TypeOK, NEW p \in Procs, NEW c \in hand[p], Ends(p, c)
  PROVE  /\ hand' \in [Procs -> SUBSET Claims]
         /\ leaving' \in [Procs -> SUBSET Leavers]
         /\ inFlight' = inFlight
<1>1. c.job \in Jobs /\ c.attempt \in Int /\ c.life \in Nat /\ releases \in Nat
  BY DEF TypeOK, Claims
<1>2. [key |-> Key(c), life |-> c.life, at |-> releases] \in Leavers
  BY <1>1 DEF Leavers, Key
<1> QED  BY <1>2 DEF TypeOK, Ends

(* A report keeps the types. *)
LEMMA ReportType ==
  ASSUME TypeOK, NEW p \in Procs, NEW c \in hand[p], NEW r \in Rows, Report(p, c, r)
  PROVE  /\ row' \in [Jobs -> Rows]
         /\ hand' \in [Procs -> SUBSET Claims]
         /\ leaving' \in [Procs -> SUBSET Leavers]
         /\ inFlight' \in [Procs -> SUBSET (Jobs \X Int)]
         /\ beat' \in [Procs -> Int]
         /\ life' \in [Jobs -> Nat]
         /\ mixed' \subseteq Jobs /\ rekeyed' \subseteq Jobs
         /\ faults' \in Nat /\ missed' \in Nat
<1>1. c.job \in Jobs
  BY DEF TypeOK, Claims
<1>2. /\ hand' \in [Procs -> SUBSET Claims]
      /\ leaving' \in [Procs -> SUBSET Leavers]
      /\ inFlight' = inFlight
  BY EndsType DEF Report
<1> QED  BY <1>1, <1>2 DEF TypeOK, Report

(* The table is empty at first. *)
LEMMA InitType == Init => TypeOK
BY DEF Init, TypeOK, Blank, Row, Rows, Statuses, NoTimer

(* Every operation keeps the table, the hands and the timers in their types. *)
LEMMA NextType == TypeOK /\ [Next]_vars => TypeOK'
<1> SUFFICES ASSUME TypeOK, [Next]_vars PROVE TypeOK'
  OBVIOUS
<1> USE ConfigAssumption
<1>1. ASSUME NEW j \in Jobs, NEW d \in Delays, Enqueue(j, d) PROVE TypeOK'
  BY <1>1 DEF Enqueue, inMemory, TypeOK, Rows, Statuses, Row
<1>2. ASSUME NEW p \in Procs, NEW S \in SUBSET Jobs, Claim(p, S) PROVE TypeOK'
  <2>1. row' \in [Jobs -> Rows]
    <3>1. \A j \in Jobs : claimedRow(row[j]) \in Rows
      BY RowTypes DEF TypeOK
    <3> QED  BY <1>2, <3>1 DEF Claim, TypeOK
  <2>2. hand' \in [Procs -> SUBSET Claims]
    <3>1. \A q \in Procs : Superseded(hand[q], S) \subseteq Claims
      BY ClaimTypes DEF Superseded, TypeOK
    <3>2. \A j \in S : Taken(j, row[j].attempts + 1, life[j], "handed", "newest") \in Claims
      BY DEF TypeOK, Claims, Rows, Taken
    <3> QED  BY <1>2, <3>1, <3>2 DEF Claim
  <2>3. beat' \in [Procs -> Int]
    BY <1>2, EveryType DEF Claim, TypeOK
  <2>4. inFlight' \in [Procs -> SUBSET (Jobs \X Int)]
    <3>1. \A j \in S : Key(Taken(j, row[j].attempts + 1, life[j], "handed", "newest"))
                         \in Jobs \X Int
      BY DEF TypeOK, Rows, Taken, Key
    <3> QED  BY <1>2, <3>1 DEF Claim, TypeOK
  <2>5. rekeyed' \subseteq Jobs
    BY <1>2 DEF Claim, TypeOK
  <2>6. UNCHANGED <<leaving, life, tries, mixed, faults, missed, releases>>
    BY <1>2 DEF Claim
  <2> QED  BY <2>1, <2>2, <2>3, <2>4, <2>5, <2>6 DEF TypeOK
<1>3. ASSUME NEW p \in Procs, Heartbeat(p) PROVE TypeOK'
  <2>1. row' \in [Jobs -> Rows]
    <3>1. \A j \in Jobs : extendedRow(row[j]) \in Rows
      BY RowTypes DEF TypeOK
    <3> QED  BY <1>3, <3>1 DEF Heartbeat, TypeOK
  <2> QED  BY <1>3, <2>1, EveryType DEF Heartbeat, inMemory, TypeOK, NoTimer
<1>4. ASSUME NEW p \in Procs, MissHeartbeat(p) PROVE TypeOK'
  BY <1>4, EveryType DEF MissHeartbeat, inMemory, TypeOK
<1>5. ASSUME NEW p \in Procs, Crash(p) PROVE TypeOK'
  BY <1>5 DEF Crash, TypeOK, NoTimer
<1>6. ASSUME NEW p \in Procs, NEW c \in hand[p], Begin(p, c) PROVE TypeOK'
  <2>1. /\ c \in Claims /\ c.job \in Jobs
        /\ Taken(c.job, c.attempt, c.life, "running", c.rank) \in Claims
    BY ClaimTypes DEF TypeOK, Claims
  <2>2. tries' \in [Jobs -> Int]
    BY <1>6, <2>1 DEF Begin, TypeOK
  <2>3. hand' \in [Procs -> SUBSET Claims]
    BY <1>6, <2>1 DEF Begin, TypeOK
  <2> QED  BY <1>6, <2>2, <2>3 DEF Begin, TypeOK
<1>7. ASSUME NEW p \in Procs, NEW c \in hand[p], LoseReport(p, c) PROVE TypeOK'
  <2>1. Ends(p, c)
    BY <1>7 DEF LoseReport
  <2> QED  BY <1>7, <2>1, EndsType DEF LoseReport, TypeOK
<1>8. ASSUME NEW p \in Procs, NEW c \in hand[p], NEW d \in Delays, NEW retry \in BOOLEAN,
             \/ Fail(p, c, d, retry) \/ ReleaseUnknown(p, c, d) \/ Release(p, c, d)
      PROVE  TypeOK'
  <2>1. c.job \in Jobs /\ row[c.job] \in Rows /\ d \in Int
    BY DEF TypeOK, Claims
  <2>2. /\ deletedRow \in Rows /\ deadRow(row[c.job]) \in Rows
        /\ retryRow(row[c.job], d) \in Rows /\ releasedRow(row[c.job], d) \in Rows
    BY <2>1, RowTypes
  <2>3. PICK r \in Rows : Report(p, c, r)
    BY <1>8, <2>2 DEF Fail, ReleaseUnknown, Release
  <2>4. tries' \in [Jobs -> Int] /\ releases' \in Nat
    BY <1>8, <2>1 DEF TypeOK, Fail, ReleaseUnknown, Release
  <2>5. /\ row' \in [Jobs -> Rows] /\ hand' \in [Procs -> SUBSET Claims]
        /\ leaving' \in [Procs -> SUBSET Leavers]
        /\ inFlight' \in [Procs -> SUBSET (Jobs \X Int)]
        /\ beat' \in [Procs -> Int] /\ life' \in [Jobs -> Nat]
        /\ mixed' \subseteq Jobs /\ rekeyed' \subseteq Jobs
        /\ faults' \in Nat /\ missed' \in Nat
    BY <2>3, ReportType
  <2> QED  BY <2>4, <2>5 DEF TypeOK
<1>9. ASSUME NEW j \in Jobs, retryDead(j) PROVE TypeOK'
  BY <1>9 DEF retryDead, inMemory, TypeOK, Rows, Statuses, Row
<1>10. ASSUME NEW j \in Jobs, prune(j) PROVE TypeOK'
  BY <1>10 DEF prune, inMemory, TypeOK, Rows, Statuses, Row, deletedRow
<1>11. ASSUME Tick PROVE TypeOK'
  <2>1. \A j \in Jobs : Later(row[j]) \in Rows
    BY RowTypes DEF TypeOK
  <2> QED  BY <1>11, <2>1 DEF Tick, inMemory, TypeOK
<1>12. CASE UNCHANGED vars
  BY <1>12 DEF vars, TypeOK
<1>13. ASSUME NEW p \in Procs, NEW c \in hand[p], DropUnrun(p, c) \/ Complete(p, c)
       PROVE  TypeOK'
  <2>1. c.job \in Jobs /\ row[c.job] \in Rows
    BY DEF TypeOK, Claims
  <2>2. deletedRow \in Rows /\ deadRow(row[c.job]) \in Rows
    BY <2>1, RowTypes
  <2>3. PICK r \in Rows : Report(p, c, r)
    BY <1>13, <2>2 DEF DropUnrun, Complete
  <2>4. tries' \in [Jobs -> Int] /\ releases' \in Nat
    BY <1>13 DEF TypeOK, DropUnrun, Complete
  <2>5. /\ row' \in [Jobs -> Rows] /\ hand' \in [Procs -> SUBSET Claims]
        /\ leaving' \in [Procs -> SUBSET Leavers]
        /\ inFlight' \in [Procs -> SUBSET (Jobs \X Int)]
        /\ beat' \in [Procs -> Int] /\ life' \in [Jobs -> Nat]
        /\ mixed' \subseteq Jobs /\ rekeyed' \subseteq Jobs
        /\ faults' \in Nat /\ missed' \in Nat
    BY <2>3, ReportType
  <2> QED  BY <2>4, <2>5 DEF TypeOK
<1>14. ASSUME NEW p \in Procs, NEW l \in leaving[p], Leave(p, l) PROVE TypeOK'
  BY <1>14 DEF Leave, TypeOK
<1> QED
  BY <1>1, <1>2, <1>3, <1>4, <1>5, <1>6, <1>7, <1>8, <1>9, <1>10, <1>11, <1>12, <1>13, <1>14
  DEF Next, ClaimSome, LeaveSome, Step

(* The table, what each process runs, and its heartbeat timer keep their    *)
(* types, for any jobs, processes and configuration. *)
THEOREM TypeCorrect == Spec => []TypeOK
<1> QED  BY InitType, NextType, PTL DEF Spec

-----------------------------------------------------------------------------
(* The inductive invariant.                                                *)

(* Nothing is dispatched and nothing is in hand at first. *)
LEMMA InitIInv == Init => IInv
<1> SUFFICES ASSUME Init PROVE IInv
  OBVIOUS
<1>1. \A p \in Procs : hand[p] = {}
  BY DEF Init
<1> QED
  BY <1>1, InitType DEF IInv, AttemptNamesOneRun, NoRunAhead, OnlyNewestClaimCounts

(* Steps that only take claims out of hands, and leave every row's status  *)
(* and attempts alone. *)
LEMMA QuietStep ==
  ASSUME IInv, TypeOK',
         \A q \in Procs : hand'[q] \subseteq hand[q],
         life' = life, mixed \subseteq mixed',
         \A j \in Jobs : /\ row'[j].status = row[j].status
                         /\ row'[j].attempts = row[j].attempts
  PROVE  IInv'
<1>1. \A q \in Procs : \A c \in hand'[q] : c \in hand[q] /\ c.job \in Jobs
  BY DEF IInv, TypeOK, Claims
<1>2. \A c \in Claims : Fresh(c)' => Fresh(c)
  BY DEF Fresh
<1>3. AttemptNamesOneRun'
  BY <1>1 DEF IInv, AttemptNamesOneRun, Fresh
<1>4. NoRunAhead'
  BY <1>1 DEF IInv, NoRunAhead, Fresh
<1>5. OnlyNewestClaimCounts'
  BY <1>1 DEF IInv, OnlyNewestClaimCounts, Fresh, Current
<1> QED  BY <1>3, <1>4, <1>5 DEF IInv

(* A report.  The row it writes may be claimed again only as waiting, and  *)
(* then with the attempt of the claim it ends, or the one before. *)
LEMMA ReportStep ==
  ASSUME IInv, TypeOK', NEW p \in Procs, NEW c \in hand[p], NEW r \in Rows,
         Report(p, c, r),
         r.status \in {"pending", "dead", "gone"},
         r.status = "pending" => r.attempts >= row[c.job].attempts - 1
  PROVE  IInv'
<1>1. \A q \in Procs : \A d \in hand'[q] :
        /\ d \in hand[q] /\ d.job \in Jobs /\ d.attempt \in Int
        /\ q = p => d # c
  BY DEF IInv, TypeOK, Claims, Report, Ends
<1>2. c.job \in Jobs /\ c.attempt \in Int
  BY DEF IInv, TypeOK, Claims
<1>3. life' = life /\ mixed \subseteq mixed'
  BY DEF Report
<1>4. \A j \in Jobs : row'[j] = IF Current(c) /\ j = c.job THEN r ELSE row[j]
  BY <1>2 DEF Report, IInv, TypeOK
<1>5. \A j \in Jobs : row[j].attempts \in Int
  BY DEF IInv, TypeOK, Rows
<1>6. AttemptNamesOneRun'
  BY <1>1, <1>3 DEF IInv, AttemptNamesOneRun, Fresh
<1>7. NoRunAhead'
  <2> SUFFICES ASSUME NEW q \in Procs, NEW d \in hand'[q]
               PROVE  /\ row'[d.job].status # "none" /\ d.life <= life'[d.job]
                      /\ Fresh(d)' /\ row'[d.job].status \in {"pending", "claimed"}
                           => d.attempt <= row'[d.job].attempts
    BY DEF NoRunAhead
  <2>1. /\ row[d.job].status # "none" /\ d.life <= life[d.job]
        /\ Fresh(d) /\ row[d.job].status \in {"pending", "claimed"}
             => d.attempt <= row[d.job].attempts
    BY <1>1 DEF IInv, NoRunAhead
  <2>2. CASE ~(Current(c) /\ d.job = c.job)
    <3>1. row'[d.job] = row[d.job]
      BY <1>1, <1>4, <2>2
    <3> QED  BY <1>1, <1>3, <2>1, <3>1 DEF Fresh
  <2>3. CASE Current(c) /\ d.job = c.job
    <3>1. row'[d.job] = r
      BY <1>1, <1>4, <2>3
    <3>2. ASSUME Fresh(d)', r.status = "pending"
          PROVE  d.attempt <= r.attempts
      <4>1. Fresh(d) /\ Fresh(c)
        BY <1>3, <2>3, <3>2 DEF Fresh, Report
      <4>2. d.attempt <= row[d.job].attempts /\ c.attempt = row[d.job].attempts
        BY <2>1, <2>3, <4>1 DEF Current
      <4>3. d.attempt # c.attempt
        BY <1>1, <2>3, <4>1 DEF IInv, AttemptNamesOneRun
      <4> QED  BY <1>1, <1>2, <1>5, <2>3, <3>2, <4>2, <4>3 DEF Rows
    <3> QED  BY <1>3, <2>1, <3>1, <3>2
  <2> QED  BY <2>2, <2>3
<1>8. OnlyNewestClaimCounts'
  <2> SUFFICES ASSUME NEW q \in Procs, NEW d \in hand'[q], Fresh(d)', Current(d)'
               PROVE  d.rank = "newest"
    BY DEF OnlyNewestClaimCounts
  <2>1. row'[d.job] = row[d.job]
    BY <1>1, <1>4 DEF Current
  <2>2. Fresh(d) /\ Current(d)
    BY <1>1, <1>3, <2>1 DEF Fresh, Current
  <2> QED  BY <1>1, <2>2 DEF IInv, OnlyNewestClaimCounts
<1> QED  BY <1>6, <1>7, <1>8 DEF IInv

(* The claims p takes carry attempts no run in hand has. *)
LEMMA ClaimStep ==
  ASSUME IInv, TypeOK', NEW p \in Procs, NEW S \in SUBSET Jobs, Claim(p, S)
  PROVE  IInv'
<1> DEFINE New(j) == Taken(j, row[j].attempts + 1, life[j], "handed", "newest")
           Old(c) == IF c.job \in S
                     THEN Taken(c.job, c.attempt, c.life, c.stage, "superseded") ELSE c
<1>1. life' = life /\ mixed' = mixed
  BY DEF Claim
<1>2. \A j \in Jobs : /\ row[j] \in Rows /\ life[j] \in Nat
                      /\ row[j].attempts \in Int
  BY DEF IInv, TypeOK, Rows
<1>3. \A j \in S : /\ row[j].status \in {"pending", "claimed"}
                   /\ row'[j].status = "claimed"
                   /\ row'[j].attempts = row[j].attempts + 1
  BY <1>2 DEF Claim, claimable, claimedRow, Row
<1>4. \A j \in Jobs \ S : row'[j] = row[j]
  BY DEF Claim
<1>5. \A c \in Claims : /\ c.job \in Jobs /\ c.attempt \in Int
                        /\ Old(c).job = c.job /\ Old(c).attempt = c.attempt
                        /\ Old(c).life = c.life
                        /\ c.job \in S => Old(c).rank = "superseded"
                        /\ c.job \notin S => Old(c) = c
  BY DEF Taken, Claims
<1>6. \A j \in S : /\ New(j).job = j /\ New(j).attempt = row[j].attempts + 1
                   /\ New(j).life = life[j] /\ New(j).rank = "newest"
  BY DEF Taken
<1> HIDE DEF New, Old
<1>7. \A q \in Procs : \A d \in hand'[q] :
        \/ \E c \in hand[q] : c \in Claims /\ d = Old(c)
        \/ q = p /\ \E j \in S : d = New(j)
  BY DEF Claim, Superseded, IInv, TypeOK, New, Old
<1>8. \A q \in Procs : \A c \in hand[q] :
        Fresh(c) /\ c.job \in S => c.attempt <= row[c.job].attempts
  BY <1>3 DEF IInv, NoRunAhead
<1>9. \A d, e : d.job = e.job /\ d.life = e.life => (Fresh(d)' <=> Fresh(e))
  BY <1>1 DEF Fresh
<1>10. AttemptNamesOneRun'
  <2> SUFFICES ASSUME NEW q \in Procs, NEW u \in Procs, NEW d \in hand'[q], NEW e \in hand'[u],
                      Fresh(d)', Fresh(e)', d.job = e.job, d.attempt = e.attempt
               PROVE  q = u /\ d = e
    BY DEF AttemptNamesOneRun
  <2>1. ASSUME NEW c \in hand[q], c \in Claims, d = Old(c),
               NEW b \in hand[u], b \in Claims, e = Old(b)
        PROVE  q = u /\ d = e
    <3>1. /\ Fresh(c) /\ Fresh(b) /\ c.job = b.job /\ c.attempt = b.attempt
      BY <1>5, <1>9, <2>1
    <3>2. q = u /\ c = b
      BY <3>1 DEF IInv, AttemptNamesOneRun
    <3> QED  BY <2>1, <3>2
  <2>2. ASSUME NEW j \in S, d = New(j), NEW b \in hand[u], b \in Claims, e = Old(b)
        PROVE  FALSE
    <3>1. Fresh(b) /\ b.job = j /\ b.attempt = row[j].attempts + 1
      BY <1>5, <1>6, <1>9, <2>2
    <3> QED  BY <1>2, <1>8, <3>1
  <2>3. ASSUME NEW j \in S, e = New(j), NEW c \in hand[q], c \in Claims, d = Old(c)
        PROVE  FALSE
    <3>1. Fresh(c) /\ c.job = j /\ c.attempt = row[j].attempts + 1
      BY <1>5, <1>6, <1>9, <2>3
    <3> QED  BY <1>2, <1>8, <3>1
  <2>4. ASSUME q = p, u = p, NEW j \in S, d = New(j), NEW k \in S, e = New(k)
        PROVE  q = u /\ d = e
    BY <1>6, <2>4
  <2> QED  BY <1>7, <2>1, <2>2, <2>3, <2>4
<1>11. NoRunAhead'
  <2> SUFFICES ASSUME NEW q \in Procs, NEW d \in hand'[q]
               PROVE  /\ row'[d.job].status # "none" /\ d.life <= life'[d.job]
                      /\ Fresh(d)' /\ row'[d.job].status \in {"pending", "claimed"}
                           => d.attempt <= row'[d.job].attempts
    BY DEF NoRunAhead
  <2>1. ASSUME NEW c \in hand[q], c \in Claims, d = Old(c)
        PROVE  /\ row'[d.job].status # "none" /\ d.life <= life'[d.job]
               /\ Fresh(d)' /\ row'[d.job].status \in {"pending", "claimed"}
                    => d.attempt <= row'[d.job].attempts
    <3>1. /\ row[c.job].status # "none" /\ c.life <= life[c.job]
          /\ Fresh(c) /\ row[c.job].status \in {"pending", "claimed"}
               => c.attempt <= row[c.job].attempts
      BY DEF IInv, NoRunAhead
    <3>2. /\ d.job = c.job /\ d.attempt = c.attempt /\ d.life = c.life
          /\ c.job \in Jobs /\ c.attempt \in Int /\ (Fresh(d)' <=> Fresh(c))
      BY <1>5, <1>9, <2>1
    <3>3. CASE c.job \in S
      BY <1>1, <1>2, <1>3, <3>1, <3>2, <3>3
    <3>4. CASE c.job \notin S
      BY <1>1, <1>4, <3>1, <3>2, <3>4
    <3> QED  BY <3>3, <3>4
  <2>2. ASSUME NEW j \in S, d = New(j)
        PROVE  /\ row'[d.job].status # "none" /\ d.life <= life'[d.job]
               /\ Fresh(d)' /\ row'[d.job].status \in {"pending", "claimed"}
                    => d.attempt <= row'[d.job].attempts
    BY <1>1, <1>2, <1>3, <1>6, <2>2
  <2> QED  BY <1>7, <2>1, <2>2
<1>12. OnlyNewestClaimCounts'
  <2> SUFFICES ASSUME NEW q \in Procs, NEW d \in hand'[q], Fresh(d)', Current(d)'
               PROVE  d.rank = "newest"
    BY DEF OnlyNewestClaimCounts
  <2>1. ASSUME NEW c \in hand[q], c \in Claims, d = Old(c)
        PROVE  d.rank = "newest"
    <3>1. /\ Fresh(c) /\ c.job \in Jobs /\ c.attempt \in Int
          /\ row'[c.job].status = "claimed" /\ row'[c.job].attempts = c.attempt
      BY <1>5, <1>9, <2>1 DEF Current
    <3>2. c.job \notin S
      BY <1>2, <1>3, <1>8, <3>1
    <3>3. d = c /\ Current(c)
      BY <1>4, <1>5, <2>1, <3>1, <3>2 DEF Current
    <3> QED  BY <3>1, <3>3 DEF IInv, OnlyNewestClaimCounts
  <2> QED  BY <1>6, <1>7, <2>1
<1> QED  BY <1>10, <1>11, <1>12 DEF IInv

(* Entering run() changes how far a claim is, and not which it is. *)
LEMMA BeginStep ==
  ASSUME IInv, TypeOK', NEW p \in Procs, NEW c \in hand[p], Begin(p, c)
  PROVE  IInv'
<1> DEFINE b == Taken(c.job, c.attempt, c.life, "running", c.rank)
<1>1. /\ b.job = c.job /\ b.attempt = c.attempt /\ b.life = c.life /\ b.rank = c.rank
  BY DEF Taken
<1> HIDE DEF b
<1>2. row' = row /\ life' = life /\ mixed' = mixed
  BY DEF Begin
<1>3. \A q \in Procs : \A d \in hand'[q] :
        \/ d \in hand[q] /\ (q = p => d # c)
        \/ q = p /\ d = b
  BY DEF Begin, IInv, TypeOK, b
<1>4. \A q \in Procs : \A d \in hand'[q] : \E e \in hand[q] :
        /\ e.job = d.job /\ e.attempt = d.attempt /\ e.life = d.life /\ e.rank = d.rank
        /\ d # b => e = d
        /\ d = b /\ q = p => e = c \/ e = b
  BY <1>1, <1>3
<1>5. AttemptNamesOneRun'
  <2> SUFFICES ASSUME NEW q \in Procs, NEW u \in Procs, NEW d \in hand'[q], NEW e \in hand'[u],
                      Fresh(d)', Fresh(e)', d.job = e.job, d.attempt = e.attempt
               PROVE  q = u /\ d = e
    BY DEF AttemptNamesOneRun
  <2>1. \A x \in hand[q], y \in hand[u] :
          /\ x.job = d.job /\ x.attempt = d.attempt /\ x.life = d.life
          /\ y.job = e.job /\ y.attempt = e.attempt /\ y.life = e.life
          => q = u /\ x = y
    BY <1>2 DEF IInv, AttemptNamesOneRun, Fresh
  <2>2. CASE d \in hand[q] /\ e \in hand[u]
    BY <2>1, <2>2
  <2>3. CASE q = p /\ d = b /\ e \in hand[u] /\ (u = p => e # c)
    BY <1>1, <2>1, <2>3
  <2>4. CASE u = p /\ e = b /\ d \in hand[q] /\ (q = p => d # c)
    BY <1>1, <2>1, <2>4
  <2>5. CASE q = p /\ d = b /\ u = p /\ e = b
    BY <2>5
  <2> QED  BY <1>3, <2>2, <2>3, <2>4, <2>5
<1>6. NoRunAhead'
  BY <1>2, <1>4 DEF IInv, NoRunAhead, Fresh
<1>7. OnlyNewestClaimCounts'
  BY <1>2, <1>4 DEF IInv, OnlyNewestClaimCounts, Fresh, Current
<1> QED  BY <1>5, <1>6, <1>7 DEF IInv

(* Rows that change outside any claim: dispatched, brought back, pruned. *)
LEMMA TableStep ==
  ASSUME IInv, TypeOK', NEW j \in Jobs,
         \/ \E d \in Delays : Enqueue(j, d)
         \/ retryDead(j)
         \/ prune(j)
  PROVE  IInv'
<1>1. hand' = hand /\ mixed' = mixed
  BY DEF Enqueue, retryDead, prune, inMemory
<1>2. \A q \in Procs : \A c \in hand[q] : c.job \in Jobs
  BY DEF IInv, TypeOK, Claims
<1>3. \A i \in Jobs \ {j} : row'[i] = row[i] /\ life'[i] = life[i]
  BY DEF Enqueue, retryDead, prune, IInv, TypeOK
<1>4. \A q \in Procs : \A c \in hand[q] :
        c.job = j => row[j].status = "dead" /\ c.life <= life[j]
  BY DEF Enqueue, retryDead, prune, IInv, NoRunAhead
<1>5. /\ row'[j].status \in {"pending", "gone"}
      /\ row[j].status = "dead" =>
           \/ life'[j] = life[j] + 1
           \/ life'[j] = life[j] /\ row'[j].status = "gone"
  BY DEF Enqueue, retryDead, prune, IInv, TypeOK, deletedRow, Row
<1>6. \A q \in Procs : \A c \in hand[q] : Fresh(c)' => Fresh(c) /\ life'[c.job] = life[c.job]
  <2> SUFFICES ASSUME NEW q \in Procs, NEW c \in hand[q], Fresh(c)'
               PROVE  Fresh(c) /\ life'[c.job] = life[c.job]
    OBVIOUS
  <2>1. c.life \in Nat /\ life[j] \in Nat
    BY DEF IInv, TypeOK, Claims
  <2> QED  BY <1>1, <1>2, <1>3, <1>4, <1>5, <2>1 DEF Fresh
<1>7. AttemptNamesOneRun'
  BY <1>1, <1>6 DEF IInv, AttemptNamesOneRun
<1>8. NoRunAhead'
  <2> SUFFICES ASSUME NEW q \in Procs, NEW c \in hand[q]
               PROVE  /\ row'[c.job].status # "none" /\ c.life <= life'[c.job]
                      /\ Fresh(c)' /\ row'[c.job].status \in {"pending", "claimed"}
                           => c.attempt <= row'[c.job].attempts
    BY <1>1 DEF NoRunAhead
  <2>1. c.life \in Nat /\ life[j] \in Nat
    BY DEF IInv, TypeOK, Claims
  <2>2. CASE c.job = j
    BY <1>4, <1>5, <1>6, <2>1, <2>2
  <2>3. CASE c.job # j
    BY <1>2, <1>3, <1>6, <2>3 DEF IInv, NoRunAhead
  <2> QED  BY <2>2, <2>3
<1>9. OnlyNewestClaimCounts'
  <2> SUFFICES ASSUME NEW q \in Procs, NEW c \in hand[q], Fresh(c)', Current(c)'
               PROVE  c.rank = "newest"
    BY <1>1 DEF OnlyNewestClaimCounts
  <2>1. c.job # j
    BY <1>5 DEF Current
  <2> QED  BY <1>2, <1>3, <1>6, <2>1 DEF IInv, OnlyNewestClaimCounts, Current
<1> QED  BY <1>7, <1>8, <1>9 DEF IInv

(* The inductive invariant survives every operation. *)
LEMMA NextIInv == IInv /\ [Next]_vars => IInv'
<1> SUFFICES ASSUME IInv, [Next]_vars PROVE IInv'
  OBVIOUS
<1>1. TypeOK'
  BY NextType DEF IInv
<1>2. \A j \in Jobs : row[j] \in Rows /\ row[j].attempts \in Int
  BY DEF IInv, TypeOK, Rows
<1>3. \A p \in Procs : \A c \in hand[p] : c.job \in Jobs
  BY DEF IInv, TypeOK, Claims
<1>4. ASSUME NEW j \in Jobs, (\E d \in Delays : Enqueue(j, d)) \/ retryDead(j) \/ prune(j)
      PROVE  IInv'
  BY <1>1, <1>4, TableStep
<1>5. ASSUME NEW p \in Procs, NEW S \in SUBSET Jobs, Claim(p, S) PROVE IInv'
  BY <1>1, <1>5, ClaimStep
<1>6. ASSUME NEW p \in Procs,
             Heartbeat(p) \/ MissHeartbeat(p) \/ Crash(p) \/ LeaveSome(p)
      PROVE  IInv'
  <2>1. \A q \in Procs : hand'[q] \subseteq hand[q]
    BY <1>6 DEF Heartbeat, MissHeartbeat, Crash, LeaveSome, Leave, inMemory, IInv, TypeOK
  <2>2. \A j \in Jobs : row'[j].status = row[j].status /\ row'[j].attempts = row[j].attempts
    <3>1. CASE Heartbeat(p)
      BY <3>1 DEF Heartbeat, extendedRow, Row
    <3>2. CASE UNCHANGED row
      BY <3>2
    <3> QED  BY <1>6, <3>1, <3>2 DEF MissHeartbeat, Crash, LeaveSome, Leave
  <2>3. life' = life /\ mixed' = mixed
    BY <1>6 DEF Heartbeat, MissHeartbeat, Crash, LeaveSome, Leave
  <2> QED  BY <1>1, <2>1, <2>2, <2>3, QuietStep
<1>7. ASSUME NEW p \in Procs, NEW c \in hand[p], LoseReport(p, c) PROVE IInv'
  <2>1. \A q \in Procs : hand'[q] \subseteq hand[q]
    BY <1>7 DEF LoseReport, Ends, IInv, TypeOK
  <2> QED  BY <1>1, <1>7, <2>1, QuietStep DEF LoseReport
<1>8. ASSUME NEW p \in Procs, NEW c \in hand[p], Begin(p, c) PROVE IInv'
  BY <1>1, <1>8, BeginStep
<1>9. ASSUME NEW p \in Procs, NEW c \in hand[p], DropUnrun(p, c) \/ Complete(p, c) PROVE IInv'
  <2>1. PICK r : /\ Report(p, c, r)
                 /\ r = deadRow(row[c.job]) \/ r = deletedRow
    BY <1>9 DEF DropUnrun, Complete
  <2>2. r \in Rows /\ r.status \in {"dead", "gone"}
    BY <1>2, <1>3, <2>1 DEF deadRow, deletedRow, Row, Rows, Statuses
  <2> QED  BY <1>1, <2>1, <2>2, ReportStep
<1>10. ASSUME NEW p \in Procs, NEW c \in hand[p], NEW d \in Delays, NEW retry \in BOOLEAN,
              Fail(p, c, d, retry) \/ ReleaseUnknown(p, c, d) \/ Release(p, c, d)
       PROVE  IInv'
  <2>1. PICK r : /\ Report(p, c, r)
                 /\ \/ r = deadRow(row[c.job]) \/ r = retryRow(row[c.job], d)
                    \/ r = releasedRow(row[c.job], d)
    BY <1>10 DEF Fail, ReleaseUnknown, Release
  <2>2. d \in Int
    BY ConfigAssumption
  <2>3. r \in Rows
    BY <1>2, <1>3, <2>1, <2>2, RowTypes
  <2>4. /\ r.status \in {"dead", "pending"}
        /\ r.status = "pending" => r.attempts >= row[c.job].attempts - 1
    BY <1>2, <1>3, <2>1 DEF deadRow, retryRow, releasedRow, Row
  <2> QED  BY <1>1, <2>1, <2>3, <2>4, ReportStep
<1>11. ASSUME Tick PROVE IInv'
  <2>1. \A j \in Jobs : row'[j].status = row[j].status /\ row'[j].attempts = row[j].attempts
    BY <1>11 DEF Tick, Later, Row
  <2> QED  BY <1>1, <1>11, <2>1, QuietStep DEF Tick, inMemory
<1>12. CASE UNCHANGED vars
  BY <1>1, <1>12, QuietStep DEF vars
<1> QED
  BY <1>4, <1>5, <1>6, <1>7, <1>8, <1>9, <1>10, <1>11, <1>12
  DEF Next, ClaimSome, Step

(* In every reachable state, for any jobs and processes, whatever crashes, *)
(* lapses and lost reports there were: an attempt names one run, no run is *)
(* ahead of its row, and only the newest claim's report still counts. *)
THEOREM ClaimsSafe ==
  Spec => [](AttemptNamesOneRun /\ NoRunAhead /\ OnlyNewestClaimCounts)
<1>1. IInv => AttemptNamesOneRun /\ NoRunAhead /\ OnlyNewestClaimCounts
  BY DEF IInv
<1> QED  BY <1>1, InitIInv, NextIInv, PTL DEF Spec

(* Within one life of a job an attempt number names one run, in all the    *)
(* processes together, until its report lands: so the guard of a report    *)
(* tells the runs that have yet to report apart. *)
THEOREM AttemptsName == Spec => []AttemptNamesOneRun
<1>1. IInv => AttemptNamesOneRun
  BY DEF IInv
<1> QED  BY <1>1, InitIInv, NextIInv, PTL DEF Spec

(* A claim on a row is ended by the report of its newest run and by        *)
(* nothing else. *)
THEOREM HolderEnds == Spec => OnlyHolderEnds
<1> DEFINE Ended(j) ==
      row[j].status = "claimed" /\ row'[j].status # "claimed" =>
        \E p \in Procs : \E c \in hand[p] \ hand'[p] : c.job = j /\ c.rank = "newest"
<1>1. IInv /\ [Next]_vars => [\A j \in Jobs \ mixed' : Ended(j)]_vars
  <2> SUFFICES ASSUME IInv, Next, NEW j \in Jobs \ mixed',
                      row[j].status = "claimed", row'[j].status # "claimed"
               PROVE  \E p \in Procs : \E c \in hand[p] \ hand'[p] :
                        c.job = j /\ c.rank = "newest"
    OBVIOUS
  <2>1. PICK p \in Procs : \E c \in hand[p] : \E r : Report(p, c, r)
    <3>1. /\ ~Tick
          /\ \A i \in Jobs : ~retryDead(i) /\ ~prune(i) /\ \A d \in Delays : ~Enqueue(i, d)
          /\ \A q \in Procs : /\ ~Heartbeat(q) /\ ~MissHeartbeat(q) /\ ~Crash(q)
                              /\ \A S \in SUBSET Jobs : ~Claim(q, S)
                              /\ \A l \in leaving[q] : ~Leave(q, l)
                              /\ \A c \in hand[q] : ~LoseReport(q, c) /\ ~Begin(q, c)
      <4>1. ~Tick
        BY DEF Tick, Later, Row
      <4>2. \A i \in Jobs : ~retryDead(i) /\ ~prune(i) /\ \A d \in Delays : ~Enqueue(i, d)
        BY DEF retryDead, prune, Enqueue, IInv, TypeOK
      <4>3. \A q \in Procs : ~Heartbeat(q) /\ ~MissHeartbeat(q) /\ ~Crash(q)
        <5>1. ASSUME NEW q \in Procs, Heartbeat(q) PROVE FALSE
          <6>1. row'[j] = extendedRow(row[j]) \/ row'[j] = row[j]
            BY <5>1 DEF Heartbeat
          <6> QED  BY <6>1 DEF extendedRow, Row
        <5>2. \A q \in Procs : ~MissHeartbeat(q) /\ ~Crash(q)
          BY DEF MissHeartbeat, Crash
        <5> QED  BY <5>1, <5>2
      <4>4. \A q \in Procs : \A S \in SUBSET Jobs : ~Claim(q, S)
        BY DEF Claim, claimedRow, Row
      <4>5. \A q \in Procs : \A c \in hand[q] : ~LoseReport(q, c) /\ ~Begin(q, c)
        BY DEF LoseReport, Begin
      <4>6. \A q \in Procs : \A l \in leaving[q] : ~Leave(q, l)
        BY DEF Leave
      <4> QED  BY <4>1, <4>2, <4>3, <4>4, <4>5, <4>6
    <3> QED
      BY <3>1 DEF Next, ClaimSome, LeaveSome, Step, DropUnrun, Complete, Fail, ReleaseUnknown, Release
  <2>2. PICK c \in hand[p] : \E r : Report(p, c, r)
    BY <2>1
  <2>3. Current(c) /\ c.job = j /\ c \notin hand'[p]
    BY <2>2 DEF Report, Ends, IInv, TypeOK
  <2>4. Fresh(c)
    BY <2>2, <2>3 DEF Report, Fresh
  <2>5. c.rank = "newest"
    BY <2>3, <2>4 DEF IInv, OnlyNewestClaimCounts
  <2> QED  BY <2>3, <2>5
<1> QED  BY <1>1, InitIInv, NextIInv, PTL DEF Spec, OnlyHolderEnds

-----------------------------------------------------------------------------
(* How often a job is run.  tries counts attempts that were begun and not  *)
(* given back; each was another number, and none past the last.            *)

(* A is the set of those numbers, for a job whose lives did not mix. *)
Begun(j, A) ==
  /\ A \subseteq 1 .. LastAttempt /\ tries[j] = Cardinality(A)
  /\ row[j].status \in {"pending", "claimed"} => \A a \in A : a <= row[j].attempts
  /\ \A p \in Procs : \A c \in hand[p] :
       c.job = j /\ c.life = life[j] => (c.stage = "running" <=> c.attempt \in A)

Counted == \A j \in Jobs \ mixed : \E A : Begun(j, A)

(* Attempts in use are counted from 1, and what was not dispatched has     *)
(* made none. *)
FromOne ==
  /\ \A j \in Jobs :
       /\ row[j].status = "none" => tries[j] = 0
       /\ row[j].status = "pending" => row[j].attempts >= 0
       /\ row[j].status = "claimed" => row[j].attempts >= 1
  /\ \A p \in Procs : \A c \in hand[p] : c.attempt >= 1

LEMMA LastType == LastAttempt \in Nat /\ LastAttempt >= 1
BY ConfigAssumption DEF LastAttempt

(* Numbers up to the last attempt are finitely many. *)
LEMMA BegunFinite ==
  ASSUME NEW A, A \subseteq 1 .. LastAttempt
  PROVE  IsFiniteSet(A) /\ Cardinality(A) \in Nat /\ Cardinality(A) <= LastAttempt
<1>1. PICK n \in Nat : n = LastAttempt /\ n >= 1
  BY LastType
<1>2. IsFiniteSet(1 .. n) /\ Cardinality(1 .. n) = IF 1 > n THEN 0 ELSE n - 1 + 1
  BY FS_Interval
<1>3. Cardinality(1 .. n) = n
  BY <1>1, <1>2
<1>4. A \in SUBSET (1 .. n)
  BY <1>1
<1>5. IsFiniteSet(A) /\ Cardinality(A) <= n
  BY <1>2, <1>3, <1>4, FS_Subset
<1> QED
  BY <1>1, <1>5, FS_CardinalityType

LEMMA CountInit == Init => FromOne /\ Counted
<1> SUFFICES ASSUME Init PROVE FromOne /\ Counted
  OBVIOUS
<1>1. FromOne
  BY DEF Init, FromOne, Blank, Row
<1>2. \A j \in Jobs : Begun(j, {})
  BY FS_EmptySet DEF Init, Begun, Blank, Row
<1> QED
  BY <1>1, <1>2 DEF Counted

(* The numbers begun stay those of a job whose claims are only dropped or  *)
(* superseded, and whose row does not go back. *)
LEMMA BegunStays ==
  ASSUME NEW j \in Jobs, NEW A, Begun(j, A),
         life'[j] = life[j], tries'[j] = tries[j], row[j].attempts \in Int,
         row'[j].status \in {"pending", "claimed"} =>
           /\ row[j].status \in {"pending", "claimed"}
           /\ row'[j].attempts \in Int /\ row[j].attempts <= row'[j].attempts,
         \A p \in Procs : \A c \in hand'[p] : c.job = j /\ c.life = life[j] =>
           \/ \E q \in Procs : \E d \in hand[q] :
                /\ d.job = c.job /\ d.life = c.life
                /\ d.attempt = c.attempt /\ d.stage = c.stage
           \/ c.stage = "handed" /\ c.attempt \notin A
  PROVE  Begun(j, A)'
<1>1. \A a \in A : a \in Int
  <2>1. A \subseteq 1 .. LastAttempt
    BY DEF Begun
  <2> QED  BY <2>1, LastType
<1>2. row'[j].status \in {"pending", "claimed"} => \A a \in A : a <= row'[j].attempts
  BY <1>1 DEF Begun
<1>3. \A p \in Procs : \A c \in hand'[p] :
        c.job = j /\ c.life = life[j] => (c.stage = "running" <=> c.attempt \in A)
  BY DEF Begun
<1>4. A \subseteq 1 .. LastAttempt /\ tries'[j] = Cardinality(A)
  BY DEF Begun
<1> QED
  BY <1>2, <1>3, <1>4 DEF Begun

(* Every step keeps the counting from 1. *)
LEMMA FromOneStep ==
  ASSUME IInv, FromOne, [Next]_vars
  PROVE  FromOne'
<1>0. TypeOK /\ TypeOK' /\ (\A j \in Jobs : row[j].attempts \in Int /\ row[j] \in Rows)
      /\ (\A p \in Procs : \A c \in hand[p] : c \in Claims /\ c.job \in Jobs /\ c.attempt \in Int)
      /\ NoRunAhead
  BY NextType DEF IInv, TypeOK, Rows, Claims
<1>1. ASSUME NEW j \in Jobs, NEW d \in Delays, Enqueue(j, d) PROVE FromOne'
  BY <1>0, <1>1 DEF Enqueue, inMemory, FromOne, Row, TypeOK
<1>2. ASSUME NEW p \in Procs, NEW S \in SUBSET Jobs, Claim(p, S) PROVE FromOne'
  <2>1. \A j \in S : row[j].status \in {"pending", "claimed"} /\ row'[j].status = "claimed"
                     /\ row'[j].attempts = row[j].attempts + 1 /\ row[j].attempts >= 0
    BY <1>0, <1>2 DEF Claim, claimable, claimedRow, Row, FromOne
  <2>2. \A j \in Jobs \ S : row'[j] = row[j]
    BY <1>2 DEF Claim
  <2>3. ASSUME NEW q \in Procs, NEW c \in hand'[q] PROVE c.attempt >= 1
    <3>0. c \in Superseded(hand[q], S) \/
          c \in {Taken(j, row[j].attempts + 1, life[j], "handed", "newest") : j \in S}
      BY <1>2 DEF Claim
    <3>1. \/ \E d \in hand[q] : c.attempt = d.attempt
          \/ \E j \in S : c.attempt = row[j].attempts + 1
      BY <3>0 DEF Superseded, Taken
    <3>2. \A d \in hand[q] : d.attempt >= 1
      BY DEF FromOne
    <3>3. \A j \in S : row[j].attempts + 1 >= 1
      BY <1>0, <2>1
    <3> QED  BY <3>1, <3>2, <3>3
  <2>4. tries' = tries
    BY <1>2 DEF Claim
  <2>5. \A j \in Jobs : /\ row'[j].status = "none" => tries'[j] = 0
                        /\ row'[j].status = "pending" => row'[j].attempts >= 0
                        /\ row'[j].status = "claimed" => row'[j].attempts >= 1
    BY <1>0, <2>1, <2>2, <2>4 DEF FromOne
  <2> QED  BY <2>3, <2>5 DEF FromOne
<1>3. ASSUME NEW p \in Procs, NEW c \in hand[p], Begin(p, c) PROVE FromOne'
  <2>1. row[c.job].status # "none"
    BY <1>0 DEF NoRunAhead
  <2>2. \A j \in Jobs : j # c.job => tries'[j] = tries[j]
    BY <1>0, <1>3 DEF Begin, TypeOK
  <2>3. \A q \in Procs : \A d \in hand'[q] : d.attempt >= 1
    BY <1>0, <1>3 DEF Begin, FromOne, Taken, TypeOK
  <2> QED  BY <1>0, <1>3, <2>1, <2>2, <2>3 DEF Begin, FromOne
<1>4. ASSUME NEW p \in Procs, NEW c \in hand[p], NEW r \in Rows, Report(p, c, r),
             r.status = "pending" => r.attempts >= row[c.job].attempts - 1,
             r.status \in {"pending", "dead", "gone"},
             \A j \in Jobs : j # c.job => tries'[j] = tries[j]
      PROVE  FromOne'
  <2>1. row[c.job].status # "none"
    BY <1>0 DEF NoRunAhead
  <2>2. \A j \in Jobs : row'[j] = row[j] \/ (j = c.job /\ row'[j] = r /\ row[j].status = "claimed")
    BY <1>0, <1>4 DEF Report, Current, TypeOK
  <2>3. \A q \in Procs : hand'[q] \subseteq hand[q]
    BY <1>0, <1>4 DEF Report, Ends, TypeOK
  <2>4. r.attempts \in Int
    BY DEF Rows
  <2> QED  BY <1>0, <1>4, <2>1, <2>2, <2>3, <2>4 DEF FromOne
<1>5. ASSUME NEW p \in Procs, NEW c \in hand[p],
             \/ DropUnrun(p, c) \/ Complete(p, c)
             \/ \E d \in Delays, retry \in BOOLEAN : Fail(p, c, d, retry)
             \/ \E d \in Delays : ReleaseUnknown(p, c, d) \/ Release(p, c, d)
      PROVE  FromOne'
  <2>1. PICK r : /\ Report(p, c, r)
                 /\ r \in {deletedRow, deadRow(row[c.job])} \union
                         {retryRow(row[c.job], d) : d \in Delays} \union
                         {releasedRow(row[c.job], d) : d \in Delays}
    BY <1>5 DEF DropUnrun, Complete, Fail, ReleaseUnknown, Release
  <2>2. \A j \in Jobs : j # c.job => tries'[j] = tries[j]
    BY <1>0, <1>5 DEF DropUnrun, Complete, Fail, ReleaseUnknown, Release, TypeOK
  <2>3. r \in Rows
    <3>1. row[c.job] \in Rows
      BY <1>0
    <3>2. /\ deletedRow \in Rows /\ deadRow(row[c.job]) \in Rows
          /\ \A d \in Int : retryRow(row[c.job], d) \in Rows /\ releasedRow(row[c.job], d) \in Rows
      BY <3>1, RowTypes
    <3>3. \A d \in Delays : d \in Nat
      BY ConfigAssumption
    <3>4. \A d \in Nat : d \in Int
      OBVIOUS
    <3> QED  BY <2>1, <3>2, <3>3, <3>4
  <2>4. /\ r.status = "pending" => r.attempts >= row[c.job].attempts - 1
        /\ r.status \in {"pending", "dead", "gone"}
    BY <1>0, <2>1 DEF deletedRow, deadRow, retryRow, releasedRow, Row
  <2> QED  BY <1>4, <2>1, <2>2, <2>3, <2>4
<1>6. ASSUME NEW j \in Jobs, retryDead(j) PROVE FromOne'
  BY <1>0, <1>6 DEF retryDead, inMemory, FromOne, Row, TypeOK
<1>7. ASSUME \/ \E p \in Procs : Heartbeat(p) \/ MissHeartbeat(p) \/ Crash(p)
                               \/ LeaveSome(p)
                               \/ \E c \in hand[p] : LoseReport(p, c)
             \/ \E j \in Jobs : prune(j)
             \/ Tick \/ UNCHANGED vars
      PROVE  FromOne'
  <2> DEFINE Same == \A j \in Jobs :
                       \/ row'[j].status = row[j].status /\ row'[j].attempts = row[j].attempts
                       \/ row'[j].status = "gone"
  <2>1. Same
    <3>1. ASSUME NEW p \in Procs, Heartbeat(p) PROVE Same
      BY <3>1 DEF Heartbeat, extendedRow, Row
    <3>2. ASSUME NEW j \in Jobs, prune(j) PROVE Same
      BY <1>0, <3>2 DEF prune, deletedRow, Row, TypeOK
    <3>3. ASSUME Tick PROVE Same
      BY <3>3 DEF Tick, Later, Row
    <3>4. CASE UNCHANGED row
      BY <3>4
    <3> QED
      BY <1>7, <3>1, <3>2, <3>3, <3>4 DEF MissHeartbeat, Crash, LeaveSome, Leave, LoseReport, vars
  <2>2. tries' = tries /\ \A q \in Procs : hand'[q] \subseteq hand[q]
    BY <1>0, <1>7 DEF Heartbeat, MissHeartbeat, Crash, LeaveSome, Leave, LoseReport, Ends, prune,
                      Tick, inMemory, vars, TypeOK
  <2> QED  BY <2>1, <2>2 DEF FromOne
<1> QED
  BY <1>1, <1>2, <1>3, <1>5, <1>6, <1>7 DEF Next, ClaimSome, Step

(* Every step keeps the count. *)
LEMMA CountedStep ==
  ASSUME IInv, IInv', FromOne, Counted, [Next]_vars
  PROVE  Counted'
<1> SUFFICES ASSUME NEW j \in Jobs, j \notin mixed' PROVE \E A : Begun(j, A)'
  BY DEF Counted
<1>1. j \notin mixed
  BY DEF Next, ClaimSome, LeaveSome, Step, Enqueue, Claim, Heartbeat, MissHeartbeat, Crash, Leave,
         Begin, DropUnrun, Complete, Fail, LoseReport, ReleaseUnknown, Release, Report, retryDead, prune, Tick, vars
<1>2. PICK A : Begun(j, A)
  BY <1>1 DEF Counted
<1>3. /\ TypeOK /\ row[j].attempts \in Int /\ row[j] \in Rows /\ tries[j] \in Int /\ life[j] \in Nat
      /\ \A p \in Procs : \A c \in hand[p] :
           c \in Claims /\ c.job \in Jobs /\ c.attempt \in Int /\ c.life \in Nat
      /\ \A a \in A : a \in Int
  BY <1>2, LastType DEF IInv, TypeOK, Rows, Claims, Begun
<1>4. \A p, q \in Procs : \A c \in hand[p], d \in hand[q] :
        c.job = j /\ d.job = j /\ c.life = life[j] /\ d.life = life[j] /\ c.attempt = d.attempt
          => p = q /\ c = d
  BY <1>1 DEF IInv, AttemptNamesOneRun, Fresh
<1>5. \A p \in Procs : \A c \in hand[p] : c.job = j =>
        /\ row[j].status # "none" /\ c.life <= life[j]
        /\ c.life = life[j] /\ row[j].status \in {"pending", "claimed"} => c.attempt <= row[j].attempts
  BY <1>1 DEF IInv, NoRunAhead, Fresh
<1>6. ASSUME tries'[j] = 0,
             \A p \in Procs : \A c \in hand'[p] : ~(c.job = j /\ c.life = life'[j])
      PROVE  Begun(j, {})'
  BY <1>6, FS_EmptySet DEF Begun
<1>7. ASSUME life'[j] = life[j], tries'[j] = tries[j], row'[j] = row[j],
             \A p \in Procs : \A c \in hand'[p] : c.job = j /\ c.life = life[j] => c \in hand[p]
      PROVE  Begun(j, A)'
  BY <1>2, <1>3, <1>7, BegunStays
<1>8. ASSUME NEW k \in Jobs, NEW d \in Delays, Enqueue(k, d) PROVE \E B : Begun(j, B)'
  <2>1. CASE k = j
    BY <1>5, <1>6, <1>8, <2>1 DEF Enqueue, inMemory, FromOne
  <2>2. CASE k # j
    BY <1>3, <1>7, <1>8, <2>2 DEF Enqueue, inMemory, TypeOK
  <2> QED  BY <2>1, <2>2
<1>9. ASSUME NEW p \in Procs, NEW S \in SUBSET Jobs, Claim(p, S) PROVE Begun(j, A)'
  <2>1. life' = life /\ tries' = tries
    BY <1>9 DEF Claim
  <2>2. /\ j \in S => /\ row[j].status \in {"pending", "claimed"} /\ row'[j].status = "claimed"
                      /\ row'[j].attempts = row[j].attempts + 1
        /\ j \notin S => row'[j] = row[j]
    BY <1>9 DEF Claim, claimable, claimedRow, Row
  <2>3. ASSUME NEW q \in Procs, NEW c \in hand'[q], c.job = j
        PROVE  \/ \E d \in hand[q] : /\ d.job = c.job /\ d.life = c.life
                                     /\ d.attempt = c.attempt /\ d.stage = c.stage
               \/ j \in S /\ c.stage = "handed" /\ c.attempt = row[j].attempts + 1
    <3>1. \/ c \in Superseded(hand[q], S)
          \/ c \in {Taken(i, row[i].attempts + 1, life[i], "handed", "newest") : i \in S}
      BY <1>9 DEF Claim
    <3> QED  BY <2>3, <3>1 DEF Superseded, Taken
  <2>4. j \in S => row[j].attempts + 1 \notin A
    BY <1>2, <1>3, <2>2 DEF Begun
  <2> QED  BY <1>2, <1>3, <2>1, <2>2, <2>3, <2>4, BegunStays
<1>10. ASSUME NEW p \in Procs, NEW c \in hand[p], Begin(p, c) PROVE \E B : Begun(j, B)'
  <2>1. life' = life /\ row' = row
    BY <1>10 DEF Begin
  <2>2. \A q \in Procs : \A d \in hand'[q] :
          \/ d \in hand[q] /\ (q = p => d # c)
          \/ q = p /\ d = Taken(c.job, c.attempt, c.life, "running", c.rank)
    BY <1>3, <1>10 DEF Begin, TypeOK
  <2>3. tries'[j] = IF c.job = j /\ c.life = life[j] THEN tries[j] + 1 ELSE tries[j]
    BY <1>3, <1>10 DEF Begin, TypeOK
  <2>4. CASE ~(c.job = j /\ c.life = life[j])
    BY <1>7, <2>1, <2>2, <2>3, <2>4 DEF Taken
  <2>5. CASE c.job = j /\ c.life = life[j]
    <3>1. c.attempt \in 1 .. LastAttempt /\ c.attempt \notin A
      BY <1>2, <1>3, <1>10, <2>5, LastType DEF Begin, Runs, FromOne, Begun
    <3>2. A \union {c.attempt} \subseteq 1 .. LastAttempt /\ A \subseteq 1 .. LastAttempt
      BY <1>2, <3>1 DEF Begun
    <3>3. tries'[j] = Cardinality(A \union {c.attempt})
      <4>1. IsFiniteSet(A) /\ Cardinality(A) \in Nat
        BY <3>2, BegunFinite
      <4>2. Cardinality(A \union {c.attempt}) = Cardinality(A) + 1
        BY <3>1, <4>1, FS_AddElement
      <4> QED  BY <1>2, <1>3, <2>3, <2>5, <4>1, <4>2 DEF Begun
    <3>4. row'[j].status \in {"pending", "claimed"} =>
            \A a \in A \union {c.attempt} : a <= row'[j].attempts
      BY <1>2, <1>5, <2>1, <2>5 DEF Begun
    <3>5. ASSUME NEW q \in Procs, NEW d \in hand'[q], d.job = j, d.life = life'[j]
          PROVE  d.stage = "running" <=> d.attempt \in A \union {c.attempt}
      <4>1. CASE q = p /\ d = Taken(c.job, c.attempt, c.life, "running", c.rank)
        BY <4>1 DEF Taken
      <4>2. CASE d \in hand[q] /\ (q = p => d # c)
        <5>1. d.attempt # c.attempt
          BY <1>4, <2>1, <2>5, <3>5, <4>2
        <5> QED  BY <1>2, <2>1, <3>5, <4>2, <5>1 DEF Begun
      <4> QED  BY <2>2, <4>1, <4>2
    <3> QED  BY <3>2, <3>3, <3>4, <3>5 DEF Begun
  <2> QED  BY <2>4, <2>5
<1>11. ASSUME NEW p \in Procs, NEW c \in hand[p],
              \/ DropUnrun(p, c) \/ Complete(p, c)
              \/ \E d \in Delays, retry \in BOOLEAN : Fail(p, c, d, retry)
       PROVE  Begun(j, A)'
  <2>1. PICK r : /\ Report(p, c, r)
                 /\ r \in {deletedRow, deadRow(row[c.job])} \union {retryRow(row[c.job], d) : d \in Delays}
    BY <1>11 DEF DropUnrun, Complete, Fail
  <2>2. r.status = "pending" => r.attempts = row[c.job].attempts
    BY <2>1 DEF deletedRow, deadRow, retryRow, Row
  <2>3. r.status # "claimed"
    BY <2>1 DEF deletedRow, deadRow, retryRow, Row
  <2>4. row'[j] = row[j] \/ (c.job = j /\ row'[j] = r /\ row[j].status = "claimed")
    BY <1>3, <2>1 DEF Report, Current, TypeOK
  <2>5. \A q \in Procs : hand'[q] \subseteq hand[q]
    BY <1>3, <2>1 DEF Report, Ends, TypeOK
  <2>6. life' = life /\ tries' = tries
    BY <1>11, <2>1 DEF Report, DropUnrun, Complete, Fail
  <2> QED  BY <1>2, <1>3, <2>2, <2>3, <2>4, <2>5, <2>6, BegunStays
<1>12. ASSUME NEW p \in Procs, NEW c \in hand[p], NEW d \in Delays,
              ReleaseUnknown(p, c, d) \/ Release(p, c, d)
       PROVE  \E B : Begun(j, B)'
  <2>1. Report(p, c, releasedRow(row[c.job], d))
    BY <1>12 DEF ReleaseUnknown, Release
  <2>2. life' = life /\ \A q \in Procs : \A e \in hand'[q] : e \in hand[q] /\ (q = p => e # c)
    BY <1>3, <2>1 DEF Report, Ends, TypeOK
  <2>3. CASE c.job # j \/ ~Current(c)
    <3>1. row'[j] = row[j]
      BY <1>3, <2>1, <2>3 DEF Report, TypeOK
    <3>2. tries'[j] = tries[j]
      BY <1>3, <1>12, <2>3 DEF ReleaseUnknown, Release, TypeOK
    <3> QED  BY <1>7, <2>2, <3>1, <3>2
  <2>4. CASE c.job = j /\ Current(c)
    <3> DEFINE B == A \ {c.attempt}
    <3>1. c.life = life[j]
      BY <2>1, <2>4 DEF Report
    <3>2. row[j].status = "claimed" /\ row[j].attempts = c.attempt
      BY <2>4 DEF Current
    <3>3. row'[j].attempts = c.attempt - 1
      BY <1>3, <2>1, <2>4, <3>2 DEF Report, TypeOK, releasedRow, Row
    <3>4. \A a \in B : a <= row'[j].attempts
      BY <1>2, <1>3, <3>2, <3>3 DEF Begun
    <3>5. IsFiniteSet(A) /\ Cardinality(A) \in Nat /\ B \subseteq 1 .. LastAttempt
      BY <1>2, BegunFinite DEF Begun
    <3>6. tries'[j] = Cardinality(B)
      <4>1. CASE c.attempt \notin A
        <5>1. B = A /\ c.stage # "running"
          BY <1>2, <2>4, <3>1, <4>1 DEF Begun
        <5>2. tries'[j] = tries[j]
          BY <1>12, <5>1 DEF ReleaseUnknown, Release
        <5> QED  BY <1>2, <5>1, <5>2 DEF Begun
      <4>2. CASE c.attempt \in A
        <5>1. c.stage = "running"
          BY <1>2, <2>4, <3>1, <4>2 DEF Begun
        <5>2. tries'[j] = tries[j] - 1
          BY <1>3, <1>12, <2>4, <5>1 DEF ReleaseUnknown, Release, TypeOK
        <5>3. Cardinality(B) = Cardinality(A) - 1
          BY <3>5, <4>2, FS_RemoveElement
        <5> QED  BY <1>2, <1>3, <3>5, <5>2, <5>3 DEF Begun
      <4> QED  BY <4>1, <4>2
    <3>7. ASSUME NEW q \in Procs, NEW e \in hand'[q], e.job = j, e.life = life'[j]
          PROVE  e.stage = "running" <=> e.attempt \in B
      <4>1. e \in hand[q] /\ e.attempt # c.attempt
        BY <1>4, <2>2, <2>4, <3>1, <3>7
      <4> QED  BY <1>2, <2>2, <3>7, <4>1 DEF Begun
    <3> HIDE DEF B
    <3> QED  BY <3>4, <3>5, <3>6, <3>7 DEF Begun
  <2> QED  BY <2>3, <2>4
<1>13. ASSUME NEW k \in Jobs, retryDead(k) PROVE \E B : Begun(j, B)'
  <2>1. CASE k = j
    <3>1. tries'[j] = 0 /\ life'[j] = life[j] + 1 /\ hand' = hand
      BY <1>3, <1>13, <2>1 DEF retryDead, inMemory, TypeOK
    <3> QED  BY <1>3, <1>5, <1>6, <3>1
  <2>2. CASE k # j
    BY <1>3, <1>7, <1>13, <2>2 DEF retryDead, inMemory, TypeOK
  <2> QED  BY <2>1, <2>2
<1>14. ASSUME \/ \E p \in Procs : Heartbeat(p) \/ MissHeartbeat(p) \/ Crash(p)
                                \/ LeaveSome(p)
                                \/ \E c \in hand[p] : LoseReport(p, c)
              \/ \E k \in Jobs : prune(k)
              \/ Tick \/ UNCHANGED vars
       PROVE  Begun(j, A)'
  <2> DEFINE Same == \/ row'[j].status = row[j].status /\ row'[j].attempts = row[j].attempts
                     \/ row'[j].status = "gone"
  <2>1. Same
    <3>1. ASSUME NEW p \in Procs, Heartbeat(p) PROVE Same
      BY <3>1 DEF Heartbeat, extendedRow, Row
    <3>2. ASSUME NEW k \in Jobs, prune(k) PROVE Same
      BY <1>3, <3>2 DEF prune, deletedRow, Row, TypeOK
    <3>3. ASSUME Tick PROVE Same
      BY <3>3 DEF Tick, Later, Row
    <3>4. CASE UNCHANGED row
      BY <3>4
    <3> QED
      BY <1>14, <3>1, <3>2, <3>3, <3>4 DEF MissHeartbeat, Crash, LeaveSome, Leave, LoseReport, vars
  <2>2. life' = life /\ tries' = tries /\ \A q \in Procs : hand'[q] \subseteq hand[q]
    BY <1>3, <1>14 DEF Heartbeat, MissHeartbeat, Crash, LeaveSome, Leave, LoseReport, Ends, prune,
                       Tick, inMemory, vars, TypeOK
  <2> QED  BY <1>2, <1>3, <2>1, <2>2, BegunStays
<1> QED
  BY <1>8, <1>9, <1>10, <1>11, <1>12, <1>13, <1>14 DEF Next, ClaimSome, Step

(* run() is entered at most maxAttempts times for one dispatch, not        *)
(* counting the runs that gave their attempt back, whatever crashes, lost  *)
(* reports and lapses there are: each entry was another attempt number. *)
THEOREM AttemptsKept == Spec => []AttemptsBounded
<1>1. Init => IInv /\ FromOne /\ Counted
  BY InitIInv, CountInit
<1>2. IInv /\ FromOne /\ Counted /\ [Next]_vars => (IInv /\ FromOne /\ Counted)'
  <2>1. IInv /\ [Next]_vars => IInv'
    BY NextIInv
  <2> QED  BY <2>1, FromOneStep, CountedStep
<1>3. IInv /\ FromOne /\ Counted => AttemptsBounded
  <2> SUFFICES ASSUME IInv, Counted, NEW j \in Jobs, j \notin mixed PROVE tries[j] <= LastAttempt
    BY DEF AttemptsBounded
  <2>1. PICK A : Begun(j, A)
    BY DEF Counted
  <2>2. Cardinality(A) \in Nat /\ Cardinality(A) <= LastAttempt
    BY <2>1, BegunFinite DEF Begun
  <2>3. tries[j] \in Int
    BY DEF IInv, TypeOK
  <2> QED  BY <2>1, <2>2, <2>3, LastType DEF Begun
<1> QED  BY <1>1, <1>2, <1>3, PTL DEF Spec

-----------------------------------------------------------------------------
(* The contract is kept as long as no dead job is brought back: every job  *)
(* then has one life, so every claim is fresh and a job has one holder.    *)

HolderOf(j) == IF Holders(j) = {} THEN Nobody ELSE CHOOSE p \in Holders(j) : TRUE

Become(j, ph, h, n) == Phase(j)' = ph /\ HolderOf(j)' = h /\ tries'[j] = n

Stays(j) == Become(j, Phase(j), HolderOf(j), tries[j])

(* The contract's steps of one job, in the words of this module. *)
Moves(j) ==
  \/ Phase(j) = "none" /\ Become(j, "waiting", Nobody, 0)
  \/ Phase(j) \in {"waiting", "held"} /\ \E p \in Procs : Become(j, "held", p, tries[j])
  \/ Phase(j) # "none" /\ tries[j] < LastAttempt /\ Become(j, Phase(j), HolderOf(j), tries[j] + 1)
  \/ Phase(j) = "held" /\ Become(j, "held", Nobody, tries[j])
  \/ /\ Phase(j) = "held" /\ HolderOf(j) \in Procs
     /\ \/ \E ph \in {"waiting", "dead", "gone"} : Become(j, ph, Nobody, tries[j])
        \/ tries[j] > 0 /\ Become(j, "waiting", Nobody, tries[j] - 1)
  \/ Phase(j) = "dead" /\ Become(j, "gone", Nobody, tries[j])
  \/ Stays(j)

LEMMA MovesAreSteps ==
  ASSUME \A j \in Jobs : Moves(j)
  PROVE  Contract!Next
<1> SUFFICES ASSUME NEW j \in Jobs
             PROVE  Contract!Step(j) \/ Contract!Becomes(j, Phase(j), HolderOf(j), tries[j])
  BY DEF Contract!Next, HolderOf
<1>1. \A ph, h, n : Contract!Becomes(j, ph, h, n) <=> Become(j, ph, h, n)
  BY DEF Contract!Becomes, Become, HolderOf
<1>2. Moves(j)
  OBVIOUS
<1> QED
  BY <1>1, <1>2 DEF Moves, Stays, HolderOf, Contract!Step, Contract!Dispatch, Contract!Take, Contract!Run,
              Contract!Abandon, Contract!Decide, Contract!Discard

OneLife ==
  /\ mixed = {} /\ \A j \in Jobs : life[j] = 0
  /\ \A p \in Procs : \A c \in hand[p] : c.life = 0

Kept == IInv /\ FromOne /\ Counted /\ OneLife

LEMMA LifeStep ==
  ASSUME MaxRetries = 0, IInv, OneLife, [Next]_vars
  PROVE  OneLife'
<1>1. \A j \in Jobs : ~retryDead(j)
  BY DEF retryDead, OneLife
<1>2. life' = life
  BY <1>1 DEF Next, ClaimSome, LeaveSome, Step, Enqueue, Claim, Heartbeat, MissHeartbeat, Crash,
     Leave, Begin, DropUnrun, Complete, Fail, LoseReport, ReleaseUnknown, Release, Report, prune, Tick, vars
<1>3. \A p \in Procs : \A c \in hand[p] : c.life = 0 /\ c.job \in Jobs
  BY DEF OneLife, IInv, TypeOK, Claims
<1>4. ASSUME NEW p \in Procs, NEW c \in hand[p], NEW r, Report(p, c, r)
      PROVE  mixed' = {} /\ \A q \in Procs : hand'[q] \subseteq hand[q]
  BY <1>3, <1>4 DEF Report, Ends, OneLife, IInv, TypeOK
<1>5. ASSUME NEW p \in Procs, NEW S \in SUBSET Jobs, Claim(p, S)
      PROVE  mixed' = {} /\ \A q \in Procs : \A d \in hand'[q] : d.life = 0
  <2> SUFFICES ASSUME NEW q \in Procs, NEW d \in hand'[q] PROVE d.life = 0
    BY <1>5 DEF Claim, OneLife
  <2>1. \/ d \in Superseded(hand[q], S)
        \/ d \in {Taken(j, row[j].attempts + 1, life[j], "handed", "newest") : j \in S}
    BY <1>5 DEF Claim
  <2> QED  BY <1>3, <2>1 DEF Superseded, Taken, OneLife
<1>6. ASSUME NEW p \in Procs, NEW c \in hand[p], Begin(p, c)
      PROVE  mixed' = {} /\ \A q \in Procs : \A d \in hand'[q] : d.life = 0
  BY <1>3, <1>6 DEF Begin, Taken, OneLife, IInv, TypeOK
<1>7. ASSUME \/ \E j \in Jobs : prune(j) \/ \E d \in Delays : Enqueue(j, d)
             \/ \E p \in Procs : Heartbeat(p) \/ MissHeartbeat(p) \/ Crash(p)
                               \/ LeaveSome(p)
                               \/ \E c \in hand[p] : LoseReport(p, c)
             \/ Tick \/ UNCHANGED vars
      PROVE  mixed' = {} /\ \A q \in Procs : hand'[q] \subseteq hand[q]
  BY <1>7 DEF prune, Enqueue, Heartbeat, MissHeartbeat, Crash, LeaveSome, Leave, LoseReport, Ends, Tick,
              inMemory, vars, OneLife, IInv, TypeOK
<1>8. mixed' = {} /\ \A q \in Procs : \A d \in hand'[q] : d.life = 0
  BY <1>1, <1>3, <1>4, <1>5, <1>6, <1>7
  DEF Next, ClaimSome, Step, DropUnrun, Complete, Fail, ReleaseUnknown, Release
<1> QED  BY <1>2, <1>8 DEF OneLife

(* With one life, who holds a job is one process, and is so by one claim. *)
Settled ==
  \A j \in Jobs :
    /\ \A p \in Procs : \A c \in hand[p] : c.job = j /\ Current(c) => HolderOf(j) = p
    /\ \A p, q \in Procs : \A c \in hand[p], d \in hand[q] :
         c.job = j /\ d.job = j /\ Current(c) /\ Current(d) => p = q /\ c = d
    /\ (\A p \in Procs : \A c \in hand[p] : ~(c.job = j /\ Current(c))) => HolderOf(j) = Nobody

LEMMA OneHolder == Kept => Settled
<1> SUFFICES ASSUME Kept, NEW j \in Jobs
             PROVE  /\ \A p \in Procs : \A c \in hand[p] : c.job = j /\ Current(c) => HolderOf(j) = p
                    /\ \A p, q \in Procs : \A c \in hand[p], d \in hand[q] :
                         c.job = j /\ d.job = j /\ Current(c) /\ Current(d) => p = q /\ c = d
                    /\ (\A p \in Procs : \A c \in hand[p] : ~(c.job = j /\ Current(c)))
                         => HolderOf(j) = Nobody
  BY DEF Settled
<1>1. \A p \in Procs : \A c \in hand[p] : c.job = j => Fresh(c)
  BY DEF Kept, OneLife, Fresh
<1>2. \A p \in Procs : \A c \in hand[p] : c.job = j /\ Current(c) => p \in Holders(j)
  BY <1>1 DEF Kept, IInv, OnlyNewestClaimCounts, Holders
<1>3. \A p, q \in Procs : \A c \in hand[p], d \in hand[q] :
        c.job = j /\ d.job = j /\ Current(c) /\ Current(d) => p = q /\ c = d
  BY <1>1 DEF Kept, IInv, AttemptNamesOneRun, Current
<1>4. \A p, q \in Holders(j) : p = q
  BY <1>3 DEF Holders
<1>5. \A p \in Holders(j) : HolderOf(j) = p
  BY <1>4 DEF HolderOf
<1>6. (\A p \in Procs : \A c \in hand[p] : ~(c.job = j /\ Current(c))) => HolderOf(j) = Nobody
  BY DEF HolderOf, Holders
<1> QED  BY <1>2, <1>3, <1>5, <1>6

(* Where the claims that count stay with who has them, so does the job. *)
LEMMA HolderStays ==
  ASSUME Settled, Settled', NEW j \in Jobs,
         \A p \in Procs : (\E c \in hand[p] : c.job = j /\ Current(c))
                            <=> (\E c \in hand'[p] : c.job = j /\ Current(c)')
  PROVE  HolderOf(j)' = HolderOf(j)
<1>1. CASE \E p \in Procs : \E c \in hand[p] : c.job = j /\ Current(c)
  <2>1. PICK p \in Procs : \E c \in hand[p] : c.job = j /\ Current(c)
    BY <1>1
  <2>2. HolderOf(j) = p
    BY <2>1 DEF Settled
  <2>3. HolderOf(j)' = p
    <3>1. \E c \in hand'[p] : c.job = j /\ Current(c)'
      BY <2>1
    <3> QED  BY <3>1 DEF Settled
  <2> QED  BY <2>2, <2>3
<1>2. CASE ~\E p \in Procs : \E c \in hand[p] : c.job = j /\ Current(c)
  <2>1. HolderOf(j) = Nobody
    BY <1>2 DEF Settled
  <2>2. HolderOf(j)' = Nobody
    <3>1. \A p \in Procs : \A c \in hand'[p] : ~(c.job = j /\ Current(c)')
      BY <1>2
    <3> QED  BY <3>1 DEF Settled
  <2> QED  BY <2>1, <2>2
<1> QED  BY <1>1, <1>2

(* A row that is not claimed has no holder. *)
LEMMA UnheldNext ==
  ASSUME Settled', NEW j \in Jobs, row'[j].status # "claimed"
  PROVE  HolderOf(j)' = Nobody
<1>1. \A p \in Procs : \A c \in hand'[p] : ~(c.job = j /\ Current(c)')
  BY DEF Current
<1> QED  BY <1>1 DEF Settled

(* A job stays as it is when neither its row's claim nor the claims on it  *)
(* change. *)
LEMMA QuietMove ==
  ASSUME Settled, Settled', NEW j \in Jobs,
         row'[j].status = row[j].status, row'[j].attempts = row[j].attempts,
         tries'[j] = tries[j],
         \A p \in Procs : (\E c \in hand[p] : c.job = j /\ Current(c))
                            <=> (\E c \in hand'[p] : c.job = j /\ Current(c))
  PROVE  Moves(j)
<1>1. \A c : c.job = j => (Current(c) <=> Current(c)')
  BY DEF Current
<1>2. \A p \in Procs : (\E c \in hand[p] : c.job = j /\ Current(c))
                            <=> (\E c \in hand'[p] : c.job = j /\ Current(c)')
  BY <1>1
<1>3. HolderOf(j)' = HolderOf(j)
  BY <1>2, HolderStays
<1>4. Phase(j)' = Phase(j)
  BY DEF Phase
<1> QED  BY <1>3, <1>4 DEF Moves, Stays, Become

(* The report of the claim that counts decides; any other changes nothing. *)
LEMMA ReportMove ==
  ASSUME Kept, Settled, Settled', NEW j \in Jobs, NEW p \in Procs, NEW c \in hand[p],
         NEW r, Report(p, c, r), r.status \in {"pending", "dead", "gone"},
         \/ tries'[j] = tries[j]
         \/ /\ c.job = j /\ Current(c)
            /\ tries[j] > 0 /\ r.status = "pending" /\ tries'[j] = tries[j] - 1
  PROVE  Moves(j)
<1>0. TypeOK
  BY DEF Kept, IInv
<1>1. CASE c.job = j /\ Current(c)
  <2>1. row'[j] = r
    BY <1>0, <1>1 DEF Report, TypeOK
  <2>2. HolderOf(j)' = Nobody
    BY <2>1, UnheldNext
  <2>3. Phase(j) = "held" /\ HolderOf(j) = p
    BY <1>1 DEF Current, Phase, Settled
  <2>4. /\ Phase(j)' \in {"waiting", "dead", "gone"}
        /\ r.status = "pending" => Phase(j)' = "waiting"
    BY <2>1 DEF Phase
  <2>5. CASE tries'[j] = tries[j]
    BY <2>2, <2>3, <2>4, <2>5 DEF Moves, Become
  <2>6. CASE tries[j] > 0 /\ r.status = "pending" /\ tries'[j] = tries[j] - 1
    BY <2>2, <2>3, <2>4, <2>6 DEF Moves, Become
  <2> QED  BY <2>5, <2>6
<1>2. CASE ~(c.job = j /\ Current(c))
  <2>1. row'[j] = row[j] /\ tries'[j] = tries[j]
    BY <1>0, <1>2 DEF Report, TypeOK
  <2>2. \A q \in Procs : hand'[q] = IF q = p THEN hand[q] \ {c} ELSE hand[q]
    BY <1>0 DEF Report, Ends, TypeOK
  <2> QED  BY <1>2, <2>1, <2>2, QuietMove
<1> QED  BY <1>1, <1>2

LEMMA EnqueueMove ==
  ASSUME Kept, Settled, Settled', NEW k \in Jobs, NEW d \in Delays, Enqueue(k, d), NEW j \in Jobs
  PROVE  Moves(j)
<1>0. TypeOK /\ FromOne
  BY DEF Kept, IInv
<1>1. CASE k = j
  <2>1. row'[j].status = "pending" /\ row[j].status = "none" /\ tries'[j] = 0
    BY <1>0, <1>1 DEF Enqueue, TypeOK, Row, FromOne
  <2>2. Phase(j) = "none" /\ Phase(j)' = "waiting"
    BY <2>1 DEF Phase
  <2>3. HolderOf(j)' = Nobody
    BY <2>1, UnheldNext
  <2> QED  BY <2>1, <2>2, <2>3 DEF Moves, Become
<1>2. CASE k # j
  BY <1>0, <1>2, QuietMove DEF Enqueue, inMemory, TypeOK
<1> QED  BY <1>1, <1>2

LEMMA ClaimMove ==
  ASSUME Kept, Settled, Settled', NEW p \in Procs, NEW S \in SUBSET Jobs, Claim(p, S), NEW j \in Jobs
  PROVE  Moves(j)
<1>0. TypeOK
  BY DEF Kept, IInv
<1>1. /\ j \in S => /\ row[j].status \in {"pending", "claimed"} /\ row'[j].status = "claimed"
                    /\ row'[j].attempts = row[j].attempts + 1
      /\ j \notin S => row'[j] = row[j]
      /\ tries' = tries
  BY DEF Claim, claimable, claimedRow, Row
<1>2. CASE j \in S
  <2>1. Taken(j, row[j].attempts + 1, life[j], "handed", "newest")
          \in {Taken(i, row[i].attempts + 1, life[i], "handed", "newest") : i \in S}
    BY <1>2
  <2>2. PICK c \in hand'[p] : c = Taken(j, row[j].attempts + 1, life[j], "handed", "newest")
    BY <2>1 DEF Claim
  <2>3. c.job = j /\ Current(c)'
    BY <1>1, <1>2, <2>2 DEF Taken, Current
  <2>4. HolderOf(j)' = p
    BY <2>2, <2>3 DEF Settled
  <2>5. Phase(j) \in {"waiting", "held"} /\ Phase(j)' = "held"
    BY <1>1, <1>2 DEF Phase
  <2> QED  BY <1>1, <2>4, <2>5 DEF Moves, Become
<1>3. CASE j \notin S
  <2>1. ASSUME NEW q \in Procs, NEW c, c.job = j
        PROVE  c \in hand'[q] <=> c \in hand[q]
    <3>1. c \in Superseded(hand[q], S) <=> c \in hand[q]
      BY <1>3, <2>1 DEF Superseded, Taken
    <3>2. c \notin {Taken(i, row[i].attempts + 1, life[i], "handed", "newest") : i \in S}
      BY <1>3, <2>1 DEF Taken
    <3> QED  BY <3>1, <3>2 DEF Claim
  <2> QED  BY <1>1, <1>3, <2>1, QuietMove
<1> QED  BY <1>2, <1>3

LEMMA BeginMove ==
  ASSUME Kept, Settled, Settled', NEW p \in Procs, NEW c \in hand[p], Begin(p, c), NEW j \in Jobs
  PROVE  Moves(j)
<1>0. TypeOK /\ FromOne /\ Counted
  BY DEF Kept, IInv
<1> DEFINE d == Taken(c.job, c.attempt, c.life, "running", c.rank)
<1>1. row' = row
  BY DEF Begin
<1>2. \A q \in Procs : hand'[q] = IF q = p THEN (hand[q] \ {c}) \union {d} ELSE hand[q]
  BY <1>0 DEF Begin, TypeOK
<1>3. c \in Claims /\ c.life = 0 /\ life[j] = 0 /\ mixed = {}
  BY <1>0 DEF Kept, OneLife, TypeOK
<1>4. d.job = c.job /\ (Current(d) <=> Current(c))
  BY DEF Taken, Current
<1>5. \A q \in Procs : (\E e \in hand[q] : e.job = j /\ Current(e))
                            <=> (\E e \in hand'[q] : e.job = j /\ Current(e))
  BY <1>2, <1>4
<1>6. CASE c.job # j
  <2>1. tries'[j] = tries[j]
    BY <1>0, <1>3, <1>6 DEF Begin, TypeOK
  <2> QED  BY <1>1, <1>5, <2>1, QuietMove
<1>7. CASE c.job = j
  <2>1. tries'[j] = tries[j] + 1
    BY <1>0, <1>3, <1>7 DEF Begin, TypeOK
  <2>2. PICK A : Begun(j, A)
    BY <1>0, <1>3 DEF Counted
  <2>3. c.attempt \in 1 .. LastAttempt /\ c.attempt \notin A
    BY <1>0, <1>3, <1>7, <2>2, LastType DEF Begin, Runs, FromOne, Begun, Claims
  <2>4. A \subseteq 1 .. LastAttempt /\ A \union {c.attempt} \subseteq 1 .. LastAttempt
    BY <2>2, <2>3 DEF Begun
  <2>5. IsFiniteSet(A) /\ Cardinality(A) \in Nat
    BY <2>4, BegunFinite
  <2>6. Cardinality(A \union {c.attempt}) <= LastAttempt
    BY <2>4, BegunFinite
  <2>7. Cardinality(A \union {c.attempt}) = Cardinality(A) + 1
    BY <2>3, <2>5, FS_AddElement
  <2>8. tries[j] = Cardinality(A)
    BY <2>2 DEF Begun
  <2>9. tries[j] < LastAttempt
    BY <2>5, <2>6, <2>7, <2>8, LastType
  <2>10. Phase(j) # "none"
    BY <1>7 DEF Kept, IInv, NoRunAhead, Phase
  <2>11. Phase(j)' = Phase(j)
    BY <1>1 DEF Phase
  <2>12. HolderOf(j)' = HolderOf(j)
    <3>1. \A e : Current(e)' <=> Current(e)
      BY <1>1 DEF Current
    <3> QED  BY <1>5, <3>1, HolderStays
  <2> QED  BY <2>1, <2>9, <2>10, <2>11, <2>12 DEF Moves, Become
<1> QED  BY <1>6, <1>7

(* The reports that end a run: only a release gives an attempt back, and   *)
(* that one was counted. *)
LEMMA EndMove ==
  ASSUME Kept, Settled, Settled', NEW p \in Procs, NEW c \in hand[p], NEW j \in Jobs,
         \/ DropUnrun(p, c) \/ Complete(p, c)
         \/ \E d \in Delays, retry \in BOOLEAN : Fail(p, c, d, retry)
         \/ \E d \in Delays : ReleaseUnknown(p, c, d) \/ Release(p, c, d)
  PROVE  Moves(j)
<1>0. TypeOK /\ FromOne /\ Counted /\ c \in Claims
  BY DEF Kept, IInv, TypeOK
<1>1. CASE DropUnrun(p, c) \/ Complete(p, c)
  <2>1. PICK r : Report(p, c, r) /\ r \in {deletedRow, deadRow(row[c.job])}
    BY <1>1 DEF DropUnrun, Complete
  <2>2. r.status \in {"pending", "dead", "gone"}
    BY <2>1 DEF deletedRow, deadRow, Row
  <2>3. tries' = tries
    BY <1>1 DEF DropUnrun, Complete
  <2> QED  BY <2>1, <2>2, <2>3, ReportMove
<1>2. ASSUME NEW d \in Delays, NEW retry \in BOOLEAN, Fail(p, c, d, retry) PROVE Moves(j)
  <2>1. PICK r : Report(p, c, r) /\ r \in {deadRow(row[c.job]), retryRow(row[c.job], d)}
    BY <1>2 DEF Fail
  <2>2. r.status \in {"pending", "dead", "gone"}
    BY <2>1 DEF retryRow, deadRow, Row
  <2>3. tries' = tries
    BY <1>2 DEF Fail
  <2> QED  BY <2>1, <2>2, <2>3, ReportMove
<1>3. ASSUME NEW d \in Delays, ReleaseUnknown(p, c, d) PROVE Moves(j)
  <2>1. Report(p, c, releasedRow(row[c.job], d)) /\ tries' = tries
    BY <1>3 DEF ReleaseUnknown
  <2>2. releasedRow(row[c.job], d).status = "pending"
    BY DEF releasedRow, Row
  <2> QED  BY <2>1, <2>2, ReportMove
<1>4. ASSUME NEW d \in Delays, Release(p, c, d) PROVE Moves(j)
  <2>1. Report(p, c, releasedRow(row[c.job], d)) /\ c.stage = "running"
    BY <1>4 DEF Release
  <2>2. releasedRow(row[c.job], d).status = "pending"
    BY DEF releasedRow, Row
  <2>3. CASE c.job = j /\ Current(c)
    <3>1. tries'[j] = tries[j] - 1
      BY <1>0, <1>4, <2>3 DEF Release, TypeOK
    <3>2. PICK A : Begun(j, A)
      BY <1>0 DEF Counted, Kept, OneLife
    <3>3. c.attempt \in A
      BY <2>1, <2>3, <3>2 DEF Begun, Kept, OneLife
    <3>4. IsFiniteSet(A) /\ Cardinality(A) \in Nat
      BY <3>2, BegunFinite DEF Begun
    <3>5. Cardinality(A) # 0
      BY <3>3, <3>4, FS_EmptySet
    <3>6. tries[j] > 0
      BY <3>2, <3>4, <3>5 DEF Begun
    <3> QED  BY <2>1, <2>2, <2>3, <3>1, <3>6, ReportMove
  <2>4. CASE ~(c.job = j /\ Current(c))
    <3>1. tries'[j] = tries[j]
      BY <1>0, <1>4, <2>4 DEF Release, TypeOK, Claims
    <3> QED  BY <2>1, <2>2, <3>1, ReportMove
  <2> QED  BY <2>3, <2>4
<1> QED  BY <1>1, <1>2, <1>3, <1>4

(* A process that dies, or a report that is lost, gives its jobs up. *)
LEMMA LoseMove ==
  ASSUME Kept, Settled, Settled', NEW p \in Procs, NEW j \in Jobs,
         Crash(p) \/ \E c \in hand[p] : LoseReport(p, c)
  PROVE  Moves(j)
<1>0. TypeOK
  BY DEF Kept, IInv
<1>1. row' = row /\ tries' = tries
  BY DEF Crash, LoseReport
<1>2. PICK D \in SUBSET hand[p] :
        \A q \in Procs : hand'[q] = IF q = p THEN hand[q] \ D ELSE hand[q]
  <2>1. CASE Crash(p)
    <3>1. \A q \in Procs : hand'[q] = IF q = p THEN hand[q] \ hand[p] ELSE hand[q]
      BY <1>0, <2>1 DEF Crash, TypeOK
    <3> QED  BY <3>1
  <2>2. ASSUME NEW c \in hand[p], LoseReport(p, c)
        PROVE  \E D \in SUBSET hand[p] :
                 \A q \in Procs : hand'[q] = IF q = p THEN hand[q] \ D ELSE hand[q]
    <3>1. \A q \in Procs : hand'[q] = IF q = p THEN hand[q] \ {c} ELSE hand[q]
      BY <1>0, <2>2 DEF LoseReport, Ends, TypeOK
    <3> QED  BY <3>1
  <2> QED  BY <2>1, <2>2
<1>3. CASE \E c \in D : c.job = j /\ Current(c)
  <2>1. PICK c \in D : c.job = j /\ Current(c)
    BY <1>3
  <2>2. Phase(j) = "held" /\ Phase(j)' = "held"
    BY <1>1, <2>1 DEF Phase, Current
  <2>3. \A q \in Procs : \A e \in hand'[q] : ~(e.job = j /\ Current(e)')
    <3> SUFFICES ASSUME NEW q \in Procs, NEW e \in hand'[q], e.job = j, Current(e)' PROVE FALSE
      OBVIOUS
    <3>1. e \in hand[q] /\ Current(e)
      BY <1>1, <1>2 DEF Current
    <3>2. q = p /\ e = c
      BY <2>1, <3>1 DEF Settled
    <3> QED  BY <1>2, <3>2
  <2>4. HolderOf(j)' = Nobody
    BY <2>3 DEF Settled
  <2> QED  BY <1>1, <2>2, <2>4 DEF Moves, Become
<1>4. CASE ~\E c \in D : c.job = j /\ Current(c)
  BY <1>1, <1>2, <1>4, QuietMove
<1> QED  BY <1>3, <1>4

(* The heartbeat, a run that leaves and the clock move no job; prune       *)
(* discards a dead one. *)
LEMMA CalmMove ==
  ASSUME Kept, Settled, Settled', NEW j \in Jobs,
         \/ \E p \in Procs : Heartbeat(p) \/ MissHeartbeat(p) \/ LeaveSome(p)
         \/ \E k \in Jobs : prune(k)
         \/ Tick \/ UNCHANGED vars
  PROVE  Moves(j)
<1>0. TypeOK
  BY DEF Kept, IInv
<1>1. hand' = hand /\ tries' = tries
  BY DEF Heartbeat, MissHeartbeat, LeaveSome, Leave, prune, Tick, inMemory, vars
<1>2. CASE row'[j].status = row[j].status /\ row'[j].attempts = row[j].attempts
  BY <1>1, <1>2, QuietMove
<1>3. CASE row[j].status = "dead" /\ row'[j].status = "gone"
  <2>1. Phase(j) = "dead" /\ Phase(j)' = "gone"
    BY <1>3 DEF Phase
  <2>2. HolderOf(j)' = Nobody
    BY <1>3, UnheldNext
  <2> QED  BY <1>1, <2>1, <2>2 DEF Moves, Become
<1>4. \/ row'[j].status = row[j].status /\ row'[j].attempts = row[j].attempts
      \/ row[j].status = "dead" /\ row'[j].status = "gone"
  <2> DEFINE Same == \/ row'[j].status = row[j].status /\ row'[j].attempts = row[j].attempts
                     \/ row[j].status = "dead" /\ row'[j].status = "gone"
  <2>1. ASSUME NEW p \in Procs, Heartbeat(p) PROVE Same
    BY <2>1 DEF Heartbeat, extendedRow, Row
  <2>2. ASSUME NEW k \in Jobs, prune(k) PROVE Same
    BY <1>0, <2>2 DEF prune, deletedRow, Row, TypeOK
  <2>3. ASSUME Tick PROVE Same
    BY <2>3 DEF Tick, Later, Row
  <2>4. CASE UNCHANGED row
    BY <2>4
  <2> QED
    BY <2>1, <2>2, <2>3, <2>4 DEF MissHeartbeat, LeaveSome, Leave, vars
<1> QED  BY <1>2, <1>3, <1>4

(* The table and its processes keep the contract, for any jobs and         *)
(* processes and whatever is lost on the way: as long as no dead job is    *)
(* brought back, each step is, job by job, a step of the contract or none. *)
THEOREM ContractKept == ASSUME MaxRetries = 0 PROVE Spec => KeepsContract
<1>1. Init => Contract!Init
  <2> SUFFICES ASSUME Init, NEW j \in Jobs
               PROVE  Phase(j) = "none" /\ HolderOf(j) = Nobody /\ tries[j] = 0
    BY DEF Contract!Init, Contract!Start, Contract!Is, HolderOf
  <2> QED  BY DEF Init, Phase, HolderOf, Holders, Blank, Row
<1>2. Init => Kept
  BY InitIInv, CountInit DEF Kept, OneLife, Init
<1>3. Kept /\ [Next]_vars => Kept'
  <2>1. IInv /\ [Next]_vars => IInv'
    BY NextIInv
  <2> QED  BY <2>1, FromOneStep, CountedStep, LifeStep DEF Kept
<1>4. Kept /\ Kept' /\ [Next]_vars
        => [Contract!Next]_<<[j \in Jobs |-> Phase(j)], [j \in Jobs |-> HolderOf(j)], tries>>
  <2> SUFFICES ASSUME Kept, Kept', [Next]_vars PROVE Contract!Next
    OBVIOUS
  <2>1. Settled /\ Settled'
    <3>1. Kept => Settled
      BY OneHolder
    <3>2. Kept' => Settled'
      BY OneHolder, PTL
    <3> QED  BY <3>1, <3>2
  <2>2. \A j \in Jobs : ~retryDead(j)
    BY DEF retryDead, Kept, OneLife
  <2>3. ASSUME NEW j \in Jobs PROVE Moves(j)
    BY <2>1, <2>2, EnqueueMove, ClaimMove, BeginMove, EndMove, LoseMove, CalmMove
    DEF Next, ClaimSome, Step
  <2> QED  BY <2>3, MovesAreSteps
<1> QED
  BY <1>1, <1>2, <1>3, <1>4, PTL DEF Spec, KeepsContract, Contract!Spec, HolderOf

-----------------------------------------------------------------------------
(* The leases.  A timer runs at a third of the visibility timeout, so what *)
(* a lease has left covers the wait for the next heartbeat and two more;   *)
(* each heartbeat that fails costs one of those two.                       *)
(*                                                                         *)
(* A heartbeat extends what inFlight names.  A run loses its key only to a *)
(* run of that key that leaves before it, so only when the job was claimed *)
(* under a key that was still there: rekeyed. *)

Filed(p) ==
  /\ \A c \in hand[p] : c.job \notin rekeyed =>
       /\ Key(c) \in inFlight[p]
       /\ \A d \in hand[p] : Key(c) = Key(d) => c = d
       /\ \A l \in leaving[p] : Key(c) # l.key
  /\ \A l \in leaving[p] : l.key[1] \notin rekeyed =>
       /\ l.key \in inFlight[p]
       /\ \A m \in leaving[p] : l.key = m.key => l = m

Tracked == \A p \in Procs : Filed(p)

LEMMA TrackedInit == Init => Tracked
BY DEF Init, Tracked, Filed

(* A process nothing happens to keeps its runs filed. *)
LEMMA FiledStays ==
  ASSUME NEW p \in Procs, Filed(p), hand'[p] = hand[p], leaving'[p] = leaving[p],
         inFlight'[p] = inFlight[p], rekeyed \subseteq rekeyed'
  PROVE  Filed(p)'
BY DEF Filed

(* A claim that is superseded keeps its key. *)
LEMMA SupersededKeeps ==
  ASSUME NEW S, NEW H, NEW d \in Superseded(H, S)
  PROVE  \E c \in H : /\ Key(d) = Key(c) /\ d.job = c.job
                      /\ d \in Superseded({c}, S)
BY DEF Superseded, Taken, Key

(* A process that claims files what it claims, under new keys unless it    *)
(* says otherwise; others only find what they hold superseded. *)
LEMMA ClaimFiles ==
  ASSUME TypeOK, Tracked, NEW p \in Procs, NEW S \in SUBSET Jobs, Claim(p, S), NEW q \in Procs
  PROVE  Filed(q)'
<1> DEFINE New == IF q = p
                  THEN {Taken(j, row[j].attempts + 1, life[j], "handed", "newest") : j \in S}
                  ELSE {}
<1>1. /\ hand'[q] = Superseded(hand[q], S) \union New
      /\ leaving'[q] = leaving[q]
      /\ inFlight'[q] = inFlight[q] \union {Key(c) : c \in New}
      /\ rekeyed \subseteq rekeyed'
  BY DEF Claim, TypeOK
<1>2. \A c \in New : c.job \notin rekeyed' => Key(c) \notin inFlight[q]
  BY DEF Claim, Key, Taken
<1>3. \A c, d \in New : Key(c) = Key(d) => c = d
  BY DEF Key, Taken
<1>4. \A c, d : Key(c) = Key(d) => c.job = d.job
  BY DEF Key
<1>5. \A c : \A l \in leaving[q] : Key(c) = l.key => c.job = l.key[1]
  BY DEF Key
<1> HIDE DEF New
<1>6. Filed(q)
  BY DEF Tracked
<1>7. ASSUME NEW c \in hand'[q], c.job \notin rekeyed'
      PROVE  /\ Key(c) \in inFlight'[q]
             /\ \A d \in hand'[q] : Key(c) = Key(d) => c = d
             /\ \A l \in leaving'[q] : Key(c) # l.key
  <2>1. CASE c \in New
    <3>1. Key(c) \notin inFlight[q] /\ c.job \notin rekeyed
      BY <1>1, <1>2, <1>7, <2>1
    <3>2. \A d \in hand[q] : Key(d) # Key(c)
      BY <1>4, <1>6, <3>1 DEF Filed
    <3>3. ASSUME NEW d \in Superseded(hand[q], S) PROVE Key(d) # Key(c)
      <4>1. PICK a \in hand[q] : /\ Key(d) = Key(a) /\ d.job = a.job
                                 /\ d \in Superseded({a}, S)
        BY SupersededKeeps
      <4> QED  BY <3>2, <4>1
    <3>4. \A l \in leaving[q] : Key(c) # l.key
      BY <1>5, <1>6, <3>1 DEF Filed
    <3> QED  BY <1>1, <1>3, <2>1, <3>3, <3>4
  <2>2. CASE c \in Superseded(hand[q], S)
    <3>1. PICK b \in hand[q] : Key(c) = Key(b) /\ c.job = b.job /\ c \in Superseded({b}, S)
      BY <2>2, SupersededKeeps
    <3>2. b.job \notin rekeyed
      BY <1>1, <1>7, <3>1
    <3>3. /\ Key(b) \in inFlight[q]
          /\ \A d \in hand[q] : Key(b) = Key(d) => b = d
          /\ \A l \in leaving[q] : Key(b) # l.key
      BY <1>6, <3>2 DEF Filed
    <3>4. ASSUME NEW d \in Superseded(hand[q], S), Key(c) = Key(d) PROVE c = d
      <4>1. PICK a \in hand[q] : /\ Key(d) = Key(a) /\ d.job = a.job
                                 /\ d \in Superseded({a}, S)
        BY SupersededKeeps
      <4>2. Key(b) = Key(a)
        BY <3>1, <3>4, <4>1
      <4>3. a = b
        BY <3>3, <4>2
      <4>4. \E e : Superseded({b}, S) = {e}
        BY DEF Superseded
      <4>5. d \in Superseded({b}, S)
        BY <4>1, <4>3
      <4> QED  BY <3>1, <4>4, <4>5
    <3>5. \A d \in New : Key(c) # Key(d)
      BY <1>2, <1>4, <1>7, <3>1, <3>3
    <3> QED  BY <1>1, <3>1, <3>3, <3>4, <3>5
  <2> QED  BY <1>1, <2>1, <2>2
<1>8. \A l \in leaving'[q] : l.key[1] \notin rekeyed' =>
        /\ l.key \in inFlight'[q]
        /\ \A m \in leaving'[q] : l.key = m.key => l = m
  BY <1>1, <1>6 DEF Filed
<1> QED  BY <1>7, <1>8 DEF Filed

(* A run that enters run() keeps its key. *)
LEMMA BeginFiles ==
  ASSUME TypeOK, Tracked, NEW p \in Procs, NEW c \in hand[p], Begin(p, c)
  PROVE  Filed(p)'
<1>1. PICK e : e = Taken(c.job, c.attempt, c.life, "running", c.rank)
  OBVIOUS
<1>2. /\ hand'[p] = (hand[p] \ {c}) \union {e} /\ e.job = c.job /\ Key(e) = Key(c)
      /\ leaving' = leaving /\ inFlight' = inFlight /\ rekeyed' = rekeyed
  BY <1>1 DEF Begin, TypeOK, Taken, Key
<1>3. Filed(p)
  BY DEF Tracked
<1>4. \A a, d : Key(a) = Key(d) => a.job = d.job
  BY DEF Key
<1>5. ASSUME NEW a \in hand'[p], a.job \notin rekeyed'
      PROVE  /\ Key(a) \in inFlight'[p]
             /\ \A d \in hand'[p] : Key(a) = Key(d) => a = d
             /\ \A l \in leaving'[p] : Key(a) # l.key
  <2>1. CASE a = e
    BY <1>2, <1>3, <1>5, <2>1 DEF Filed
  <2>2. CASE a \in hand[p] /\ a # c
    BY <1>2, <1>3, <1>5, <2>2 DEF Filed
  <2> QED  BY <1>2, <2>1, <2>2
<1>6. \A l \in leaving'[p] : l.key[1] \notin rekeyed' =>
        /\ l.key \in inFlight'[p]
        /\ \A m \in leaving'[p] : l.key = m.key => l = m
  BY <1>2, <1>3 DEF Filed
<1> QED  BY <1>5, <1>6 DEF Filed

(* A run whose report landed, or was lost, keeps its key until it leaves. *)
LEMMA EndFiles ==
  ASSUME TypeOK, Tracked, NEW p \in Procs, NEW c \in hand[p], Ends(p, c), rekeyed' = rekeyed
  PROVE  Filed(p)'
<1>1. PICK n : n = [key |-> Key(c), life |-> c.life, at |-> releases]
  OBVIOUS
<1>2. /\ hand'[p] = hand[p] \ {c} /\ leaving'[p] = leaving[p] \union {n}
      /\ inFlight' = inFlight /\ n.key = Key(c) /\ n.key[1] = c.job
  BY <1>1 DEF Ends, TypeOK, Key
<1>3. Filed(p)
  BY DEF Tracked
<1>4. \A d : Key(c) = Key(d) => c.job = d.job
  BY DEF Key
<1>5. ASSUME NEW a \in hand'[p], a.job \notin rekeyed'
      PROVE  /\ Key(a) \in inFlight'[p]
             /\ \A d \in hand'[p] : Key(a) = Key(d) => a = d
             /\ \A l \in leaving'[p] : Key(a) # l.key
  BY <1>2, <1>3, <1>5 DEF Filed
<1>6. ASSUME NEW l \in leaving'[p], l.key[1] \notin rekeyed'
      PROVE  /\ l.key \in inFlight'[p]
             /\ \A m \in leaving'[p] : l.key = m.key => l = m
  <2>1. CASE c.job \in rekeyed
    <3>1. l \in leaving[p] /\ l.key # n.key
      BY <1>2, <1>6, <2>1
    <3> QED  BY <1>2, <1>3, <1>6, <3>1 DEF Filed
  <2>2. CASE c.job \notin rekeyed
    <3>1. Key(c) \in inFlight[p] /\ \A m \in leaving[p] : Key(c) # m.key
      BY <1>3, <2>2 DEF Filed
    <3> QED  BY <1>2, <1>3, <1>6, <3>1 DEF Filed
  <2> QED  BY <2>1, <2>2
<1> QED  BY <1>5, <1>6 DEF Filed

(* A run that leaves takes only its own key along. *)
LEMMA LeaveFiles ==
  ASSUME TypeOK, Tracked, NEW p \in Procs, NEW l \in leaving[p], Leave(p, l)
  PROVE  Filed(p)'
<1>1. /\ hand' = hand /\ leaving'[p] = leaving[p] \ {l}
      /\ inFlight'[p] = inFlight[p] \ {l.key} /\ rekeyed' = rekeyed
  BY DEF Leave, TypeOK
<1>2. Filed(p)
  BY DEF Tracked
<1> QED  BY <1>1, <1>2 DEF Filed

LEMMA TrackedStep == TypeOK /\ Tracked /\ [Next]_vars => Tracked'
<1> SUFFICES ASSUME TypeOK, Tracked, [Next]_vars, NEW q \in Procs PROVE Filed(q)'
  BY DEF Tracked
<1>0. Filed(q)
  BY DEF Tracked
<1>1. ASSUME UNCHANGED <<hand, leaving, inFlight, rekeyed>> PROVE Filed(q)'
  BY <1>0, <1>1, FiledStays
<1>2. ASSUME \/ \E j \in Jobs : \/ \E d \in Delays : Enqueue(j, d)
                                \/ retryDead(j) \/ prune(j)
             \/ \E p \in Procs : Heartbeat(p) \/ MissHeartbeat(p)
             \/ Tick \/ UNCHANGED vars
      PROVE  Filed(q)'
  BY <1>1, <1>2 DEF Enqueue, retryDead, prune, Heartbeat, MissHeartbeat, Tick, inMemory, vars
<1>3. ASSUME NEW p \in Procs, ClaimSome(p) PROVE Filed(q)'
  BY <1>3, ClaimFiles DEF ClaimSome
<1>4. ASSUME NEW p \in Procs, NEW c \in hand[p], Begin(p, c) PROVE Filed(q)'
  <2>1. CASE q = p
    BY <1>4, <2>1, BeginFiles
  <2>2. CASE q # p
    BY <1>0, <1>4, <2>2, FiledStays DEF Begin, TypeOK
  <2> QED  BY <2>1, <2>2
<1>5. ASSUME NEW p \in Procs, NEW c \in hand[p], Ends(p, c), rekeyed' = rekeyed PROVE Filed(q)'
  <2>1. CASE q = p
    BY <1>5, <2>1, EndFiles
  <2>2. CASE q # p
    BY <1>0, <1>5, <2>2, FiledStays DEF Ends, TypeOK
  <2> QED  BY <2>1, <2>2
<1>6. ASSUME NEW p \in Procs, LeaveSome(p) PROVE Filed(q)'
  <2>1. PICK l \in leaving[p] : Leave(p, l)
    BY <1>6 DEF LeaveSome
  <2>2. CASE q = p
    BY <2>1, <2>2, LeaveFiles
  <2>3. CASE q # p
    BY <1>0, <2>1, <2>3, FiledStays DEF Leave, TypeOK
  <2> QED  BY <2>2, <2>3
<1>7. ASSUME NEW p \in Procs, Crash(p) PROVE Filed(q)'
  <2>1. CASE q = p
    BY <1>7, <2>1 DEF Crash, TypeOK, Filed
  <2>2. CASE q # p
    BY <1>0, <1>7, <2>2, FiledStays DEF Crash, TypeOK
  <2> QED  BY <2>1, <2>2
<1>8. ASSUME NEW p \in Procs, NEW c \in hand[p],
             \/ DropUnrun(p, c) \/ Complete(p, c) \/ LoseReport(p, c)
             \/ \E d \in Delays, retry \in BOOLEAN : Fail(p, c, d, retry)
             \/ \E d \in Delays : ReleaseUnknown(p, c, d) \/ Release(p, c, d)
      PROVE  Filed(q)'
  <2>1. Ends(p, c) /\ rekeyed' = rekeyed
    BY <1>8 DEF DropUnrun, Complete, LoseReport, Fail, ReleaseUnknown, Release, Report
  <2> QED  BY <1>5, <2>1
<1> QED
  BY <1>2, <1>3, <1>4, <1>6, <1>7, <1>8 DEF Next, Step

(* While a process has runs in flight its timer runs; every lease of a run *)
(* not rekeyed covers that timer, and its job has no other run. *)

Cover == IF missed = 0 THEN Every + Every ELSE Every

TimersRun ==
  /\ \A p \in Procs : beat[p] # NoTimer => beat[p] >= 0 /\ beat[p] <= Every
  /\ \A p \in Procs : inFlight[p] # {} => beat[p] # NoTimer

Leased ==
  /\ \A p \in Procs : \A c \in hand[p] : c.job \notin rekeyed =>
       Current(c) /\ row[c.job].lease >= beat[p] + Cover
  /\ \A p, q \in Procs : \A c \in hand[p], d \in hand[q] :
       c.job = d.job /\ c.job \notin rekeyed => p = q /\ c = d

Covered == missed <= 1 => Leased

LInv == TypeOK /\ Tracked /\ TimersRun /\ Covered

(* Three heartbeats fit into a lease. *)
LEMMA EveryIsThird ==
  ASSUME VisibilityTimeout >= 3
  PROVE  /\ Every \in Int /\ Every >= 1 /\ Every + Every + Every <= VisibilityTimeout
<1>1. VisibilityTimeout \in Nat
  BY ConfigAssumption
<1>2. /\ VisibilityTimeout \div 3 \in Int /\ VisibilityTimeout \div 3 >= 1
      /\ 3 * (VisibilityTimeout \div 3) <= VisibilityTimeout
  BY <1>1
<1> QED  BY <1>1, <1>2 DEF Every

(* The process of a run not rekeyed has its timer running. *)
LEMMA HeldTimed ==
  ASSUME Tracked, TimersRun, NEW p \in Procs, NEW c \in hand[p], c.job \notin rekeyed
  PROVE  beat[p] # NoTimer /\ beat[p] >= 0 /\ beat[p] <= Every /\ Key(c) \in inFlight[p]
<1>1. Key(c) \in inFlight[p]
  BY DEF Tracked, Filed
<1> QED  BY <1>1 DEF TimersRun

(* While no more than one heartbeat failed, no such run's lease has lapsed. *)
LEMMA HeldUnlapsed ==
  ASSUME VisibilityTimeout >= 3, LInv, missed <= 1,
         NEW p \in Procs, NEW c \in hand[p], c.job \notin rekeyed
  PROVE  row[c.job].status = "claimed" /\ row[c.job].lease > 0
<1>1. c.job \in Jobs /\ row[c.job].lease \in Int /\ beat[p] \in Int
  BY DEF LInv, TypeOK, Rows, Claims
<1>2. beat[p] >= 0
  BY HeldTimed DEF LInv
<1>3. row[c.job].lease >= beat[p] + Cover /\ Current(c)
  BY DEF LInv, Covered, Leased
<1>4. Cover \in Int /\ Cover >= 1
  BY EveryIsThird DEF Cover
<1> QED  BY <1>1, <1>2, <1>3, <1>4 DEF Current

LEMMA LeaseInit == VisibilityTimeout >= 3 /\ Init => LInv
BY InitType, TrackedInit, EveryIsThird DEF Init, LInv, TimersRun, Covered, Leased, NoTimer

(* A step that drops claims, leaves the others their rows and keeps the    *)
(* timers keeps the leases. *)
LEMMA LeaseKept ==
  ASSUME LInv, missed' = missed, rekeyed' = rekeyed,
         \A p \in Procs : hand'[p] \subseteq hand[p],
         \A p \in Procs : hand'[p] # {} => beat'[p] = beat[p],
         \A p \in Procs : \A c \in hand'[p] : missed <= 1 /\ c.job \notin rekeyed =>
           /\ row'[c.job].status = row[c.job].status
           /\ row'[c.job].attempts = row[c.job].attempts
           /\ row'[c.job].lease = row[c.job].lease
  PROVE  Covered'
<1> SUFFICES ASSUME missed <= 1 PROVE Leased'
  BY DEF Covered
<1>1. Leased
  BY DEF LInv, Covered
<1>2. Cover' = Cover
  BY DEF Cover
<1>3. \A p \in Procs : \A c \in hand'[p] : c.job \notin rekeyed' =>
        Current(c)' /\ row'[c.job].lease >= beat'[p] + Cover'
  BY <1>1, <1>2 DEF Leased, Current
<1>4. \A p, q \in Procs : \A c \in hand'[p], d \in hand'[q] :
        c.job = d.job /\ c.job \notin rekeyed' => p = q /\ c = d
  BY <1>1 DEF Leased
<1> QED  BY <1>3, <1>4 DEF Leased

LEMMA LeaseStep == VisibilityTimeout >= 3 /\ LInv /\ [Next]_vars => LInv'
<1> SUFFICES ASSUME VisibilityTimeout >= 3, LInv, [Next]_vars PROVE LInv'
  OBVIOUS
<1>0. TypeOK /\ Tracked /\ TimersRun /\ Covered /\ TypeOK' /\ Tracked'
  BY NextType, TrackedStep DEF LInv
<1>1. Every \in Int /\ Every >= 1 /\ Every + Every + Every <= VisibilityTimeout
      /\ VisibilityTimeout \in Int /\ NoTimer = -1
  BY EveryIsThird, ConfigAssumption DEF NoTimer
<1>2. SUFFICES TimersRun' /\ Covered'
  BY <1>0 DEF LInv
<1>3. \A p \in Procs : beat[p] \in Int
  BY <1>0 DEF TypeOK
<1>4. ASSUME NEW j \in Jobs, NEW d \in Delays, Enqueue(j, d) PROVE TimersRun' /\ Covered'
  <2>1. /\ hand' = hand /\ beat' = beat /\ missed' = missed
        /\ inFlight' = inFlight /\ rekeyed' = rekeyed
    BY <1>4 DEF Enqueue, inMemory
  <2>2. TimersRun'
    BY <1>0, <2>1 DEF TimersRun
  <2>3. \A p \in Procs : \A c \in hand[p] :
          missed <= 1 /\ c.job \notin rekeyed => row'[c.job] = row[c.job]
    BY <1>0, <1>4, HeldUnlapsed DEF Enqueue, TypeOK
  <2> QED  BY <2>1, <2>2, <2>3, LeaseKept
<1>5. ASSUME NEW p \in Procs, NEW S \in SUBSET Jobs, Claim(p, S) PROVE TimersRun' /\ Covered'
  <2>1. /\ missed' = missed /\ rekeyed \subseteq rekeyed'
        /\ \A q \in Procs :
             /\ beat'[q] = IF q = p /\ beat[q] = NoTimer THEN Every ELSE beat[q]
             /\ q # p => inFlight'[q] = inFlight[q]
    BY <1>0, <1>5 DEF Claim, TypeOK
  <2>2. TimersRun'
    BY <1>0, <1>1, <1>3, <2>1 DEF TimersRun
  <2>3. ASSUME missed <= 1 PROVE Leased'
    <3>1. \A q \in Procs : \A c \in hand[q] : c.job \notin rekeyed => c.job \notin S
      BY <1>5, <2>3, <1>0, HeldUnlapsed DEF Claim, claimable, TypeOK, Rows, Claims
    <3>2. ASSUME NEW q \in Procs, NEW c \in hand'[q], c.job \notin rekeyed'
          PROVE  \/ c \in hand[q] /\ c.job \notin S
                 \/ /\ q = p /\ c.job \in S
                    /\ c = Taken(c.job, row[c.job].attempts + 1, life[c.job], "handed", "newest")
      <4>1. \/ c \in Superseded(hand[q], S)
            \/ c \in IF q = p THEN {Taken(j, row[j].attempts + 1, life[j], "handed", "newest") : j \in S}
                              ELSE {}
        BY <1>5, <3>2 DEF Claim
      <4>2. CASE c \in Superseded(hand[q], S)
        <5>1. PICK b \in hand[q] : c.job = b.job /\ c \in Superseded({b}, S)
          BY <4>2, SupersededKeeps
        <5>2. b.job \notin S
          BY <2>1, <3>1, <3>2, <5>1
        <5> QED  BY <5>1, <5>2 DEF Superseded
      <4>3. CASE c \notin Superseded(hand[q], S)
        BY <4>1, <4>3 DEF Taken
      <4> QED  BY <4>2, <4>3
    <3>3. \A j \in Jobs :
            /\ j \in S => /\ row'[j].status = "claimed" /\ row'[j].attempts = row[j].attempts + 1
                          /\ row'[j].lease = VisibilityTimeout
            /\ j \notin S => row'[j] = row[j]
      BY <1>5 DEF Claim, claimedRow, Row
    <3>4. ASSUME NEW q \in Procs, NEW c \in hand'[q], c.job \notin rekeyed'
          PROVE  Current(c)' /\ row'[c.job].lease >= beat'[q] + Cover'
      <4>1. CASE c \in hand[q] /\ c.job \notin S
        <5>1. c.job \in Jobs /\ c.job \notin rekeyed
          BY <1>0, <2>1, <3>4, <4>1 DEF TypeOK, Claims
        <5>2. beat[q] # NoTimer
          BY <1>0, <4>1, <5>1, HeldTimed
        <5>3. Current(c) /\ row[c.job].lease >= beat[q] + Cover
          BY <1>0, <2>3, <4>1, <5>1 DEF Covered, Leased
        <5>4. Cover' = Cover
          BY <2>1 DEF Cover
        <5> QED  BY <2>1, <3>3, <4>1, <5>1, <5>2, <5>3, <5>4 DEF Current
      <4>2. CASE /\ q = p /\ c.job \in S
                 /\ c = Taken(c.job, row[c.job].attempts + 1, life[c.job], "handed", "newest")
        <5>1. c.attempt = row[c.job].attempts + 1
          BY <4>2 DEF Taken
        <5>2. beat'[p] \in Int /\ beat'[p] <= Every
          BY <1>0, <1>1, <1>3, <2>1 DEF TimersRun
        <5>3. Cover' \in Int /\ Cover' <= Every + Every
          BY <1>1 DEF Cover
        <5> QED  BY <1>1, <3>3, <4>2, <5>1, <5>2, <5>3 DEF Current
      <4> QED  BY <3>2, <3>4, <4>1, <4>2
    <3>5. ASSUME NEW q \in Procs, NEW s \in Procs, NEW c \in hand'[q], NEW d \in hand'[s],
                 c.job = d.job, c.job \notin rekeyed'
          PROVE  q = s /\ c = d
      <4>1. CASE c.job \notin S
        <5>1. c \in hand[q] /\ d \in hand[s] /\ c.job \notin rekeyed
          BY <2>1, <3>2, <3>5, <4>1
        <5> QED  BY <1>0, <2>3, <3>5, <5>1 DEF Covered, Leased
      <4>2. CASE c.job \in S
        BY <3>2, <3>5, <4>2
      <4> QED  BY <4>1, <4>2
    <3> QED  BY <3>4, <3>5 DEF Leased
  <2> QED  BY <2>1, <2>2, <2>3 DEF Covered
<1>6. ASSUME NEW p \in Procs, Heartbeat(p) PROVE TimersRun' /\ Covered'
  <2>1. /\ hand' = hand /\ missed' = missed /\ Cover' = Cover
        /\ inFlight' = inFlight /\ rekeyed' = rekeyed
    BY <1>6 DEF Heartbeat, inMemory, Cover
  <2>2. \A q \in Procs : beat'[q] = IF q # p THEN beat[q]
                                    ELSE IF inFlight[p] = {} THEN NoTimer ELSE Every
    BY <1>0, <1>6 DEF Heartbeat, TypeOK
  <2>3. TimersRun'
    BY <1>0, <1>1, <2>1, <2>2 DEF TimersRun
  <2>4. ASSUME missed <= 1 PROVE Leased'
    <3>1. Leased
      BY <1>0, <2>4 DEF Covered
    <3>2. ASSUME NEW q \in Procs, NEW c \in hand[q], c.job \notin rekeyed
          PROVE  Current(c)' /\ row'[c.job].lease >= beat'[q] + Cover'
      <4>1. c.job \in Jobs /\ Current(c) /\ row[c.job].lease >= beat[q] + Cover
        BY <1>0, <3>1, <3>2 DEF TypeOK, Claims, Leased
      <4>2. Key(c) \in inFlight[q] /\ beat[q] \in Int /\ beat[q] <= Every
        BY <1>0, <1>3, <3>2, HeldTimed
      <4>3. CASE row'[c.job] = extendedRow(row[c.job])
        <5>1. beat'[q] \in Int /\ beat'[q] <= Every
          BY <1>1, <2>2, <4>2
        <5>2. Cover' \in Int /\ Cover' <= Every + Every
          BY <1>1 DEF Cover
        <5>3. /\ row'[c.job].status = row[c.job].status
              /\ row'[c.job].attempts = row[c.job].attempts
              /\ row'[c.job].lease = VisibilityTimeout
          BY <4>3 DEF extendedRow, Row
        <5>4. Current(c)'
          BY <4>1, <5>3 DEF Current
        <5>5. \A e, b, n, v \in Int : e + e + e <= v /\ b <= e /\ n <= e + e => v >= b + n
          OBVIOUS
        <5>6. row'[c.job].lease >= beat'[q] + Cover'
          BY <1>1, <5>1, <5>2, <5>3, <5>5
        <5> QED  BY <5>4, <5>6
      <4>4. CASE row'[c.job] = row[c.job] /\ q # p
        BY <2>1, <2>2, <4>1, <4>4 DEF Current
      <4>5. q = p => row'[c.job] = extendedRow(row[c.job])
        BY <1>6, <4>1, <4>2 DEF Heartbeat, Current, Key
      <4>6. row'[c.job] = extendedRow(row[c.job]) \/ row'[c.job] = row[c.job]
        BY <1>6, <4>1 DEF Heartbeat
      <4> QED  BY <4>3, <4>4, <4>5, <4>6
    <3> QED  BY <2>1, <3>1, <3>2 DEF Leased
  <2> QED  BY <2>1, <2>3, <2>4 DEF Covered
<1>7. ASSUME NEW p \in Procs, MissHeartbeat(p) PROVE TimersRun' /\ Covered'
  <2>1. /\ hand' = hand /\ row' = row /\ missed' = missed + 1 /\ missed \in Nat /\ beat[p] = 0
        /\ inFlight' = inFlight /\ rekeyed' = rekeyed
    BY <1>0, <1>7 DEF MissHeartbeat, inMemory, TypeOK
  <2>2. \A q \in Procs : beat'[q] = IF q = p THEN Every ELSE beat[q]
    BY <1>0, <1>7 DEF MissHeartbeat, TypeOK
  <2>3. TimersRun'
    BY <1>0, <1>1, <2>1, <2>2 DEF TimersRun
  <2>4. ASSUME missed' <= 1 PROVE Leased'
    <3>1. missed = 0 /\ Leased /\ Cover = Every + Every /\ Cover' = Every
      BY <1>0, <2>1, <2>4 DEF Covered, Cover
    <3>2. ASSUME NEW q \in Procs, NEW c \in hand[q], c.job \notin rekeyed
          PROVE  Current(c)' /\ row'[c.job].lease >= beat'[q] + Cover'
      <4>1. /\ c.job \in Jobs /\ Current(c) /\ row[c.job].lease >= beat[q] + Cover
            /\ row[c.job].lease \in Int /\ beat[q] \in Int
        BY <1>0, <3>1, <3>2 DEF TypeOK, Claims, Rows, Leased
      <4> QED  BY <1>1, <2>1, <2>2, <3>1, <4>1 DEF Current
    <3> QED  BY <2>1, <3>1, <3>2 DEF Leased
  <2> QED  BY <2>3, <2>4 DEF Covered
<1>8. ASSUME NEW p \in Procs, Crash(p) PROVE TimersRun' /\ Covered'
  <2>1. /\ row' = row /\ missed' = missed /\ rekeyed' = rekeyed
        /\ \A q \in Procs : /\ hand'[q] = IF q = p THEN {} ELSE hand[q]
                            /\ inFlight'[q] = IF q = p THEN {} ELSE inFlight[q]
                            /\ beat'[q] = IF q = p THEN NoTimer ELSE beat[q]
    BY <1>0, <1>8 DEF Crash, TypeOK
  <2>2. TimersRun'
    BY <1>0, <2>1 DEF TimersRun
  <2> QED  BY <2>1, <2>2, LeaseKept
<1>9. ASSUME NEW p \in Procs, LeaveSome(p) PROVE TimersRun' /\ Covered'
  <2>1. /\ row' = row /\ missed' = missed /\ rekeyed' = rekeyed /\ beat' = beat /\ hand' = hand
        /\ \A q \in Procs : inFlight'[q] \subseteq inFlight[q]
    BY <1>0, <1>9 DEF LeaveSome, Leave, TypeOK
  <2>2. TimersRun'
    BY <1>0, <2>1 DEF TimersRun
  <2> QED  BY <2>1, <2>2, LeaseKept
<1>10. ASSUME NEW p \in Procs, NEW c \in hand[p], Begin(p, c) PROVE TimersRun' /\ Covered'
  <2>0. PICK e : e = Taken(c.job, c.attempt, c.life, "running", c.rank)
    OBVIOUS
  <2>1. /\ row' = row /\ missed' = missed /\ beat' = beat /\ Cover' = Cover
        /\ inFlight' = inFlight /\ rekeyed' = rekeyed
        /\ \A q \in Procs : hand'[q] = IF q = p THEN (hand[q] \ {c}) \union {e} ELSE hand[q]
    BY <1>0, <1>10, <2>0 DEF Begin, TypeOK, Cover
  <2>2. TimersRun'
    BY <1>0, <2>1 DEF TimersRun
  <2>3. ASSUME missed <= 1 PROVE Leased'
    <3>1. Leased
      BY <1>0, <2>3 DEF Covered
    <3>2. e.job = c.job /\ e.attempt = c.attempt
      BY <2>0 DEF Taken
    <3>3. \A q \in Procs : \A d \in hand'[q] :
             \/ d \in hand[q] /\ (q = p => d # c)
             \/ q = p /\ d = e
      BY <2>1
    <3>4. ASSUME NEW q \in Procs, NEW d \in hand'[q], d.job \notin rekeyed
          PROVE  Current(d)' /\ row'[d.job].lease >= beat'[q] + Cover'
      <4>1. PICK a \in hand[q] : a.job = d.job /\ a.attempt = d.attempt
        BY <3>2, <3>3, <3>4
      <4>2. Current(a) /\ row[a.job].lease >= beat[q] + Cover
        BY <3>1, <3>4, <4>1 DEF Leased
      <4>3. row'[d.job].lease >= beat'[q] + Cover'
        BY <2>1, <4>1, <4>2
      <4> QED  BY <2>1, <4>1, <4>2, <4>3 DEF Current
    <3>5. ASSUME NEW q \in Procs, NEW s \in Procs, NEW a \in hand'[q], NEW b \in hand'[s],
                 a.job = b.job, a.job \notin rekeyed
          PROVE  q = s /\ a = b
      <4>1. a.job = c.job =>
              \A t \in Procs : \A d \in hand[t] : d.job = c.job => t = p /\ d = c
        BY <3>1, <3>5 DEF Leased
      <4>2. \A t, u \in Procs : \A f \in hand[t], g \in hand[u] :
              f.job = g.job /\ f.job \notin rekeyed => t = u /\ f = g
        BY <3>1 DEF Leased
      <4> QED  BY <3>2, <3>3, <3>5, <4>1, <4>2
    <3> QED  BY <2>1, <3>4, <3>5 DEF Leased
  <2> QED  BY <2>1, <2>2, <2>3 DEF Covered
<1>11. ASSUME NEW p \in Procs, NEW c \in hand[p],
              Ends(p, c), beat' = beat, missed' = missed, rekeyed' = rekeyed,
              \A j \in Jobs : j # c.job => row'[j] = row[j]
       PROVE  TimersRun' /\ Covered'
  <2>1. /\ inFlight' = inFlight
        /\ \A q \in Procs : hand'[q] = IF q = p THEN hand[q] \ {c} ELSE hand[q]
    BY <1>0, <1>11 DEF Ends, TypeOK
  <2>2. TimersRun'
    BY <1>0, <1>11, <2>1 DEF TimersRun
  <2>3. ASSUME missed <= 1, NEW q \in Procs, NEW d \in hand'[q], d.job \notin rekeyed
        PROVE  row'[d.job] = row[d.job]
    <3>1. d \in hand[q] /\ d.job # c.job /\ d.job \in Jobs
      BY <1>0, <2>1, <2>3 DEF Covered, Leased, TypeOK, Claims
    <3> QED  BY <1>11, <3>1
  <2> QED  BY <1>11, <2>1, <2>2, <2>3, LeaseKept
<1>12. ASSUME NEW p \in Procs, NEW c \in hand[p], (\E r : Report(p, c, r)) \/ LoseReport(p, c)
       PROVE  TimersRun' /\ Covered'
  <2>1. /\ Ends(p, c) /\ beat' = beat /\ missed' = missed /\ rekeyed' = rekeyed
        /\ \A j \in Jobs : j # c.job => row'[j] = row[j]
    BY <1>0, <1>12 DEF Report, LoseReport, TypeOK
  <2> QED  BY <1>11, <2>1
<1>13. ASSUME NEW j \in Jobs, retryDead(j) \/ prune(j) PROVE TimersRun' /\ Covered'
  <2>1. /\ hand' = hand /\ beat' = beat /\ missed' = missed
        /\ inFlight' = inFlight /\ rekeyed' = rekeyed
    BY <1>13 DEF retryDead, prune, inMemory
  <2>2. TimersRun'
    BY <1>0, <2>1 DEF TimersRun
  <2>3. ASSUME NEW p \in Procs, NEW c \in hand[p], missed <= 1, c.job \notin rekeyed
        PROVE  row'[c.job] = row[c.job]
    <3>1. row[c.job].status = "claimed"
      BY <2>3, HeldUnlapsed
    <3>2. row[j].status = "dead" /\ \A k \in Jobs : k # j => row'[k] = row[k]
      BY <1>0, <1>13 DEF retryDead, prune, TypeOK
    <3>3. c.job \in Jobs
      BY <1>0 DEF TypeOK, Claims
    <3> QED  BY <3>1, <3>2, <3>3
  <2> QED  BY <2>1, <2>2, <2>3, LeaseKept
<1>14. ASSUME Tick PROVE TimersRun' /\ Covered'
  <2>1. /\ hand' = hand /\ missed' = missed /\ Cover' = Cover
        /\ inFlight' = inFlight /\ rekeyed' = rekeyed
        /\ \A p \in Procs : beat[p] # 0 /\ beat'[p] = IF beat[p] > 0 THEN beat[p] - 1 ELSE beat[p]
    BY <1>14 DEF Tick, inMemory, Cover
  <2>2. TimersRun'
    BY <1>0, <1>1, <1>3, <2>1 DEF TimersRun
  <2>3. ASSUME missed <= 1 PROVE Leased'
    <3>1. Leased
      BY <1>0, <2>3 DEF Covered
    <3>2. ASSUME NEW p \in Procs, NEW c \in hand[p], c.job \notin rekeyed
          PROVE  Current(c)' /\ row'[c.job].lease >= beat'[p] + Cover'
      <4>1. /\ c.job \in Jobs /\ Current(c) /\ row[c.job].lease >= beat[p] + Cover
            /\ row[c.job].lease \in Int
        BY <1>0, <3>1, <3>2 DEF TypeOK, Claims, Rows, Leased
      <4>2. beat[p] > 0
        BY <1>0, <1>3, <2>1, <3>2, HeldTimed
      <4>3. row[c.job].status = "claimed" /\ row[c.job].lease > 0
        BY <2>3, <3>2, HeldUnlapsed
      <4>4. Lower(row[c.job].lease) = row[c.job].lease - 1
        BY <4>1, <4>3, ConfigAssumption DEF Lower
      <4>5. /\ row'[c.job].status = "claimed" /\ row'[c.job].attempts = row[c.job].attempts
            /\ row'[c.job].lease = row[c.job].lease - 1
        BY <1>14, <4>1, <4>3, <4>4 DEF Tick, Later, Row
      <4>6. Cover \in Int
        BY <1>1 DEF Cover
      <4> QED  BY <1>3, <2>1, <4>1, <4>2, <4>5, <4>6 DEF Current
    <3> QED  BY <2>1, <3>1, <3>2 DEF Leased
  <2> QED  BY <2>1, <2>2, <2>3 DEF Covered
<1>15. CASE UNCHANGED vars
  BY <1>0, <1>15 DEF vars, TimersRun, Covered, Leased, Cover, Current
<1> QED
  BY <1>4, <1>5, <1>6, <1>7, <1>8, <1>9, <1>10, <1>12, <1>13, <1>14, <1>15
  DEF Next, ClaimSome, Step, DropUnrun, Complete, Fail, ReleaseUnknown, Release

(* Two runs of one job never overlap, in one process or two, unless at     *)
(* least two heartbeats failed, or the job was claimed by a process in     *)
(* which a run of that very key had given its attempt back and not left    *)
(* yet - for any visibility timeout a third of which the timer can be set  *)
(* to, any delays, releases, crashes and lost reports. *)
THEOREM RunsDoNotOverlap == ASSUME VisibilityTimeout >= 3 PROVE Spec => []NoOverlap
<1>1. Init => LInv
  BY LeaseInit
<1>2. LInv /\ [Next]_vars => LInv'
  BY LeaseStep
<1>3. LInv => NoOverlap
  BY DEF LInv, Covered, Leased, NoOverlap
<1> QED  BY <1>1, <1>2, <1>3, PTL DEF Spec

=============================================================================
