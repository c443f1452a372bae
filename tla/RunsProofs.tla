------------------------------ MODULE RunsProofs ------------------------------
(***************************************************************************)
(* A run ends once, and everybody who has seen an end has seen that one:   *)
(* for any number of waits, followers, workers and callers, whatever is    *)
(* lost, crashes or closes, and however few entries the feed keeps.        *)
(*                                                                         *)
(* One argument gives types and agreement: no step brings in a record from *)
(* anywhere but the row, so if R holds the row before and after a step,    *)
(* records that were all in R stay in R.                                   *)
(***************************************************************************)
EXTENDS Runs, SequenceTheorems, TLAPS

Stage == {"none", "new", "heads", "idle", "reading", "closed"}

(* A function on 1 .. n is a sequence. *)
LEMMA AsSeq ==
  ASSUME NEW S, NEW n \in Nat, NEW q \in [1 .. n -> S]
  PROVE  q \in Seq(S)
BY SeqDef

(* What an event is, once built, ... *)
LEMMA EventType ==
  ASSUME NEW R
  PROVE  /\ \A r \in R : Event("change", r) \in Events(R)
         /\ \A t \in {"none", "done", "reset"}, n \in Nat : Event(t, n) \in Events(R)
         /\ Nothing \in Events(R)
BY DEF Event, Events, Nothing

(* ... a subscription, ... *)
LEMMA SubType ==
  ASSUME NEW R, NEW stage \in Stage, NEW readTo \in Nat, NEW dirty \in {"no", "yes"},
         NEW pending \in Seq(Events(R)), NEW head \in Nat,
         NEW next \in {"none", "asked", "settled"}, NEW event \in Events(R)
  PROVE  Sub(stage, readTo, dirty, pending, head, next, event) \in Subs(R)
BY DEF Sub, Subs, Stage

(* ... a change, a loop, and a worker. *)
LEMMA ActorTypes ==
  ASSUME NEW R
  PROVE  /\ \A r \in R, s \in {"off", "none", "null", "read", "publish", "made"} :
              Change(s, r) \in ChangesOf(R)
         /\ \A r \in R, s \in {"off", "ready", "get", "check", "sleep", "expire", "follow", "over"} :
              Loop(s, r) \in LoopsOf(R)
         /\ \A r \in R, b \in {"no", "yes"},
               s \in {"none", "ready", "start", "works", "settle", "await", "done"} :
              Work(s, b, r) \in WorksOf(R)
BY DEF Change, Loop, Work, ChangesOf, LoopsOf, WorksOf

(* What everybody has has the fields that its type says. *)
LEMMA ActorFields ==
  ASSUME NEW R
  PROVE  /\ \A x \in ChangesOf(R) : x.record \in R
         /\ \A x \in LoopsOf(R) : x.record \in R
         /\ \A x \in WorksOf(R) : x.record \in R /\ x.aborted \in {"no", "yes"}
               /\ x.stage \in {"none", "ready", "start", "works", "settle", "await", "done"}
BY DEF ChangesOf, LoopsOf, WorksOf

(* A subscription has the fields that its type says. *)
LEMMA SubFields ==
  ASSUME NEW R, NEW s \in Subs(R)
  PROVE  /\ s.stage \in Stage /\ s.readTo \in Nat /\ s.dirty \in {"no", "yes"}
         /\ s.pending \in Seq(Events(R)) /\ s.head \in Nat
         /\ s.next \in {"none", "asked", "settled"} /\ s.event \in Events(R)
BY DEF Subs, Stage

(* What the code does to a subscription leaves it one. *)
LEMMA SubSteps ==
  ASSUME NEW R, NEW s \in Subs(R)
  PROVE  /\ Closed(s) \in Subs(R) /\ Settled(s) \in Subs(R) /\ Asks(s) \in Subs(R)
         /\ Takes(s) \in Subs(R) /\ \A seq : moved(s, seq) \in Subs(R)
<1> USE DEF Stage
<1>1. Closed(s) \in Subs(R)
  <2>1. <<>> \in Seq(Events(R))
    OBVIOUS
  <2> QED
    BY <2>1, SubType, SubFields, EventType DEF Closed
<1>2. ASSUME NEW t \in Subs(R)
      PROVE  Settled(t) \in Subs(R)
  <2>1. CASE t.next = "asked" /\ t.pending # <<>>
    <3>1. t.pending \in Seq(Events(R))
      BY SubFields
    <3>2. Tail(t.pending) \in Seq(Events(R)) /\ Head(t.pending) \in Events(R)
      BY <2>1, <3>1
    <3> QED
      BY <2>1, <3>2, SubType, SubFields DEF Settled
  <2>2. CASE ~(t.next = "asked" /\ t.pending # <<>>)
    BY <2>2 DEF Settled
  <2> QED
    BY <2>1, <2>2
<1>3. Asks(s) \in Subs(R)
  <2>1. <<>> \in Seq(Events(R))
    OBVIOUS
  <2>2. Sub("closed", 0, "no", <<>>, 0, "settled", Event("done", 0)) \in Subs(R)
    BY <2>1, SubType, EventType
  <2>3. Sub(s.stage, s.readTo, s.dirty, s.pending, s.head, "asked", Nothing) \in Subs(R)
    BY SubType, SubFields, EventType
  <2> QED
    BY <2>2, <2>3, <1>2 DEF Asks
<1>4. Takes(s) \in Subs(R)
  BY SubType, SubFields, EventType DEF Takes
<1>5. \A seq : moved(s, seq) \in Subs(R)
  BY SubType, SubFields DEF moved
<1> QED
  BY <1>1, <1>2, <1>3, <1>4, <1>5

-----------------------------------------------------------------------------
(* Records go nowhere but where they were, and from the row.               *)

(* The feed passes on what is in its log. *)
LEMMA FeedKeeps ==
  ASSUME NEW R, Holding(R), NEW l \in Listeners,
         FeedStep(l) \/ \E seq \in 1 .. Len(log) : Notified(l, seq),
         UNCHANGED runVars
  PROVE  Holding(R)'
<1> USE DEF Stage
<1>1. /\ log' = log /\ row' = row /\ deadline' = deadline /\ change' = change
      /\ loop' = loop /\ work' = work /\ mishaps' = mishaps
  BY DEF runVars, FeedStep, readHeads, ready, readHead, readEntries, Notified
<1>2. sub \in [Listeners -> Subs(R)] /\ sub[l] \in Subs(R) /\ log \in Seq(R)
  BY DEF Holding
<1>3. Len(log) \in Nat /\ <<>> \in Seq(Events(R))
  BY <1>2
<1>4. SUFFICES \E s \in Subs(R) : sub' = [sub EXCEPT ![l] = s]
  BY <1>1, <1>2 DEF Holding
<1>5. CASE readHeads(l)
  BY <1>2, <1>3, <1>5, SubType, SubFields DEF readHeads
<1>6. CASE ready(l)
  BY <1>2, <1>3, <1>6, SubType, SubFields DEF ready
<1>7. CASE readHead(l)
  BY <1>2, <1>3, <1>7, SubType, SubFields DEF readHead
<1>8. CASE readEntries(l)
  <2> DEFINE after == sub[l].readTo
             last == IF Len(log) - after > BatchSize THEN after + BatchSize ELSE Len(log)
             read == [i \in 1 .. last - after |-> Event("change", log[after + i])]
  <2>1. after \in Nat /\ BatchSize \in Nat
    BY <1>2, SubFields, FeedAssumption
  <2>2. last \in Nat /\ last <= Len(log)
    BY <2>1, <1>3
  <2>3. read \in Seq(Events(R))
    <3>1. \A i \in 1 .. last - after : after + i \in 1 .. Len(log)
      BY <2>1, <2>2, <1>3
    <3>2. \A i \in 1 .. last - after : Event("change", log[after + i]) \in Events(R)
      BY <3>1, <1>2, EventType
    <3>3. \E n \in Nat : 1 .. last - after = 1 .. n
      <4>1. CASE last - after \in Nat
        BY <4>1
      <4>2. CASE last - after \notin Nat
        <5>1. 1 .. last - after = 1 .. 0
          BY <4>2, <2>1, <2>2
        <5> QED
          BY <5>1
      <4> QED
        BY <4>1, <4>2
    <3>4. \E n \in Nat : read \in [1 .. n -> Events(R)]
      BY <3>2, <3>3
    <3> HIDE DEF read
    <3> QED
      BY <3>4, AsSeq
  <2> HIDE DEF after, last, read
  <2>4. Sub("idle", last, IF last - after = BatchSize THEN "yes" ELSE sub[l].dirty,
            read, 0, sub[l].next, sub[l].event) \in Subs(R)
    BY <2>2, <2>3, <1>2, SubType, SubFields
  <2>5. Event("reset", sub[l].head) \in Events(R)
    BY <1>2, SubFields, EventType
  <2>6. Sub("idle", sub[l].head, sub[l].dirty, <<Event("reset", sub[l].head)>>, 0,
            sub[l].next, sub[l].event) \in Subs(R)
    <3>1. <<Event("reset", sub[l].head)>> \in Seq(Events(R))
      BY <2>5
    <3> DEFINE p == <<Event("reset", sub[l].head)>>
    <3>2. p \in Seq(Events(R))
      BY <3>1
    <3> HIDE DEF p
    <3>3. Sub("idle", sub[l].head, sub[l].dirty, p, 0, sub[l].next, sub[l].event) \in Subs(R)
      BY <3>2, <1>2, SubType, SubFields
    <3> QED
      BY <3>3 DEF p
  <2> QED
    BY <1>8, <2>4, <2>6, SubSteps DEF readEntries, after, last, read
<1>9. CASE \E seq \in 1 .. Len(log) : Notified(l, seq)
  BY <1>2, <1>9, SubSteps DEF Notified
<1> QED
  BY <1>5, <1>6, <1>7, <1>8, <1>9 DEF FeedStep

(* A change is made to a copy of the row, ... *)
LEMMA ChangeKeeps ==
  ASSUME NEW R, Holding(R), NoRecord \in R, NEW a \in Actors,
         change' = [change EXCEPT ![a] = NoChange] \/ (\E from, to : Transition(a, from, to))
           \/ readBack(a) \/ publish(a)
  PROVE  change' \in [Actors -> ChangesOf(R)]
<1>1. /\ change \in [Actors -> ChangesOf(R)]
      /\ change[a].record \in R /\ row \in R
  BY ActorFields DEF Holding
<1>2. CASE change' = [change EXCEPT ![a] = NoChange]
  BY <1>1, <1>2, ActorTypes DEF NoChange
<1>3. CASE \E from, to : Transition(a, from, to)
  <2>1. PICK from, to : Transition(a, from, to)
    BY <1>3
  <2>2. Change("read", NoRecord) \in ChangesOf(R) /\ Change("null", NoRecord) \in ChangesOf(R)
    BY ActorTypes
  <2> QED
    BY <1>1, <2>1, <2>2 DEF Transition
<1>4. CASE readBack(a)
  BY <1>1, <1>4, ActorTypes DEF readBack
<1>5. CASE publish(a)
  <2>1. NoChange \in ChangesOf(R)
    BY ActorTypes DEF NoChange
  <2>2. Change("made", change[a].record)
          \in ChangesOf(R)
    BY <1>1, ActorTypes
  <2> QED
    BY <1>1, <1>5, <2>1, <2>2 DEF publish
<1> QED
  BY <1>2, <1>3, <1>4, <1>5

(* ... and a mishap is counted. *)
LEMMA MishapKeeps ==
  ASSUME NEW R, Holding(R), NEW kind, Mishap(kind)
  PROVE  mishaps' \in [lost : Nat, crashed : Nat, closed : Nat]
<1>1. mishaps \in [lost : Nat, crashed : Nat, closed : Nat] /\ kind \in {"lost", "crashed", "closed"}
  BY RunsAssumption DEF Holding, Mishap
<1> QED
  BY <1>1 DEF Mishap

(* wait(), subscribe() and watch() keep what they read of the run. *)
LEMMA ListenKeeps ==
  ASSUME NEW R, Holding(R), NoRecord \in R, row' \in R, NEW l \in Listeners,
         Listens(l) \/ rechecks(l)
  PROVE  Holding(R)'
<1> USE DEF Holding
<1>1. /\ sub \in [Listeners -> Subs(R)] /\ sub[l] \in Subs(R)
      /\ loop[l].record \in R /\ row \in R /\ sub[l].event \in Events(R)
  BY SubFields, ActorFields
<1>2. l \notin Followers => Self(l) \in Actors
  BY RunsAssumption DEF Self, Actors
<1>3. Closed(sub[l]) \in Subs(R) /\ Asks(sub[l]) \in Subs(R) /\ Takes(sub[l]) \in Subs(R)
  BY <1>1, SubSteps
<1>4. ASSUME NEW r \in R,
             NEW s \in {"off", "ready", "get", "check", "sleep", "expire", "follow", "over"},
             To(l, s, r)
      PROVE  loop' \in [Listeners -> LoopsOf(R)]
  BY <1>4, ActorTypes DEF To
<1>5. CASE begins(l)
  BY <1>4, <1>5 DEF begins, feedVars
<1>6. CASE gets(l)
  BY <1>1, <1>4, <1>6 DEF gets, feedVars
<1>7. CASE checks(l)
  <2>1. /\ UNCHANGED <<log, row, deadline, change, mishaps>>
        /\ sub' = sub \/ sub' = [sub EXCEPT ![l] = Closed(@)] \/ sub' = [sub EXCEPT ![l] = Asks(@)]
    BY <1>7 DEF checks, Ends
  <2>2. \E s \in {"over", "expire", "sleep"} : To(l, s, loop[l].record)
    BY <1>7 DEF checks, Ends
  <2>3. work' \in [Workers -> WorksOf(R)]
    <3>1. CASE work' = work
      BY <3>1
    <3>2. CASE l \in Workers /\ work' = [work EXCEPT ![l] = Work(@.stage, "yes", @.record)]
      <4>1. work[l] \in WorksOf(R)
        BY <3>2
      <4>2. Work(work[l].stage, "yes", work[l].record) \in WorksOf(R)
        BY <4>1, ActorTypes, ActorFields
      <4> QED
        BY <3>2, <4>2
    <3> QED
      BY <1>7, <3>1, <3>2 DEF checks
  <2>4. sub' \in [Listeners -> Subs(R)]
    BY <2>1, <1>1, <1>3
  <2> QED
    BY <2>1, <2>2, <2>3, <2>4, <1>1, <1>4
<1>8. CASE l \notin Followers /\ expire(l)
  <2>1. change' \in [Actors -> ChangesOf(R)]
    BY <1>2, <1>8, ChangeKeeps DEF expire
  <2> QED
    BY <1>8, <2>1 DEF expire, feedVars
<1>9. CASE l \notin Followers /\ expired(l)
  <2>1. change' \in [Actors -> ChangesOf(R)]
    BY <1>2, <1>9, ChangeKeeps DEF expired
  <2>2. change[Self(l)].record \in R
    BY <1>2, <1>9, ActorFields
  <2>3. \E s \in {"check", "get"}, r \in R : To(l, s, r)
    BY <1>1, <1>9, <2>2 DEF expired
  <2> QED
    BY <1>9, <2>1, <2>3, <1>4 DEF expired, feedVars
<1>10. CASE wakes(l)
  BY <1>1, <1>3, <1>4, <1>10 DEF wakes
<1>11. CASE rechecks(l)
  BY <1>1, <1>4, <1>11 DEF rechecks, feedVars
<1>12. CASE stopsWatching(l)
  BY <1>1, <1>4, <1>12 DEF stopsWatching, feedVars
<1>13. ASSUME NEW r \in R, Yields(l, r) \/ (To(l, "follow", r) /\ sub' = [sub EXCEPT ![l] = Asks(@)]),
              UNCHANGED <<log, row, deadline, change, work, mishaps>>
       PROVE  Holding(R)'
  <2>1. \E s \in {"over", "follow"} : To(l, s, r)
    BY <1>13 DEF Yields
  <2>2. sub' \in [Listeners -> Subs(R)]
    BY <1>1, <1>3, <1>13 DEF Yields
  <2> QED
    BY <2>1, <2>2, <1>4, <1>13
<1>14. CASE reads(l)
  BY <1>1, <1>13, <1>14 DEF reads
<1>15. CASE hears(l)
  <2>1. UNCHANGED <<log, row, deadline, change, work, mishaps>>
    BY <1>15 DEF hears
  <2>2. CASE Ends(l) \/ readsAgain(l)
    <3>1. \E s \in {"over", "get"} : To(l, s, loop[l].record)
      BY <2>2 DEF Ends, readsAgain
    <3>2. sub' \in [Listeners -> Subs(R)]
      BY <1>1, <1>3, <2>2 DEF Ends, readsAgain
    <3> QED
      BY <3>1, <3>2, <2>1, <1>1, <1>4
  <2>3. CASE \E r \in R : Yields(l, r) \/ (To(l, "follow", r) /\ sub' = [sub EXCEPT ![l] = Asks(@)])
    BY <2>1, <2>3, <1>13
  <2>4. sub[l].event.type = "change" => sub[l].event.data \in R
    BY <1>1 DEF Events
  <2> QED
    BY <1>1, <1>15, <2>2, <2>3, <2>4 DEF hears
<1> QED
  BY <1>5, <1>6, <1>7, <1>8, <1>9, <1>10, <1>11, <1>12, <1>14, <1>15 DEF Listens, Waits

(* execute() keeps what it read of the run. *)
LEMMA ExecuteKeeps ==
  ASSUME NEW R, Holding(R), NoRecord \in R, row' \in R, NEW w \in Workers,
         Executes(w) \/ progress(w) \/ settles(w) \/ crash(w)
  PROVE  Holding(R)'
<1> USE DEF Holding
<1>1. /\ w \in Listeners /\ w \in Actors /\ Watch(w) \in Actors
      /\ sub[w] \in Subs(R) /\ row \in R
      /\ work[w] \in WorksOf(R) /\ work[w].record \in R /\ work[w].aborted \in {"no", "yes"}
      /\ change[w].record \in R /\ loop[w].record \in R
  BY RunsAssumption, ActorFields DEF Actors
<1>2. Closed(sub[w]) \in Subs(R)
  BY <1>1, SubSteps
<1>3. ASSUME NEW r \in R,
             NEW s \in {"none", "ready", "start", "works", "settle", "await", "done"},
             WorkTo(w, s, r)
      PROVE  work' \in [Workers -> WorksOf(R)]
  <2>1. Work(s, work[w].aborted, r) \in WorksOf(R)
    BY <1>1, ActorTypes
  <2> QED
    BY <1>3, <2>1 DEF WorkTo
<1>4. CASE starts(w)
  <2>1. change' \in [Actors -> ChangesOf(R)]
    BY <1>1, <1>4, ChangeKeeps DEF starts
  <2>2. WorkTo(w, "start", NoRecord)
    BY <1>4 DEF starts
  <2> QED
    BY <1>3, <1>4, <2>1, <2>2 DEF starts, feedVars
<1>5. CASE started(w)
  <2>1. change' \in [Actors -> ChangesOf(R)]
    BY <1>1, <1>5, ChangeKeeps DEF started
  <2>2. PICK r \in R : Enters(w, r)
    BY <1>1, <1>5 DEF started
  <2>3. \E s \in {"done", "works"} : WorkTo(w, s, r)
    BY <2>2 DEF Enters
  <2>4. loop' \in [Listeners -> LoopsOf(R)]
    BY <1>1, <2>2, ActorTypes DEF Enters, To
  <2>5. sub' \in [Listeners -> Subs(R)]
    BY <1>1, <1>2, <2>2 DEF Enters
  <2> QED
    BY <1>3, <1>5, <2>1, <2>3, <2>4, <2>5 DEF started
<1>6. CASE progressed(w)
  <2>1. change' \in [Actors -> ChangesOf(R)]
    BY <1>1, <1>6, ChangeKeeps DEF progressed
  <2> QED
    BY <1>6, <2>1 DEF progressed, feedVars
<1>7. CASE settled(w)
  <2>1. change' \in [Actors -> ChangesOf(R)]
    BY <1>1, <1>7, ChangeKeeps DEF settled
  <2>2. Work("await", "yes", change[w].record) \in WorksOf(R)
    BY <1>1, ActorTypes
  <2> QED
    BY <1>1, <1>2, <1>7, <2>1, <2>2 DEF settled
<1>8. CASE resolves(w)
  <2>1. \E r \in R : WorkTo(w, "done", r)
    BY <1>1, <1>8 DEF resolves
  <2> QED
    BY <1>3, <1>8, <2>1 DEF resolves, feedVars
<1>9. CASE progress(w)
  <2>1. change' \in [Actors -> ChangesOf(R)]
    BY <1>1, <1>9, ChangeKeeps DEF progress
  <2> QED
    BY <1>9, <2>1 DEF progress, feedVars
<1>10. CASE settles(w)
  <2>1. change' \in [Actors -> ChangesOf(R)]
    BY <1>1, <1>10, ChangeKeeps DEF settles
  <2>2. WorkTo(w, "settle", work[w].record)
    BY <1>10 DEF settles
  <2> QED
    BY <1>1, <1>3, <1>10, <2>1, <2>2 DEF settles, feedVars
<1>11. CASE crash(w)
  <2>1. NoChange \in ChangesOf(R) /\ Work("ready", "no", NoRecord) \in WorksOf(R)
        /\ Loop("off", NoRecord) \in LoopsOf(R)
    BY ActorTypes DEF NoChange
  <2>2. <<>> \in Seq(Events(R))
    OBVIOUS
  <2>3. Subscribed \in Subs(R)
    BY <2>2, SubType, EventType DEF Subscribed, Stage
  <2>4. mishaps' \in [lost : Nat, crashed : Nat, closed : Nat]
    BY <1>11, MishapKeeps DEF crash
  <2> QED
    BY <1>1, <1>11, <2>1, <2>3, <2>4 DEF crash
<1> QED
  BY <1>4, <1>5, <1>6, <1>7, <1>8, <1>9, <1>10, <1>11 DEF Executes

(* So does every step: what is in R stays in R, if the row does. *)
LEMMA StepKeeps ==
  ASSUME NEW R, Holding(R), NoRecord \in R, row' \in R, [Next]_vars
  PROVE  Holding(R)'
<1>1. ASSUME NEW a \in Actors, Changes(a)
      PROVE  Holding(R)'
  <2>1. change' \in [Actors -> ChangesOf(R)]
    BY <1>1, ChangeKeeps DEF Changes
  <2>2. CASE readBack(a)
    BY <2>1, <2>2 DEF readBack, feedVars, Holding
  <2>3. CASE publish(a)
    <3>1. change[a].record \in R /\ log \in Seq(R)
      BY ActorFields DEF Holding
    <3>2. log' \in Seq(R)
      BY <3>1, <2>3 DEF publish
    <3>3. mishaps' \in [lost : Nat, crashed : Nat, closed : Nat]
      BY <2>3, MishapKeeps DEF publish, Holding
    <3> QED
      BY <2>1, <2>3, <3>2, <3>3 DEF publish, Holding
  <2> QED
    BY <1>1, <2>2, <2>3 DEF Changes
<1>2. ASSUME NEW c \in Callers, calls(c)
      PROVE  Holding(R)'
  <2>1. c \in Actors /\ \E from, to : Transition(c, from, to)
    BY <1>2 DEF calls, Actors
  <2>2. change' \in [Actors -> ChangesOf(R)]
    BY <2>1, ChangeKeeps
  <2> QED
    BY <1>2, <2>2 DEF calls, feedVars, Holding
<1>3. ASSUME NEW l \in Listeners, Listens(l) \/ rechecks(l)
      PROVE  Holding(R)'
  BY <1>3, ListenKeeps
<1>4. ASSUME NEW l \in Listeners,
             (FeedStep(l) \/ \E seq \in 1 .. Len(log) : Notified(l, seq)) /\ UNCHANGED runVars
      PROVE  Holding(R)'
  BY <1>4, FeedKeeps
<1>5. ASSUME NEW w \in Workers, Executes(w) \/ progress(w) \/ settles(w) \/ crash(w)
      PROVE  Holding(R)'
  BY <1>5, ExecuteKeeps
<1>6. CASE DeadlinePasses
  BY <1>6 DEF DeadlinePasses, feedVars, Holding
<1>7. CASE closeFeed
  <2>1. \A l \in Listeners : Closed(sub[l]) \in Subs(R)
    BY SubSteps DEF Holding
  <2>2. sub' \in [Listeners -> Subs(R)]
    BY <1>7, <2>1 DEF closeFeed, Holding
  <2>3. mishaps' \in [lost : Nat, crashed : Nat, closed : Nat]
    BY <1>7, MishapKeeps DEF closeFeed
  <2> QED
    BY <1>7, <2>2, <2>3 DEF closeFeed, Holding
<1>8. CASE UNCHANGED vars
  BY <1>8 DEF vars, Holding
<1> QED
  BY <1>1, <1>2, <1>3, <1>4, <1>5, <1>6, <1>7, <1>8 DEF Next

-----------------------------------------------------------------------------
(* The theorems.                                                           *)

(* At first there is the record that create() made. *)
LEMMA InitHolds ==
  ASSUME NEW R, Init, NoRecord \in R, row \in R
  PROVE  Holding(R)
<1>1. /\ NoChange \in ChangesOf(R) /\ Change("off", NoRecord) \in ChangesOf(R)
      /\ Loop("ready", NoRecord) \in LoopsOf(R) /\ Loop("off", NoRecord) \in LoopsOf(R)
      /\ Work("ready", "no", NoRecord) \in WorksOf(R)
      /\ Work("none", "no", NoRecord) \in WorksOf(R)
  BY ActorTypes DEF NoChange
<1>2. <<>> \in Seq(Events(R))
  OBVIOUS
<1>3. Subscribed \in Subs(R) /\ NoSub \in Subs(R)
  BY <1>2, SubType, EventType DEF Subscribed, NoSub, Stage
<1>4. PICK cast \in Casts :
        /\ change = [a \in Actors |-> IF a \in Callers \ cast THEN Change("off", NoRecord) ELSE NoChange]
        /\ sub = [l \in Listeners |-> IF l \in cast THEN Subscribed ELSE NoSub]
        /\ loop = [l \in Listeners |-> Loop(IF l \in cast \ Workers THEN "ready" ELSE "off", NoRecord)]
        /\ work = [w \in Workers |-> Work(IF w \in cast THEN "ready" ELSE "none", "no", NoRecord)]
  BY DEF Init
<1>5. change \in [Actors -> ChangesOf(R)] /\ sub \in [Listeners -> Subs(R)]
  BY <1>1, <1>3, <1>4
<1>6. loop \in [Listeners -> LoopsOf(R)] /\ work \in [Workers -> WorksOf(R)]
  BY <1>1, <1>4
<1>7. log = <<row>> /\ deadline \in {"none", "ahead"}
      /\ mishaps = [lost |-> 0, crashed |-> 0, closed |-> 0]
  BY DEF Init
<1> QED
  BY <1>5, <1>6, <1>7 DEF Holding

(* What holds records of R holds records of any larger set. *)
LEMMA Widens ==
  ASSUME NEW R, NEW S, R \subseteq S, Holding(R)
  PROVE  Holding(S)
<1>1. Events(R) \subseteq Events(S)
  BY DEF Events
<1>2. /\ ChangesOf(R) \subseteq ChangesOf(S) /\ LoopsOf(R) \subseteq LoopsOf(S)
      /\ WorksOf(R) \subseteq WorksOf(S)
  BY DEF ChangesOf, LoopsOf, WorksOf
<1>3. Seq(R) \subseteq Seq(S)
  BY SeqMonotonic
<1>4. Subs(R) \subseteq Subs(S)
  <2>1. Seq(Events(R)) \subseteq Seq(Events(S))
    BY <1>1, SeqMonotonic
  <2> QED
    BY <1>1, <2>1 DEF Subs
<1>5. log \in Seq(S) /\ row \in S /\ sub \in [Listeners -> Subs(S)]
  BY <1>3, <1>4 DEF Holding
<1>6. /\ change \in [Actors -> ChangesOf(S)] /\ loop \in [Listeners -> LoopsOf(S)]
      /\ work \in [Workers -> WorksOf(S)]
  BY <1>2 DEF Holding
<1> QED
  BY <1>5, <1>6 DEF Holding

(* The row changes in one way: it is open, and gets a status and the next *)
(* version. *)
LEMMA RowChanges ==
  ASSUME row \in Records, [Next]_vars, row' # row
  PROVE  row.status \in Open /\ row' \in Records
<1>1. ASSUME NEW a, NEW from \in SUBSET Open, NEW to \in Open \union Final, Transition(a, from, to)
      PROVE  row.status \in Open /\ row' \in Records
  <2>1. row.version \in Nat /\ row' = Record(to, row.version + 1) /\ row.status \in from
    BY <1>1 DEF Transition, applies, Records
  <2> QED
    BY <2>1 DEF Record, Records
<1>2. \/ \E c \in Callers : calls(c)
      \/ \E l \in Listeners : expire(l)
      \/ \E w \in Workers : starts(w) \/ progress(w) \/ settles(w)
  <2>1. ASSUME NEW a \in Actors, Changes(a)
        PROVE  row' = row
    BY <2>1 DEF Changes, readBack, publish
  <2>2. ASSUME NEW l \in Listeners, Listens(l) \/ rechecks(l), ~expire(l)
        PROVE  row' = row
    BY <2>2 DEF Listens, Waits, begins, gets, checks, expired, wakes, stopsWatching, reads, hears,
                rechecks
  <2>3. ASSUME NEW w \in Workers, Executes(w) \/ crash(w), ~starts(w)
        PROVE  row' = row
    BY <2>3 DEF Executes, started, progressed, settled, resolves, crash
  <2>4. ~UNCHANGED runVars /\ ~UNCHANGED vars /\ ~DeadlinePasses /\ ~closeFeed
    BY DEF runVars, vars, DeadlinePasses, closeFeed
  <2> QED
    BY <2>1, <2>2, <2>3, <2>4 DEF Next
<1>3. CASE \E c \in Callers : calls(c)
  <2>1. PICK c \in Callers : calls(c)
    BY <1>3
  <2>2. \E from \in SUBSET Open, to \in Open \union Final : Transition(c, from, to)
    BY <2>1, RunsAssumption DEF calls, Open, Final
  <2> QED
    BY <2>2, <1>1
<1>4. CASE \E l \in Listeners : expire(l)
  <2>1. PICK l \in Listeners : expire(l)
    BY <1>4
  <2>2. Transition(Self(l), Open, "timed_out") /\ "timed_out" \in Final
    BY <2>1 DEF expire, Final
  <2> QED
    BY <2>2, <1>1
<1>5. CASE \E w \in Workers : starts(w) \/ progress(w) \/ settles(w)
  <2>1. PICK w \in Workers : starts(w) \/ progress(w) \/ settles(w)
    BY <1>5
  <2>2. \E from \in SUBSET Open, to \in Open \union Final : Transition(w, from, to)
    BY <2>1, RunsAssumption DEF starts, progress, settles, Open, Final
  <2> QED
    BY <2>2, <1>1
<1> QED
  BY <1>2, <1>3, <1>4, <1>5

(* Every variable keeps its type: transition() and publish() of the runs,  *)
(* and the reads of the change feed, only pass on records of the store. *)
THEOREM TypeCorrect == Spec => []TypeOK
<1>1. Init => TypeOK
  <2> SUFFICES ASSUME Init
               PROVE  TypeOK
    OBVIOUS
  <2>1. NoRecord \in Records /\ row \in Records
    BY DEF Init, NoRecord, Record, Records
  <2> QED
    BY <2>1, InitHolds DEF TypeOK
<1>2. TypeOK /\ [Next]_vars => TypeOK'
  <2> SUFFICES ASSUME TypeOK, [Next]_vars
               PROVE  TypeOK'
    OBVIOUS
  <2>1. NoRecord \in Records /\ row \in Records
    BY DEF TypeOK, Holding, NoRecord, Record, Records
  <2>2. row' \in Records
    BY <2>1, RowChanges
  <2>3. Holding(Records)'
    BY <2>1, <2>2, StepKeeps DEF TypeOK
  <2> QED
    BY <2>3 DEF TypeOK
<1> QED
  BY <1>1, <1>2, PTL DEF Spec

(* The records that agree with the row: those of a run that is not final,  *)
(* and the row. *)
Agreeing == {r \in Records : SameEnd(r)}
AllAgree == Holding(Agreeing)

(* A record of an end that is anywhere is the row, and the row of an end   *)
(* stays: the compare-and-set of transition() only changes an open run. *)
THEOREM EndsOnce == Spec => []OneEnd
<1>1. Init => AllAgree
  <2> SUFFICES ASSUME Init
               PROVE  AllAgree
    OBVIOUS
  <2>1. NoRecord \in Agreeing /\ row \in Agreeing
    BY DEF Init, Agreeing, SameEnd, IsFinal, NoRecord, Record, Records, Final
  <2> QED
    BY <2>1, InitHolds DEF AllAgree
<1>2. AllAgree /\ [Next]_vars => AllAgree'
  <2> SUFFICES ASSUME AllAgree, [Next]_vars
               PROVE  AllAgree'
    OBVIOUS
  <2>1. row \in Agreeing /\ row \in Records
    BY DEF AllAgree, Holding, Agreeing
  <2>2. row' \in Records
    BY <2>1, RowChanges
  <2>3. CASE row' = row
    <3>1. Agreeing' = Agreeing /\ NoRecord \in Agreeing /\ row' \in Agreeing
      BY <2>1, <2>3 DEF Agreeing, SameEnd, IsFinal, NoRecord, Record, Records, Final
    <3>2. Holding(Agreeing)'
      BY <3>1, StepKeeps DEF AllAgree
    <3> QED
      BY <3>1, <3>2 DEF AllAgree
  <2>4. CASE row' # row
    <3>1. PICK R : R = Agreeing'
      OBVIOUS
    <3>2. row.status \in Open
      BY <2>1, <2>4, RowChanges
    <3>3. Agreeing \subseteq R
      BY <3>1, <3>2 DEF Agreeing, SameEnd, IsFinal, Open, Final
    <3>4. NoRecord \in R /\ row' \in R
      BY <3>1, <2>2 DEF Agreeing, SameEnd, IsFinal, NoRecord, Record, Records, Final
    <3>5. Holding(R)
      BY <3>3, Widens DEF AllAgree
    <3>6. Holding(R)'
      BY <3>4, <3>5, StepKeeps
    <3> QED
      BY <3>1, <3>6 DEF AllAgree, Holding
  <2> QED
    BY <2>3, <2>4
<1>3. AllAgree => OneEnd
  <2> SUFFICES ASSUME AllAgree
               PROVE  OneEnd
    OBVIOUS
  <2>1. \A r \in Agreeing : SameEnd(r)
    BY DEF Agreeing
  <2>2. /\ \A l \in Listeners : loop[l].record \in Agreeing
        /\ \A w \in Workers : work[w].record \in Agreeing
        /\ \A a \in Actors : change[a].record \in Agreeing
    BY ActorFields DEF AllAgree, Holding
  <2>3. \A s \in 1 .. Len(log) : log[s] \in Agreeing
    BY DEF AllAgree, Holding
  <2> QED
    BY <2>1, <2>2, <2>3 DEF OneEnd
<1> QED
  BY <1>1, <1>2, <1>3, PTL DEF Spec

=============================================================================
