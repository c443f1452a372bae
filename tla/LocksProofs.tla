---------------------------- MODULE LocksProofs ----------------------------
(***************************************************************************)
(* A holder whose own deadline has not passed has the lock, tokens are     *)
(* given once, and fenced writes commit in their order: for any number of  *)
(* acquisitions, any lease, either store, and however late or lost the     *)
(* answers of the store.                                                   *)
(***************************************************************************)
EXTENDS Locks, TLAPS

(* What a call is, once built, ... *)
LEMMA AskType ==
  ASSUME NEW o \in Owners, NEW op \in {"acquire", "extend", "release"}, NEW t \in Nat,
         NEW l \in 1 .. Ttl, NEW a \in Nat, NEW s \in {"nothing", "yes", "no"}
  PROVE  Ask(o, op, t, l, a, s) \in Asks
BY DEF Ask, Asks

(* ... a hold, ... *)
LEMMA HoldType ==
  ASSUME NEW s \in Stages, NEW t \in Nat, NEW n \in Nat
  PROVE  Hold(s, t, n) \in Holds
BY DEF Hold, Holds

(* ... and a row. *)
LEMMA RowType ==
  ASSUME NEW o \in Owners \union {Nobody}, NEW t \in Nat, NEW n \in Nat
  PROVE  Row(o, t, n) \in Rows
BY DEF Row, Rows

(* Holds and rows have the fields that their types say. *)
LEMMA Fields ==
  ASSUME TypeOK
  PROVE  /\ row.owner \in Owners \union {Nobody} /\ row.token \in Nat /\ row.lease \in Nat
         /\ row = Row(row.owner, row.token, row.lease)
         /\ \A o \in Owners : /\ hold[o] \in Holds /\ hold[o].stage \in Stages
                              /\ hold[o].token \in Nat /\ hold[o].left \in Nat
         /\ \A r \in asks : /\ r \in Asks /\ r.owner \in Owners
                            /\ r.op \in {"acquire", "extend", "release"}
                            /\ r.token \in Nat /\ r.ttl \in 1 .. Ttl /\ r.age \in Nat
                            /\ r.said \in {"nothing", "yes", "no"}
         /\ \A f \in fences : f.owner \in Owners /\ f.token \in Nat
BY DEF TypeOK, Row, Rows, Holds, Asks

(* What is left of a lease is no more than the lease, and a moment later it *)
(* is one less. *)
LEMMA LeftBounds ==
  ASSUME NEW r \in Asks
  PROVE  Left(r) \in Nat /\ Left(r) <= r.ttl
BY LockAssumption DEF Left, Asks

-----------------------------------------------------------------------------
(* Types.                                                                  *)

(* A free lock and idle holds are of their types, ... *)
LEMMA TypeInit == Init => TypeOK
<1> SUFFICES ASSUME Init PROVE TypeOK
  OBVIOUS
<1>1. row \in Rows
  BY RowType DEF Init
<1>2. hold \in [Owners -> Holds]
  BY HoldType DEF Init, Stages
<1> QED
  BY <1>1, <1>2 DEF Init, TypeOK

(* ... and no call, statement, answer or timer leaves them. *)
LEMMA TypeStep == TypeOK /\ [Next]_vars => TypeOK'
<1> SUFFICES ASSUME TypeOK, [Next]_vars PROVE TypeOK'
  OBVIOUS
<1> USE LockAssumption, Fields
<1>0. /\ store \in Stores /\ row \in Rows /\ hold \in [Owners -> Holds]
      /\ asks \subseteq Asks /\ fences \subseteq [owner : Owners, token : Nat]
      /\ written \in Nat /\ losses \in Nat /\ Ttl \in 1 .. Ttl
  BY DEF TypeOK
<1>1. ASSUME NEW o \in Owners, acquire(o) PROVE TypeOK'
  <2>1. Ask(o, "acquire", 0, Ttl, 0, "nothing") \in Asks
    BY <1>0, AskType
  <2>2. Hold("asking", 0, 0) \in Holds
    BY HoldType DEF Stages
  <2> QED
    BY <1>0, <1>1, <2>1, <2>2 DEF acquire, Calls, TypeOK
<1>2. ASSUME NEW o \in Owners, release(o) PROVE TypeOK'
  <2>1. Ask(o, "release", hold[o].token, Ttl, 0, "nothing") \in Asks
    BY <1>0, AskType
  <2>2. Hold("freed", hold[o].token, 0) \in Holds
    BY HoldType DEF Stages
  <2> QED
    BY <1>0, <1>2, <2>1, <2>2 DEF release, Calls, TypeOK
<1>L. ASSUME NEW o \in Owners, Lost(o) PROVE hold' \in [Owners -> Holds]
  <2>1. Hold("lost", hold[o].token, 0) \in Holds
    BY HoldType DEF Stages
  <2> QED
    BY <1>0, <1>L, <2>1 DEF Lost
<1>3. ASSUME NEW o \in Owners, expire(o) PROVE TypeOK'
  BY <1>0, <1>3, <1>L DEF expire, TypeOK
<1>4. ASSUME NEW o \in Owners, openFence(o) PROVE TypeOK'
  BY <1>0, <1>4, <1>L DEF openFence, Fence, TypeOK
<1>5. ASSUME NEW o \in Owners, NEW ttl \in Ttls, extend(o, ttl) PROVE TypeOK'
  <2>1. Ask(o, "extend", hold[o].token, ttl, 0, "nothing") \in Asks
    BY <1>0, AskType
  <2> QED
    BY <1>0, <1>5, <2>1 DEF extend, Calls, TypeOK
<1>S. ASSUME NEW r \in asks, NEW t \in Nat, NEW s \in {"yes", "no"}, Says(r, t, s)
      PROVE  asks' \subseteq Asks
  <2>1. Ask(r.owner, r.op, t, r.ttl, IF s = "yes" THEN r.age ELSE 0, s) \in Asks
    BY <1>0, AskType
  <2> QED
    BY <1>0, <1>S, <2>1 DEF Says
<1>6. ASSUME NEW r \in asks, storeAcquire(r) PROVE TypeOK'
  <2>1. Row(r.owner, row.token + 1, Ttl) \in Rows
    BY <1>0, RowType
  <2>2. row' \in Rows
    BY <1>0, <1>6, <2>1 DEF storeAcquire
  <2>3. asks' \subseteq Asks
    BY <1>0, <1>6, <1>S DEF storeAcquire
  <2> QED
    BY <1>0, <1>6, <2>2, <2>3 DEF storeAcquire, TypeOK
<1>7. ASSUME NEW r \in asks, storeExtend(r) PROVE TypeOK'
  <2>1. Row(row.owner, row.token, r.ttl) \in Rows
    BY <1>0, RowType
  <2>2. row' \in Rows
    BY <1>0, <1>7, <2>1 DEF storeExtend
  <2>3. asks' \subseteq Asks
    BY <1>0, <1>7, <1>S DEF storeExtend
  <2> QED
    BY <1>0, <1>7, <2>2, <2>3 DEF storeExtend, TypeOK
<1>8. ASSUME NEW r \in asks, storeRelease(r) PROVE TypeOK'
  <2>1. Row(Nobody, row.token, 0) \in Rows
    BY <1>0, RowType
  <2> QED
    BY <1>0, <1>8, <2>1 DEF storeRelease, freedRow, TypeOK
<1>9. ASSUME NEW r \in asks, acquired(r) PROVE TypeOK'
  <2>1. Hold("held", r.token, Left(r)) \in Holds /\ Hold("idle", 0, 0) \in Holds
    BY <1>0, HoldType, LeftBounds DEF Stages
  <2> QED
    BY <1>0, <1>9, <2>1 DEF acquired, Answered, TypeOK
<1>10. ASSUME NEW r \in asks, extended(r) PROVE TypeOK'
  <2> DEFINE n == IF Left(r) > hold[r.owner].left THEN Left(r) ELSE hold[r.owner].left
  <2>1. Hold("held", hold[r.owner].token, n) \in Holds
    BY <1>0, HoldType, LeftBounds DEF Stages
  <2>2. hold' \in [Owners -> Holds]
    BY <1>0, <1>10, <1>L, <2>1 DEF extended
  <2> QED
    BY <1>0, <1>10, <2>2 DEF extended, Answered, TypeOK
<1>11. ASSUME NEW r \in asks, reject(r) PROVE TypeOK'
  <2>1. Hold("freed", 0, 0) \in Holds
    BY HoldType DEF Stages
  <2> QED
    BY <1>0, <1>11, <2>1 DEF reject, Answered, TypeOK
<1>12. ASSUME NEW f \in fences, commitFence(f) PROVE TypeOK'
  BY <1>0, <1>12 DEF commitFence, TypeOK
<1>13. CASE Tick
  <2>1. Row(row.owner, row.token, Lower(row.lease)) \in Rows
    BY RowType DEF Lower
  <2>2. \A o \in Owners : Hold(hold[o].stage, hold[o].token, Lower(hold[o].left)) \in Holds
    BY HoldType DEF Lower
  <2>3. \A r \in asks : Ask(r.owner, r.op, r.token, r.ttl, Older(r), r.said) \in Asks
    <3>1. \A r \in asks : Older(r) \in Nat
      BY DEF Older
    <3> QED
      BY <3>1, AskType
  <2> QED
    BY <1>0, <1>13, <2>1, <2>2, <2>3 DEF Tick, TypeOK
<1>14. CASE UNCHANGED vars
  BY <1>0, <1>14 DEF vars, TypeOK
<1> QED
  BY <1>1, <1>2, <1>3, <1>4, <1>5, <1>6, <1>7, <1>8, <1>9, <1>10, <1>11, <1>12, <1>13, <1>14
  DEF Next

(* The lock's row, the holds, and the calls between them stay within their *)
(* types. *)
THEOREM TypeCorrect == Spec => []TypeOK
<1> QED
  BY TypeInit, TypeStep, PTL DEF Spec

-----------------------------------------------------------------------------
(* Fences.                                                                 *)

(* The fenced sections that are open are of the newest token, and nothing  *)
(* was written under a later one. *)
FencesCurrent ==
  /\ \A f \in fences : f.token = row.token
  /\ written <= row.token

(* While a section is open the token does not change, so each commit is of  *)
(* the newest token there is. *)
LEMMA FencesStep == TypeOK /\ FencesCurrent /\ [Next]_vars => FencesCurrent' /\ written' >= written
<1> SUFFICES ASSUME TypeOK, FencesCurrent, [Next]_vars
             PROVE  FencesCurrent' /\ written' >= written
  OBVIOUS
<1> USE Fields
<1>0. written \in Nat
  BY DEF TypeOK
<1>1. ASSUME NEW r \in asks, storeAcquire(r) PROVE FencesCurrent' /\ written' >= written
  BY <1>0, <1>1 DEF storeAcquire, free, Row, FencesCurrent
<1>2. ASSUME NEW r \in asks, storeExtend(r) PROVE FencesCurrent' /\ written' >= written
  BY <1>0, <1>2 DEF storeExtend, Row, FencesCurrent
<1>3. ASSUME NEW r \in asks, storeRelease(r) PROVE FencesCurrent' /\ written' >= written
  BY <1>0, <1>3 DEF storeRelease, freedRow, Row, FencesCurrent
<1>4. ASSUME NEW o \in Owners, openFence(o) PROVE FencesCurrent' /\ written' >= written
  BY <1>0, <1>4 DEF openFence, current, Fence, FencesCurrent
<1>5. ASSUME NEW f \in fences, commitFence(f) PROVE FencesCurrent' /\ written' >= written
  BY <1>0, <1>5 DEF commitFence, FencesCurrent
<1>6. CASE Tick
  BY <1>0, <1>6 DEF Tick, Row, FencesCurrent
<1>7. CASE UNCHANGED <<row, fences, written>>
  BY <1>0, <1>7 DEF FencesCurrent
<1> QED
  BY <1>1, <1>2, <1>3, <1>4, <1>5, <1>6, <1>7
  DEF Next, vars, acquire, release, expire, extend, acquired, extended, reject

(* Nothing an older holder writes under a fence commits after a newer      *)
(* one's write: LockStore.fence, in both stores. *)
THEOREM FencesInOrder == Spec => FencedInOrder
<1>1. Init => FencesCurrent
  BY DEF Init, FencesCurrent, Row
<1>2. TypeOK /\ FencesCurrent /\ [Next]_vars => [written' >= written]_vars
  BY FencesStep
<1> QED
  BY TypeInit, TypeStep, FencesStep, <1>1, <1>2, PTL DEF Spec, FencedInOrder

-----------------------------------------------------------------------------
(* Whose call it is.                                                       *)

(* An acquisition has one call on its way until it has its answer; a       *)
(* renewal carries the token of the hold it is for; only a hold that was   *)
(* given up is released. *)
AsksOwned ==
  /\ \A r \in asks : r.op = "acquire" => hold[r.owner].stage = "asking"
  /\ \A r, q \in asks : r.op = "acquire" /\ q.op = "acquire" /\ r.owner = q.owner => r = q
  /\ \A r \in asks : r.op = "extend" =>
        hold[r.owner].stage \in {"held", "lost", "freed"} /\ r.token = hold[r.owner].token
  /\ \A r \in asks : r.op = "release" => hold[r.owner].stage \in {"lost", "freed"}

(* No step sends a second acquire of an owner, or a call for another's hold. *)
LEMMA AsksOwnedStep == TypeOK /\ AsksOwned /\ [Next]_vars => AsksOwned'
<1> SUFFICES ASSUME TypeOK, AsksOwned, [Next]_vars PROVE AsksOwned'
  OBVIOUS
<1> USE Fields
<1>0. hold \in [Owners -> Holds]
  BY DEF TypeOK
<1>1. ASSUME NEW o \in Owners, acquire(o) PROVE AsksOwned'
  BY <1>0, <1>1 DEF acquire, Calls, Ask, Hold, AsksOwned
<1>2. ASSUME NEW o \in Owners, release(o) PROVE AsksOwned'
  BY <1>0, <1>2 DEF release, Calls, Ask, Hold, AsksOwned
<1>3. ASSUME NEW o \in Owners, Lost(o), UNCHANGED asks, hold[o].stage \in {"held", "freed"}
      PROVE  AsksOwned'
  BY <1>0, <1>3 DEF Lost, Hold, AsksOwned
<1>4. ASSUME NEW o \in Owners, expire(o) PROVE AsksOwned'
  BY <1>3, <1>4 DEF expire
<1>5. ASSUME NEW o \in Owners, openFence(o) PROVE AsksOwned'
  BY <1>3, <1>5 DEF openFence, AsksOwned
<1>6. ASSUME NEW o \in Owners, NEW ttl \in Ttls, extend(o, ttl) PROVE AsksOwned'
  BY <1>0, <1>6 DEF extend, Calls, Ask, AsksOwned
<1>7. ASSUME NEW r \in asks, storeAcquire(r) PROVE AsksOwned'
  BY <1>0, <1>7 DEF storeAcquire, Says, Ask, AsksOwned
<1>8. ASSUME NEW r \in asks, storeExtend(r) PROVE AsksOwned'
  BY <1>0, <1>8 DEF storeExtend, Says, Ask, AsksOwned
<1>9. ASSUME NEW r \in asks, storeRelease(r) PROVE AsksOwned'
  BY <1>0, <1>9 DEF storeRelease, AsksOwned
<1>10. ASSUME NEW r \in asks, acquired(r) PROVE AsksOwned'
  BY <1>0, <1>10 DEF acquired, Answered, Hold, AsksOwned
<1>11. ASSUME NEW r \in asks, extended(r) PROVE AsksOwned'
  BY <1>0, <1>11 DEF extended, Answered, Lost, Hold, AsksOwned
<1>12. ASSUME NEW r \in asks, reject(r) PROVE AsksOwned'
  BY <1>0, <1>12 DEF reject, Answered, Hold, AsksOwned
<1>13. CASE Tick
  BY <1>0, <1>13 DEF Tick, Ask, Hold, AsksOwned
<1>14. CASE UNCHANGED <<hold, asks>>
  BY <1>14 DEF AsksOwned
<1> QED
  BY <1>1, <1>2, <1>4, <1>5, <1>6, <1>7, <1>8, <1>9, <1>10, <1>11, <1>12, <1>13, <1>14
  DEF Next, vars, commitFence

-----------------------------------------------------------------------------
(* Tokens.                                                                 *)

(* An acquisition was granted, and is not told yet. *)
Granted(r) == r.op = "acquire" /\ r.said = "yes"

(* The store gives a token once, to one owner: the newest is the row's, and *)
(* one on its way to its holder is nobody else's. *)
TokensGiven ==
  /\ \A o \in Owners : hold[o].token <= row.token
  /\ \A r \in asks : Granted(r) =>
        r.token > 0 /\ r.token <= row.token /\ \A o \in Owners : hold[o].token # r.token
  /\ \A r, q \in asks : Granted(r) /\ Granted(q) /\ r.token = q.token => r = q
  /\ TokensNameHolds

(* A step hands a token on, or makes one larger than all before it. *)
LEMMA TokensStep == TypeOK /\ TokensGiven /\ [Next]_vars => TokensGiven'
<1> SUFFICES ASSUME TypeOK, TokensGiven, [Next]_vars PROVE TokensGiven'
  OBVIOUS
<1> USE Fields DEF Granted, TokensGiven, TokensNameHolds
<1>0. hold \in [Owners -> Holds]
  BY DEF TypeOK
<1>1. ASSUME NEW o \in Owners, acquire(o) PROVE TokensGiven'
  BY <1>0, <1>1 DEF acquire, Calls, Ask, Hold
<1>2. ASSUME NEW o \in Owners, release(o) PROVE TokensGiven'
  BY <1>0, <1>2 DEF release, Calls, Ask, Hold
<1>3. ASSUME NEW o \in Owners, expire(o) PROVE TokensGiven'
  BY <1>0, <1>3 DEF expire, Lost, Hold
<1>4. ASSUME NEW o \in Owners, openFence(o) PROVE TokensGiven'
  BY <1>0, <1>4 DEF openFence, Lost, Hold
<1>5. ASSUME NEW o \in Owners, NEW ttl \in Ttls, extend(o, ttl) PROVE TokensGiven'
  BY <1>0, <1>5 DEF extend, Calls, Ask
<1>6. ASSUME NEW r \in asks, storeAcquire(r) PROVE TokensGiven'
  BY <1>0, <1>6 DEF storeAcquire, Says, Ask, Row
<1>7. ASSUME NEW r \in asks, storeExtend(r) PROVE TokensGiven'
  BY <1>0, <1>7 DEF storeExtend, Says, Ask, Row
<1>8. ASSUME NEW r \in asks, storeRelease(r) PROVE TokensGiven'
  BY <1>0, <1>8 DEF storeRelease, freedRow, Row
<1>9. ASSUME NEW r \in asks, acquired(r) PROVE TokensGiven'
  BY <1>0, <1>9 DEF acquired, Answered, Hold
<1>10. ASSUME NEW r \in asks, extended(r) PROVE TokensGiven'
  BY <1>0, <1>10 DEF extended, Answered, Lost, Hold
<1>11. ASSUME NEW r \in asks, reject(r) PROVE TokensGiven'
  BY <1>0, <1>11 DEF reject, Answered, Hold
<1>12. CASE Tick
  BY <1>0, <1>12 DEF Tick, Ask, Hold, Row
<1>13. CASE UNCHANGED <<row, hold, asks>>
  BY <1>13
<1> QED
  BY <1>1, <1>2, <1>3, <1>4, <1>5, <1>6, <1>7, <1>8, <1>9, <1>10, <1>11, <1>12, <1>13
  DEF Next, vars, commitFence

(* A fencing token is one holder's for good: LockStore.acquire. *)
THEOREM TokensUnique == Spec => []TokensNameHolds
<1>1. Init => TokensGiven
  BY DEF Init, TokensGiven, TokensNameHolds, Hold, Row
<1>2. TokensGiven => TokensNameHolds
  BY DEF TokensGiven
<1> QED
  BY TypeInit, TypeStep, TokensStep, <1>1, <1>2, PTL DEF Spec

-----------------------------------------------------------------------------
(* Beliefs.                                                                *)

(* An answer that would give a hold some time. *)
GoodNews(r) ==
  /\ r.said = "yes" /\ Left(r) > 0
  /\ r.op = "acquire" \/ (r.op = "extend" /\ hold[r.owner].stage = "held")

(* What a holder counts down, and what it is yet to be told of, is no more  *)
(* than what the store counts down for it. *)
BeliefsCovered ==
  /\ row.lease <= Ttl
  /\ \A r \in asks : r.op = "extend" => r.ttl = Ttl
  /\ \A r \in asks : GoodNews(r) =>
        row.owner = r.owner /\ row.token = r.token /\ Left(r) <= row.lease
  /\ BeliefIsReal

(* While renewals ask for no less than the lease, no step takes from the    *)
(* store what a holder still counts on. *)
LEMMA BeliefsStep ==
  ASSUME Ttls = {Ttl}
  PROVE  TypeOK /\ AsksOwned /\ BeliefsCovered /\ [Next]_vars => BeliefsCovered'
<1> SUFFICES ASSUME TypeOK, AsksOwned, BeliefsCovered, [Next]_vars PROVE BeliefsCovered'
  OBVIOUS
<1> USE LockAssumption, Fields DEF GoodNews, BeliefsCovered, BeliefIsReal, Believes, Has
<1>0. hold \in [Owners -> Holds]
  BY DEF TypeOK
<1>1. ASSUME NEW o \in Owners, acquire(o) PROVE BeliefsCovered'
  BY <1>0, <1>1 DEF acquire, Calls, Ask, Hold, Left
<1>2. ASSUME NEW o \in Owners, release(o) PROVE BeliefsCovered'
  BY <1>0, <1>2 DEF release, Calls, Ask, Hold, Left
<1>3. ASSUME NEW o \in Owners, expire(o) PROVE BeliefsCovered'
  BY <1>0, <1>3 DEF expire, Lost, Hold, Left
<1>4. ASSUME NEW o \in Owners, openFence(o) PROVE BeliefsCovered'
  BY <1>0, <1>4 DEF openFence, Lost, Hold, Left
<1>5. ASSUME NEW o \in Owners, NEW ttl \in Ttls, extend(o, ttl) PROVE BeliefsCovered'
  BY <1>0, <1>5 DEF extend, Calls, Ask, Left
<1>6. ASSUME NEW r \in asks, storeAcquire(r) PROVE BeliefsCovered'
  BY <1>0, <1>6 DEF storeAcquire, Says, Ask, Row, Left, free
<1>7. ASSUME NEW r \in asks, storeExtend(r) PROVE BeliefsCovered'
  BY <1>0, <1>7 DEF storeExtend, Says, Ask, Row, Left, current
<1>8. ASSUME NEW r \in asks, storeRelease(r) PROVE BeliefsCovered'
  BY <1>0, <1>8 DEF storeRelease, freedRow, Row, Left, current, AsksOwned
<1>9. ASSUME NEW r \in asks, acquired(r) PROVE BeliefsCovered'
  BY <1>0, <1>9 DEF acquired, Answered, Hold, Left, AsksOwned
<1>10. ASSUME NEW r \in asks, extended(r) PROVE BeliefsCovered'
  BY <1>0, <1>10 DEF extended, Answered, Lost, Hold, Left, AsksOwned
<1>11. ASSUME NEW r \in asks, reject(r) PROVE BeliefsCovered'
  BY <1>0, <1>11 DEF reject, Answered, Hold, Left
<1>12. CASE Tick
  BY <1>0, <1>12 DEF Tick, Ask, Hold, Row, Left, Lower, Older
<1>13. CASE UNCHANGED <<row, hold, asks>>
  BY <1>13 DEF Left
<1> QED
  BY <1>1, <1>2, <1>3, <1>4, <1>5, <1>6, <1>7, <1>8, <1>9, <1>10, <1>11, <1>12, <1>13
  DEF Next, vars, commitFence

(* A holder whose local deadline has not passed has the lock, as long as    *)
(* renewals ask for the whole lease, as the timer's do: HeldLock.expired. *)
THEOREM BeliefsReal ==
  ASSUME Ttls = {Ttl}
  PROVE  Spec => []BeliefIsReal
<1>1. Init => AsksOwned /\ BeliefsCovered
  BY LockAssumption
  DEF Init, AsksOwned, BeliefsCovered, GoodNews, BeliefIsReal, Believes, Has, Hold, Row
<1>2. BeliefsCovered => BeliefIsReal
  BY DEF BeliefsCovered
<1> QED
  BY TypeInit, TypeStep, AsksOwnedStep, BeliefsStep, <1>1, <1>2, PTL DEF Spec

=============================================================================
