-------------------------------- MODULE Locks --------------------------------
(***************************************************************************)
(* One named lock: its row in the LockStore, and the HeldLocks of the      *)
(* processes that take it.  A call of the store is a request, the          *)
(* statement, and an answer, each at a moment of its own, so a holder      *)
(* learns late how long its lease is, or that it is gone.  HeldLock        *)
(* therefore counts from before the request.                               *)
(*                                                                         *)
(* Moments are relative to now, and none is told apart once it has passed. *)
(***************************************************************************)
EXTENDS Integers, FiniteSets

CONSTANTS
  Owners,      \* the acquisitions: each has an owner id of its own
  Nobody,      \* the owner of a free lock
  Ttl,         \* the lease, in ticks
  Ttls,        \* the leases a renewal asks for: by the timer always Ttl
  Stores,      \* "database" and "memory"
  MaxAsks,     \* bound: renewals on their way
  MaxLost      \* bound: requests and answers that are lost

ASSUME LockAssumption ==
  /\ Nobody \notin Owners
  /\ Ttl \in Nat \ {0}
  /\ Ttls \subseteq 1 .. Ttl
  /\ Stores \subseteq {"database", "memory"}
  /\ MaxAsks \in Nat /\ MaxLost \in Nat

VARIABLES
  store,     \* which store it is: never changes
  row,       \* the lock's row
  hold,      \* hold[o]: the HeldLock of the acquisition o
  asks,      \* the calls of the store that are on their way
  fences,    \* the fenced sections that are open: each one's owner, and token
  written,   \* history: the token of the last fenced write committed
  losses     \* how much of the bound is used

vars == <<store, row, hold, asks, fences, written, losses>>

Row(owner, token, lease) == [owner |-> owner, token |-> token, lease |-> lease]
Hold(stage, token, left) == [stage |-> stage, token |-> token, left |-> left]
Fence(owner, token) == [owner |-> owner, token |-> token]

(* age: how long ago the call was made, as long as anyone will read it. *)
Ask(o, op, token, ttl, age, said) ==
  [owner |-> o, op |-> op, token |-> token, ttl |-> ttl, age |-> age, said |-> said]

Stages == {"idle", "asking", "held", "lost", "freed"}
Rows == [owner : Owners \union {Nobody}, token : Nat, lease : Nat]
Holds == [stage : Stages, token : Nat, left : Nat]
Asks == [owner : Owners, op : {"acquire", "extend", "release"}, token : Nat,
         ttl : 1 .. Ttl, age : Nat, said : {"nothing", "yes", "no"}]

TypeOK ==
  /\ store \in Stores
  /\ row \in Rows
  /\ hold \in [Owners -> Holds]
  /\ asks \subseteq Asks
  /\ fences \subseteq [owner : Owners, token : Nat]
  /\ written \in Nat /\ losses \in Nat

Init ==
  /\ store \in Stores
  /\ row = Row(Nobody, 0, 0)
  /\ hold = [o \in Owners |-> Hold("idle", 0, 0)]
  /\ asks = {}
  /\ fences = {}
  /\ written = 0 /\ losses = 0

-----------------------------------------------------------------------------
(* The holder's side: what HeldLock and LockManager ask for.               *)

Calls(r) == asks' = asks \union {r}

acquire(o) ==
  /\ hold[o].stage = "idle"
  /\ hold' = [hold EXCEPT ![o] = Hold("asking", 0, 0)]
  /\ Calls(Ask(o, "acquire", 0, Ttl, 0, "nothing"))
  /\ UNCHANGED <<store, row, fences, written, losses>>

(* By the timer, which may be late, or by the caller. *)
extend(o, ttl) ==
  /\ hold[o].stage = "held"
  /\ Cardinality({r \in asks : r.op = "extend"}) < MaxAsks
  /\ Calls(Ask(o, "extend", hold[o].token, ttl, 0, "nothing"))
  /\ UNCHANGED <<store, row, hold, fences, written, losses>>

release(o) ==
  /\ hold[o].stage = "held"
  /\ hold' = [hold EXCEPT ![o] = Hold("freed", @.token, 0)]
  /\ Calls(Ask(o, "release", hold[o].token, Ttl, 0, "nothing"))
  /\ UNCHANGED <<store, row, fences, written, losses>>

Lost(o) == hold' = [hold EXCEPT ![o] = Hold("lost", @.token, 0)]

(* The expiry timer, or what run() finds when its function has ended. *)
expire(o) ==
  /\ hold[o].stage = "held" /\ hold[o].left = 0
  /\ Lost(o)
  /\ UNCHANGED <<store, row, asks, fences, written, losses>>

-----------------------------------------------------------------------------
(* The store's side.                                                       *)

(* Variant: a call does not ask whose the lease is. *)
currentLease(o, token) == row.lease > 0

current(o, token) == row.owner = o /\ row.token = token /\ row.lease > 0

(* Variant: a lapsed lock is taken from under a fenced section. *)
freeWhenLapsed == row.lease = 0

free == row.lease = 0 /\ fences = {}

(* Variant: a released lock starts over. *)
freedRowForgotten == Row(Nobody, 0, 0)

freedRow == Row(Nobody, row.token, 0)

(* A statement that would change the row waits for the fence's commit. *)
Waits == store = "database" /\ fences # {}

Says(r, token, said) ==
  asks' = (asks \ {r}) \union
            {Ask(r.owner, r.op, token, r.ttl, IF said = "yes" THEN r.age ELSE 0, said)}

storeAcquire(r) ==
  /\ r \in asks /\ r.op = "acquire" /\ r.said = "nothing"
  /\ Waits => row.lease > 0
  /\ IF free
     THEN /\ row' = Row(r.owner, row.token + 1, Ttl)
          /\ Says(r, row.token + 1, "yes")
     ELSE /\ Says(r, 0, "no")
          /\ UNCHANGED row
  /\ UNCHANGED <<store, hold, fences, written, losses>>

storeExtend(r) ==
  /\ r \in asks /\ r.op = "extend" /\ r.said = "nothing"
  /\ Waits => ~current(r.owner, r.token)
  /\ IF current(r.owner, r.token)
     THEN /\ row' = Row(row.owner, row.token, r.ttl)
          /\ Says(r, r.token, "yes")
     ELSE /\ Says(r, r.token, "no")
          /\ UNCHANGED row
  /\ UNCHANGED <<store, hold, fences, written, losses>>

storeRelease(r) ==
  /\ r \in asks /\ r.op = "release" /\ r.said = "nothing"
  /\ Waits => ~current(r.owner, r.token)
  /\ row' = IF current(r.owner, r.token) THEN freedRow ELSE row
  /\ asks' = asks \ {r}
  /\ UNCHANGED <<store, hold, fences, written, losses>>

(* fence(): in a database, a transaction that holds the row. *)
openFence(o) ==
  /\ hold[o].stage \in {"held", "freed"} /\ hold[o].token > 0
  /\ ~Waits /\ \A f \in fences : f.owner # o
  /\ IF current(o, hold[o].token)
     THEN /\ fences' = fences \union {Fence(o, hold[o].token)}
          /\ UNCHANGED hold
     ELSE /\ Lost(o)
          /\ UNCHANGED fences
  /\ UNCHANGED <<store, row, asks, written, losses>>

commitFence(f) ==
  /\ fences' = fences \ {f}
  /\ written' = f.token
  /\ UNCHANGED <<store, row, hold, asks, losses>>

-----------------------------------------------------------------------------
(* The answers.                                                            *)

(* Variant: the lease is counted from the answer. *)
LeftFromAnswer(r) == r.ttl

(* What is left of the lease, counted from the request. *)
Left(r) == IF r.ttl > r.age THEN r.ttl - r.age ELSE 0

Answered(r) == r \in asks /\ asks' = asks \ {r}

acquired(r) ==
  /\ Answered(r) /\ r.op = "acquire" /\ r.said # "nothing"
  /\ hold' = [hold EXCEPT ![r.owner] =
                IF r.said = "yes" THEN Hold("held", r.token, Left(r)) ELSE Hold("idle", 0, 0)]
  /\ UNCHANGED <<store, row, fences, written, losses>>

extended(r) ==
  /\ Answered(r) /\ r.op = "extend" /\ r.said # "nothing"
  /\ IF hold[r.owner].stage # "held" THEN UNCHANGED hold
     ELSE IF r.said = "no" THEN Lost(r.owner)
     ELSE hold' = [hold EXCEPT ![r.owner] =
                     Hold("held", @.token, IF Left(r) > @.left THEN Left(r) ELSE @.left)]
  /\ UNCHANGED <<store, row, fences, written, losses>>

(* A call rejects: before its statement, or after.  A renewal leaves it at *)
(* that; an acquisition is given up. *)
reject(r) ==
  /\ losses < MaxLost
  /\ Answered(r)
  /\ losses' = losses + 1
  /\ hold' = IF r.op = "acquire"
             THEN [hold EXCEPT ![r.owner] = Hold("freed", 0, 0)] ELSE hold
  /\ UNCHANGED <<store, row, fences, written>>

-----------------------------------------------------------------------------

Lower(n) == IF n > 0 THEN n - 1 ELSE 0
Older(r) == IF r.op # "release" /\ r.said # "no" /\ r.age < Ttl THEN r.age + 1 ELSE r.age

Tick ==
  /\ row' = Row(row.owner, row.token, Lower(row.lease))
  /\ hold' = [o \in Owners |-> Hold(hold[o].stage, hold[o].token, Lower(hold[o].left))]
  /\ asks' = {Ask(r.owner, r.op, r.token, r.ttl, Older(r), r.said) : r \in asks}
  /\ UNCHANGED <<store, fences, written, losses>>

Next ==
  \/ \E o \in Owners : acquire(o) \/ release(o) \/ expire(o) \/ openFence(o)
  \/ \E o \in Owners, ttl \in Ttls : extend(o, ttl)
  \/ \E r \in asks :
       \/ storeAcquire(r) \/ storeExtend(r) \/ storeRelease(r)
       \/ acquired(r) \/ extended(r) \/ reject(r)
  \/ \E f \in fences : commitFence(f)
  \/ Tick

Spec == Init /\ [][Next]_vars

(* Time passes, and timers fire. *)
FairSpec == Spec /\ WF_vars(Tick) /\ \A o \in Owners : WF_vars(expire(o))

-----------------------------------------------------------------------------
(* Properties.                                                             *)

Has(o) == row.owner = o /\ row.token = hold[o].token /\ row.lease > 0

Believes(o) == hold[o].stage = "held" /\ hold[o].left > 0

(* A holder whose own deadline has not passed has the lock: it knows of a  *)
(* loss before the store could give the lock to anyone else.  So at most   *)
(* one holder believes it has it. *)
BeliefIsReal ==
  \A o \in Owners : Believes(o) => Has(o) /\ hold[o].left <= row.lease

(* A token is one holder's, however late it learns of it. *)
TokensNameHolds ==
  \A o, p \in Owners : hold[o].token = hold[p].token /\ hold[o].token > 0 => o = p

(* Fenced writes commit in the order of their tokens: nothing an older     *)
(* holder does comes after a newer one's write. *)
FencedInOrder == [][written' >= written]_vars

(* A holder whose lock is gone is told, even when its renewals are still   *)
(* on their way. *)
LossIsNoticed ==
  \A o \in Owners :
    hold[o].stage = "held" /\ ~Has(o) ~> hold[o].stage # "held"

=============================================================================
