------------------------------ MODULE ChangeFeed ------------------------------
(***************************************************************************)
(* One channel of a change feed: its log, and the subscriptions that       *)
(* follow it from the head they found.  What a subscription delivers it    *)
(* reads from the log; that the log moved it is told by notifications,     *)
(* which come late, twice or never, and by the poll of the heads.          *)
(*                                                                         *)
(* Who publishes, and who calls next(), is up to the module that EXTENDS   *)
(* this one.  A read of the database driver is two queries, and so two     *)
(* steps; the memory driver's is the same with nothing in between.         *)
(***************************************************************************)
EXTENDS Integers, Sequences

CONSTANTS
  Listeners,      \* subscriptions to the channel
  Retain,         \* how many entries the log keeps
  BatchSize       \* how many a read returns at most

ASSUME FeedAssumption == Retain \in Nat \ {0} /\ BatchSize \in Nat \ {0}

VARIABLES
  log,      \* what was published: the entry with seq s is log[s], kept or not
  sub       \* sub[l]: the subscription of l

feedVars == <<log, sub>>

Event(type, data) == [type |-> type, data |-> data]
Nothing == Event("none", 0)

(* stage: where it is with its position and its reads; readTo: what was    *)
(* read from the log; dirty: the channel may have moved since; head: what  *)
(* the first query of a read found; next: a call of next(), with the event *)
(* it resolved to. *)
Sub(stage, readTo, dirty, pending, head, next, event) ==
  [stage |-> stage, readTo |-> readTo, dirty |-> dirty, pending |-> pending,
   head |-> head, next |-> next, event |-> event]

NoSub == Sub("none", 0, "no", <<>>, 0, "none", Nothing)
Subscribed == Sub("new", 0, "no", <<>>, 0, "none", Nothing)

(* close(): what is pending is dropped, and next() resolves to done. *)
Closed(s) ==
  Sub("closed", 0, "no", <<>>, 0, IF s.next = "asked" THEN "settled" ELSE s.next,
      IF s.next = "asked" THEN Event("done", 0) ELSE s.event)

Follows(l) == sub[l].stage \in {"new", "heads", "idle", "reading"}

(* A call of next() gets the first event pending, once there is one. *)
Settled(s) ==
  IF s.next = "asked" /\ s.pending # <<>>
  THEN Sub(s.stage, s.readTo, s.dirty, Tail(s.pending), s.head, "settled", Head(s.pending))
  ELSE s

(* next() is called, and its event taken. *)
Asks(s) ==
  IF s.stage = "closed" THEN Sub("closed", 0, "no", <<>>, 0, "settled", Event("done", 0))
  ELSE Settled(Sub(s.stage, s.readTo, s.dirty, s.pending, s.head, "asked", Nothing))
Takes(s) == Sub(s.stage, s.readTo, s.dirty, s.pending, s.head, "none", Nothing)

(* ready(): the position is the head. *)
readHeads(l) ==
  /\ sub[l].stage = "new"
  /\ sub' = [sub EXCEPT ![l] = Sub("heads", 0, @.dirty, <<>>, Len(log), @.next, @.event)]
  /\ UNCHANGED log

ready(l) ==
  /\ sub[l].stage = "heads"
  /\ sub' = [sub EXCEPT ![l] = Sub("idle", @.head, @.dirty, <<>>, 0, @.next, @.event)]
  /\ UNCHANGED log

(* Told that the channel reached a seq, a subscription that has no         *)
(* position yet remembers that, and one that is there already does not. *)
moved(s, seq) ==
  IF s.stage \in {"new", "heads"} \/ (s.stage \in {"idle", "reading"} /\ seq # s.readTo)
  THEN Sub(s.stage, s.readTo, "yes", s.pending, s.head, s.next, s.event)
  ELSE s

(* wake(): a notification, or a poll's answer, of any seq there was. *)
Notified(l, seq) ==
  /\ moved(sub[l], seq) # sub[l]
  /\ sub' = [sub EXCEPT ![l] = moved(@, seq)]
  /\ UNCHANGED log

(* The poll finds the head itself: what is missed is made good. *)
polls(l) == Notified(l, Len(log))

(* read(): the head first.  The channel is clean from before it. *)
readHead(l) ==
  /\ sub[l].stage = "idle" /\ sub[l].next = "asked" /\ sub[l].dirty = "yes"
  /\ sub' = [sub EXCEPT ![l] =
               Sub(IF @.readTo = Len(log) THEN "idle" ELSE "reading", @.readTo, "no",
                   @.pending, Len(log), @.next, @.event)]
  /\ UNCHANGED log

Kept(seq) == seq > Len(log) - Retain

(* Then the entries; when the one that comes next is gone, a reset. *)
readEntries(l) ==
  /\ sub[l].stage = "reading"
  /\ LET after == sub[l].readTo
         last == IF Len(log) - after > BatchSize THEN after + BatchSize ELSE Len(log)
         read == [i \in 1 .. last - after |-> Event("change", log[after + i])]
         s == sub[l]
     IN  sub' = [sub EXCEPT ![l] =
           Settled(IF Kept(after + 1)
                   THEN Sub("idle", last, IF last - after = BatchSize THEN "yes" ELSE s.dirty,
                            read, 0, s.next, s.event)
                   ELSE Sub("idle", s.head, s.dirty, <<Event("reset", s.head)>>, 0,
                            s.next, s.event))]
  /\ UNCHANGED log

FeedStep(l) == readHeads(l) \/ ready(l) \/ readHead(l) \/ readEntries(l)

=============================================================================
