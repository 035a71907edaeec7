----------------------------- MODULE ListTimer -----------------------------
(***************************************************************************)
(* src/src/timer in the loop of a sub-reactor (main.cpp 66-92, 123): a list*)
(* of deadlines in the order in which they were set, an index into it by   *)
(* descriptor, and tick(), which stops at the first that is not due.       *)
(*                                                                         *)
(* An entry's expires is kept as what is left of it, expires - now(), the  *)
(* only way the code reads it.  Every reading of the clock is a step, and  *)
(* the clock (high_resolution_clock, which need not be steady) goes on and *)
(* is set between any two of them.                                         *)
(***************************************************************************)
EXTENDS Integers, SequencesExt

CONSTANTS
  Ids, TIMEOUT, MS, MaxStep, NoDeadline,    \* as in Deadlines
  Lag               \* bound: a thread runs before its head is late by so much

ASSUME TimerAssumption ==
  /\ MS \in Nat \ {0} /\ TIMEOUT \in Nat /\ TIMEOUT >= MS
  /\ MaxStep \in Nat \ {0} /\ Lag \in Nat
  /\ NoDeadline \notin Int

VARIABLES
  nodes,            \* the list: descriptor and time left
  ref,              \* the descriptors whose iterator is not nodes_.end()
  rpc,              \* where the sub-reactor is
  timeout,          \* time left of its epoll_wait, -1 for ever
  back              \* history: how far the clock was ever set back

vars == <<nodes, ref, rpc, timeout, back>>

Init ==
  /\ nodes = <<>>
  /\ ref = {}
  /\ rpc = "clean"
  /\ timeout = -1
  /\ back = 0

\* The place in the list that ref_[id] points to.
PlaceOf(id) == CHOOSE i \in DOMAIN nodes : nodes[i].id = id

Add(id) ==
  /\ rpc = "handle"
  /\ nodes' = Append(IF id \in ref THEN RemoveAt(nodes, PlaceOf(id)) ELSE nodes,
                     [id |-> id, left |-> TIMEOUT])
  /\ ref' = ref \cup {id}
  /\ UNCHANGED <<rpc, timeout, back>>

\* Seeded bug: an entry fires with a millisecond left.
DueEarly(n) == n.left <= MS

\* duration_cast<MS>(expires - now()) cuts off what is less than one.
Due(n) == n.left < MS

\* Seeded bug: the index keeps an iterator to the entry that is gone.
Forget(id) == UNCHANGED ref

Unref(id) == ref' = ref \ {id}

\* One turn of tick()'s loop, in getNextTick ("clean") and after epoll_wait.
Fire ==
  /\ rpc \in {"clean", "tick"}
  /\ nodes # <<>> /\ Due(Head(nodes))
  /\ nodes' = Tail(nodes)
  /\ Unref(Head(nodes).id)
  /\ UNCHANGED <<rpc, timeout, back>>

TickDone ==
  /\ rpc \in {"clean", "tick"}
  /\ nodes # <<>> => ~Due(Head(nodes))
  /\ rpc' = IF rpc = "clean" THEN "next" ELSE "handle"
  /\ UNCHANGED <<nodes, ref, timeout, back>>

\* Seeded bug: waits for the entry that was set last.
LastLeft == nodes[Len(nodes)].left

FirstLeft == Head(nodes).left

\* Seeded bug: what is late is passed to epoll_wait as it is.
Unclamped(n) == n

Clamped(n) == IF n < 0 THEN 0 ELSE n

\* The rest of getNextTick: whole milliseconds, at least 0, or -1 for ever.
GetNextTick ==
  /\ rpc = "next"
  /\ timeout' = IF nodes = <<>> THEN -1 ELSE (Clamped(FirstLeft) \div MS) * MS
  /\ rpc' = "wait"
  /\ UNCHANGED <<nodes, ref, back>>

\* epoll_wait: a timeout, an event at any time, or a signal, which skips tick.
Wake(why) ==
  /\ rpc = "wait"
  /\ why = "timeout" => timeout = 0
  /\ rpc' = IF why = "signal" THEN "clean" ELSE "tick"
  /\ timeout' = -1
  /\ UNCHANGED <<nodes, ref, back>>

HandleDone ==
  /\ rpc = "handle"
  /\ rpc' = "clean"
  /\ UNCHANGED <<nodes, ref, timeout, back>>

Shift(d) == nodes' = [i \in DOMAIN nodes |-> [nodes[i] EXCEPT !.left = @ - d]]

Advance ==
  /\ nodes # <<>>
  /\ IF rpc = "wait" THEN timeout # 0 ELSE Head(nodes).left > -Lag
  /\ Shift(1)
  /\ timeout' = IF timeout > 0 THEN timeout - 1 ELSE timeout
  /\ UNCHANGED <<ref, rpc, back>>

\* The clock is set; epoll_wait counts on.  Back by MaxStep at most in all.
SetClock(d) ==
  /\ d # 0
  /\ back - d <= MaxStep
  /\ nodes # <<>> /\ Head(nodes).left - d > -Lag
  /\ Shift(d)
  /\ back' = IF d < 0 THEN back - d ELSE back
  /\ UNCHANGED <<ref, rpc, timeout>>

LoopStep ==
  Fire \/ TickDone \/ GetNextTick \/ Wake("timeout") \/ HandleDone

Next ==
  \/ LoopStep
  \/ \E id \in Ids : Add(id)
  \/ Wake("event") \/ Wake("signal")
  \/ Advance
  \/ \E d \in -MaxStep .. MaxStep : SetClock(d)

\* The thread is scheduled, and time passes however often the clock is set.
Spec == Init /\ [][Next]_vars /\ WF_vars(LoopStep) /\ WF_vars(Advance)

-----------------------------------------------------------------------------
TypeOK ==
  /\ nodes \in Seq([id : Ids, left : Int])
  /\ ref \subseteq Ids
  /\ rpc \in {"clean", "next", "wait", "tick", "handle"}
  /\ timeout \in -1 .. TIMEOUT + MaxStep
  /\ back \in 0 .. MaxStep

(* The index and the list agree (lru_timer.cpp 17-27, 45-47): a descriptor *)
(* has an iterator if and only if it has an entry, and it has one entry.   *)
IndexAgrees ==
  /\ ref = {nodes[i].id : i \in DOMAIN nodes}
  /\ \A i, j \in DOMAIN nodes : nodes[i].id = nodes[j].id => i = j

(* "队头永远是最早过期的", "后面的更不可能过期" (lru_timer.cpp 34, 38): when tick *)
(* stops at a head that is not due, nothing behind it is, and when         *)
(* getNextTick goes by the head it wakes in time for the rest; except that *)
(* an entry may be late by as much as the clock was ever set back.         *)
LateByStepsAlone ==
  [][/\ TickDone => \A i \in DOMAIN nodes : nodes[i].left + back >= MS
     /\ GetNextTick => \A i \in DOMAIN nodes :
          timeout' = 0 \/ timeout' \in 1 .. nodes[i].left + back]_vars

\* What the list says of each descriptor.
Left == [id \in Ids |-> IF \E i \in DOMAIN nodes : nodes[i].id = id
                        THEN nodes[PlaceOf(id)].left ELSE NoDeadline]

Abstract == INSTANCE Deadlines WITH left <- Left

(* The list keeps the promise of one deadline per descriptor: renewed by   *)
(* add, fired when due and not before, and never forgotten, even behind    *)
(* entries that a clock set back has made late.                            *)
ImplementsDeadlines == Abstract!Spec
=============================================================================
