----------------------------- MODULE Deadlines -----------------------------
(***************************************************************************)
(* What src/src/timer promises a sub-reactor, without list or index: every *)
(* descriptor that was added has one deadline, the last one set; it fires  *)
(* when less than a millisecond is left of it, and no due one is forgotten.*)
(***************************************************************************)
EXTENDS Integers

CONSTANTS
  Ids,              \* descriptors
  TIMEOUT,          \* what add() allows them, in units of the clock
  MS,               \* units of the clock in a millisecond
  MaxStep,          \* how far the clock may be set, once
  NoDeadline

VARIABLE left       \* time to each descriptor's deadline

Init == left = [id \in Ids |-> NoDeadline]

Set(id) == left' = [left EXCEPT ![id] = TIMEOUT]

Fire(id) ==
  /\ left[id] # NoDeadline
  /\ left[id] < MS
  /\ left' = [left EXCEPT ![id] = NoDeadline]

\* The clock goes on by d, or is set back by -d.
Clock(d) ==
  left' = [id \in Ids |-> IF left[id] = NoDeadline THEN NoDeadline ELSE left[id] - d]

Next ==
  \/ \E id \in Ids : Set(id) \/ Fire(id)
  \/ \E d \in -MaxStep .. MaxStep : Clock(d)

SafeSpec == Init /\ [][Next]_left

Spec == SafeSpec /\ \A id \in Ids : WF_left(Fire(id))
=============================================================================
