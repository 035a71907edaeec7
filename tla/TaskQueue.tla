----------------------------- MODULE TaskQueue -----------------------------
(***************************************************************************)
(* What src/src/threadpool promises its callers, without threads, locks or *)
(* condition variables: tasks start in the order in which they were added, *)
(* every added task runs exactly once, and the pool is gone only when it   *)
(* has nothing left to do.  The lines of src/src/log are such tasks too.   *)
(***************************************************************************)
EXTENDS Sequences

CONSTANT Tasks      \* every closure that may be handed to addTask

VARIABLES
  pending,          \* tasks added and not started, oldest first
  running,          \* tasks started and not finished
  finished,         \* tasks that have run to their end
  destroyed         \* the destructor has returned

vars == <<pending, running, finished, destroyed>>

Init ==
  /\ pending = <<>>
  /\ running = {}
  /\ finished = {}
  /\ destroyed = FALSE

Known == {pending[i] : i \in DOMAIN pending} \cup running \cup finished

Submit(t) ==
  /\ ~destroyed
  /\ t \notin Known
  /\ pending' = Append(pending, t)
  /\ UNCHANGED <<running, finished, destroyed>>

Start ==
  /\ pending # <<>>
  /\ running' = running \cup {Head(pending)}
  /\ pending' = Tail(pending)
  /\ UNCHANGED <<finished, destroyed>>

Finish(t) ==
  /\ t \in running
  /\ running' = running \ {t}
  /\ finished' = finished \cup {t}
  /\ UNCHANGED <<pending, destroyed>>

Destroy ==
  /\ ~destroyed
  /\ pending = <<>>
  /\ running = {}
  /\ destroyed' = TRUE
  /\ UNCHANGED <<pending, running, finished>>

Next ==
  \/ \E t \in Tasks : Submit(t) \/ Finish(t)
  \/ Start
  \/ Destroy

SafeSpec == Init /\ [][Next]_vars

Fairness == WF_vars(Start) /\ \A t \in Tasks : WF_vars(Finish(t))

Spec == SafeSpec /\ Fairness
=============================================================================
