-------------------------- MODULE LifecycleProofs --------------------------
(***************************************************************************)
(* Proofs about Lifecycle for any number of sub-reactors, tasks, signals   *)
(* and threads a signal may be given to.                                   *)
(***************************************************************************)
EXTENDS Lifecycle, TLAPS

\* The pool is gone.
Over == {"mysql", "log", "drain", "leave", "exited"}

(* Where main() is decides what is set up and what is taken down: the      *)
(* connections to MySQL are open from the end of SetUp to ClosePool, the   *)
(* pool is empty once it is destroyed, and from Join on every sub-reactor  *)
(* has returned, which is for good.  A crash comes in between.             *)
InOrder ==
  /\ mpc \in {"users", "pool", "crashed"} \cup Over => \A r \in Reactors : rpc[r] = "returned"
  /\ mpc = "init" => \A r \in Reactors : rpc[r] = "unborn"
  /\ mpc \in {"threads", "test", "wait", "join", "users", "pool", "mysql", "crashed"} <=> mysqlOpen
  /\ mpc \in Over <=> destroyed
  /\ mpc \in {"pool", "crashed"} \cup Over <=> users = "deleted"
  /\ mpc = "init" \/ destroyed => pending = <<>> /\ running = {}

IInv == TypeOK /\ InOrder

LEMMA InitInvariant == Init => IInv
  <1> SUFFICES ASSUME Init PROVE IInv
    OBVIOUS
  <1> USE DEF Init, Pool!Init
  <1>1. TypeOK
    <2>1. server_is_running \in BOOLEAN /\ signals \in 0 .. MaxSignals
      BY LifecycleAssumption
    <2>2. /\ mpc \in {"init", "threads", "test", "wait", "join", "users", "pool", "mysql",
                      "log", "drain", "leave", "exited", "crashed"}
          /\ mpc \notin {"init", "threads"} => \A r \in Reactors : rpc[r] # "unborn"
      OBVIOUS
    <2>3. rpc \in [Reactors -> {"unborn", "test", "wait", "handle", "recv", "read", "returned"}]
      OBVIOUS
    <2>4. clients \in [Reactors -> BOOLEAN] /\ hasTimer \in [Reactors -> BOOLEAN]
      OBVIOUS
    <2>5. users \in {"none", "new", "deleted"} /\ mysqlOpen \in BOOLEAN
      OBVIOUS
    <2>6. pending \in Seq(Tasks) /\ running \subseteq Tasks /\ finished \subseteq Tasks
      OBVIOUS
    <2>7. destroyed \in BOOLEAN /\ writer \in {"working", "behind", "writing", "asleep", "returned"}
      OBVIOUS
    <2> QED
      BY <2>1, <2>2, <2>3, <2>4, <2>5, <2>6, <2>7 DEF TypeOK
  <1>2. InOrder
    BY DEF InOrder, Over
  <1> QED
    BY <1>1, <1>2 DEF IInv

-----------------------------------------------------------------------------
(* What the pool does keeps its types, and nothing starts or finishes in   *)
(* one that is destroyed.                                                  *)
LEMMA PoolKept ==
  ASSUME TypeOK, InOrder, PoolStep
  PROVE  /\ IInv'
  <1>1. CASE Pool!Start
    <2>1. PICK t : t = Head(pending) /\ t \in Tasks
      BY <1>1 DEF TypeOK, Pool!Start
    <2>2. Tail(pending) \in Seq(Tasks)
      BY <1>1 DEF TypeOK, Pool!Start
    <2> QED
      BY <1>1, <2>1, <2>2 DEF IInv, TypeOK, InOrder, Over, PoolStep, Pool!Start, flagVars, loopVars
  <1>2. ASSUME NEW t \in Tasks, Pool!Finish(t) PROVE IInv'
    BY <1>2 DEF IInv, TypeOK, InOrder, Over, PoolStep, Pool!Finish, flagVars, loopVars
  <1> QED
    BY <1>1, <1>2 DEF PoolStep

LEMMA MainKept ==
  ASSUME TypeOK, InOrder, MainStep
  PROVE  IInv'
  <1> USE DEF IInv, TypeOK, InOrder, Over, flagVars, loopVars, poolVars
  <1>1. CASE SetUp
    BY <1>1 DEF SetUp
  <1>2. ASSUME NEW r \in Reactors, StartReactor(r) PROVE IInv'
    BY <1>2 DEF StartReactor
  <1>3. CASE Started
    BY <1>3 DEF Started, Goes, NextStep, AllStarted
  <1>4. CASE MainTest
    BY <1>4 DEF MainTest
  <1>5. CASE Join
    BY <1>5 DEF Join, Goes, NextStep, AllReturned
  <1>6. CASE DeleteUsers
    BY <1>6 DEF DeleteUsers, Goes, NextStep
  <1>7. CASE DeletePool
    BY <1>7 DEF DeletePool, Goes, NextStep, Pool!Destroy
  <1>8. CASE ClosePool
    BY <1>8 DEF ClosePool, Goes, NextStep
  <1>9. CASE Farewell
    BY <1>9 DEF Farewell, Goes, NextStep
  <1>10. CASE CloseLog
    BY <1>10 DEF CloseLog, Goes, NextStep
  <1>11. CASE JoinWriter
    BY <1>11 DEF JoinWriter, Goes, NextStep
  <1> QED
    BY <1>1, <1>2, <1>3, <1>4, <1>5, <1>6, <1>7, <1>8, <1>9, <1>10, <1>11 DEF MainStep

\* tick() leaves the types of what it may change.
LEMMA TickTypes ==
  ASSUME TypeOK, NEW r \in Reactors, Tick(r)
  PROVE  /\ clients' \in [Reactors -> BOOLEAN]
         /\ hasTimer' \in [Reactors -> BOOLEAN]
BY DEF TypeOK, Tick

LEMMA ReactorKept ==
  ASSUME TypeOK, InOrder, NEW r \in Reactors, ReactorStep(r)
  PROVE  IInv'
  <1> USE DEF IInv, TypeOK, InOrder, Over, flagVars, poolVars
  <1>1. CASE TestFlag(r)
    BY <1>1, TickTypes DEF TestFlag
  <1>2. CASE TimeIsUp(r)
    BY <1>2, TickTypes DEF TimeIsUp
  <1>3. CASE HandleRest(r)
    BY <1>3 DEF HandleRest
  <1>4. ASSUME NEW t \in Tasks, HandIn(r, t) PROVE IInv'
    BY <1>4 DEF HandIn, Pool!Submit
  <1> QED
    BY <1>1, <1>2, <1>3, <1>4 DEF ReactorStep

LEMMA EnvironmentKept ==
  ASSUME TypeOK, InOrder, Environment
  PROVE  IInv'
  <1> USE DEF IInv, TypeOK, InOrder, Over, flagVars, poolVars
  <1>1. ASSUME NEW thread \in Handlers, Signal(thread) PROVE IInv'
    <2>1. signals' \in 0 .. MaxSignals
      BY <1>1, LifecycleAssumption DEF Signal
    <2> QED
      BY <1>1, <2>1 DEF Signal
  <1>2. ASSUME NEW r \in Reactors, Event(r) PROVE IInv'
    BY <1>2, TickTypes DEF Event
  <1>3. ASSUME NEW r \in Reactors, Accept(r) PROVE IInv'
    BY <1>3 DEF Accept
  <1>4. ASSUME NEW r \in Reactors, RecvBlocks(r) \/ RecvReturns(r) PROVE IInv'
    BY <1>4 DEF RecvBlocks, RecvReturns
  <1>5. CASE WriterWakes
    BY <1>5 DEF WriterWakes, loopVars
  <1>6. CASE Crash
    BY <1>6 DEF Crash, loopVars
  <1> QED
    BY <1>1, <1>2, <1>3, <1>4, <1>5, <1>6 DEF Environment

LEMMA WriterKept ==
  ASSUME TypeOK, InOrder, WriterStep
  PROVE  IInv'
BY DEF IInv, TypeOK, InOrder, Over, WriterStep, flagVars, loopVars, poolVars

LEMMA StepInvariant == IInv /\ [Next]_vars => IInv'
  <1> SUFFICES ASSUME TypeOK, InOrder, [Next]_vars PROVE IInv'
    BY DEF IInv
  <1>1. CASE UNCHANGED vars
    BY <1>1 DEF IInv, TypeOK, InOrder, Over, vars
  <1> QED
    BY <1>1, PoolKept, MainKept, ReactorKept, WriterKept, EnvironmentKept DEF Next

LEMMA Invariant == Spec => []IInv
  BY InitInvariant, StepInvariant, PTL DEF Spec

-----------------------------------------------------------------------------
(* The state keeps its types: signals never exceed their bound, and once   *)
(* main() is in its loop every sub-reactor has been started.               *)
THEOREM TypeCorrect == Spec => []TypeOK
  BY Invariant, PTL DEF IInv

(* No sub-reactor is in its loop when the slots or the pool are gone       *)
(* (main.cpp 266-271), however many there are and whoever is interrupted.  *)
THEOREM OrderOfShutdown == Spec => []ReactorsGoFirst
  <1>1. IInv => ReactorsGoFirst
    BY DEF IInv, InOrder, Over, ReactorsGoFirst, TypeOK
  <1> QED
    BY <1>1, Invariant, PTL

(* A task that is queued or running finds the connections to MySQL open    *)
(* (main.cpp 187, 271, 272).                                               *)
THEOREM TasksAreServed == Spec => []TasksHaveMySQL
  <1>1. IInv => TasksHaveMySQL
    BY DEF IInv, InOrder, Over, TasksHaveMySQL, TypeOK
  <1> QED
    BY <1>1, Invariant, PTL
=============================================================================
