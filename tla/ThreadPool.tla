----------------------------- MODULE ThreadPool -----------------------------
(***************************************************************************)
(* src/src/threadpool: worker threads around one queue of closures, one    *)
(* mutex and one condition variable.                                       *)
(*                                                                         *)
(* A critical section of queue_mutex is one action.  A condition variable  *)
(* is the set of workers asleep on it: a notification moves workers from   *)
(* "asleep" to "ready", where they compete for the mutex again with        *)
(* whoever else is there.  addTask notifies after it has released the      *)
(* mutex, so pushing and notifying are two actions.                        *)
(***************************************************************************)
EXTENDS Naturals, Sequences, FiniteSets

CONSTANTS
  Workers,          \* the threads of the pool (thread_count of them)
  Callers,          \* the threads that call addTask
  Tasks,            \* the closures they add, each of them once
  NoTask            \* the empty std::function

ASSUME WorkersAssumption == Workers # {} /\ IsFiniteSet(Workers)
ASSUME CallersAssumption == IsFiniteSet(Callers)
ASSUME NoTaskAssumption == NoTask \notin Tasks

VARIABLES
  tasks,            \* the queue
  stop,             \* the flag the destructor raises
  wpc,              \* where each worker is
  task,             \* the closure each worker holds
  cpc,              \* where each caller is
  dpc,              \* where the destructor is
  submitted,        \* history: tasks in the order addTask queued them
  started,          \* history: tasks in the order workers took them
  finished          \* history: tasks that have run to their end

vars == <<tasks, stop, wpc, task, cpc, dpc, submitted, started, finished>>

RangeOf(s) == {s[i] : i \in DOMAIN s}

Init ==
  /\ tasks = <<>>
  /\ stop = FALSE
  /\ wpc = [w \in Workers |-> "ready"]
  /\ task = [w \in Workers |-> NoTask]
  /\ cpc = [c \in Callers |-> "idle"]
  /\ dpc = "alive"
  /\ submitted = <<>>
  /\ started = <<>>
  /\ finished = {}

-----------------------------------------------------------------------------
(* addTask: push under the mutex, or throw; then notify_one outside it.    *)

\* Seeded bug: the newest task is put at the front.
PushTaskInFront(c, t) ==
  /\ cpc[c] = "idle"
  /\ dpc # "destroyed"
  /\ t \notin RangeOf(submitted)
  /\ ~stop
  /\ tasks' = <<t>> \o tasks
  /\ submitted' = Append(submitted, t)
  /\ cpc' = [cpc EXCEPT ![c] = "notify"]
  /\ UNCHANGED <<stop, wpc, task, dpc, started, finished>>

PushTask(c, t) ==
  /\ cpc[c] = "idle"
  /\ dpc # "destroyed"
  /\ t \notin RangeOf(submitted)
  /\ ~stop
  /\ tasks' = Append(tasks, t)
  /\ submitted' = Append(submitted, t)
  /\ cpc' = [cpc EXCEPT ![c] = "notify"]
  /\ UNCHANGED <<stop, wpc, task, dpc, started, finished>>

RefuseTask(c) ==
  /\ cpc[c] = "idle"
  /\ dpc # "destroyed"
  /\ stop
  /\ cpc' = [cpc EXCEPT ![c] = "threw"]
  /\ UNCHANGED <<tasks, stop, wpc, task, dpc, submitted, started, finished>>

Asleep == {w \in Workers : wpc[w] = "asleep"}

\* Seeded bug: notify only when the queue was empty before.
NotifyOneIfFirst(c) ==
  /\ cpc[c] = "notify"
  /\ cpc' = [cpc EXCEPT ![c] = "idle"]
  /\ \/ Len(tasks) = 1 /\ \E w \in Asleep : wpc' = [wpc EXCEPT ![w] = "ready"]
     \/ (Len(tasks) # 1 \/ Asleep = {}) /\ UNCHANGED wpc
  /\ UNCHANGED <<tasks, stop, task, dpc, submitted, started, finished>>

NotifyOne(c) ==
  /\ cpc[c] = "notify"
  /\ cpc' = [cpc EXCEPT ![c] = "idle"]
  /\ \/ \E w \in Asleep : wpc' = [wpc EXCEPT ![w] = "ready"]
     \/ Asleep = {} /\ UNCHANGED wpc
  /\ UNCHANGED <<tasks, stop, task, dpc, submitted, started, finished>>

-----------------------------------------------------------------------------
(* The loop of a worker.  "ready": about to lock queue_mutex and evaluate  *)
(* the predicate of condition.wait, on arrival or after a wake-up.         *)

TakeTask(w) ==
  /\ wpc[w] = "ready"
  /\ tasks # <<>>
  /\ task' = [task EXCEPT ![w] = Head(tasks)]
  /\ tasks' = Tail(tasks)
  /\ started' = Append(started, Head(tasks))
  /\ wpc' = [wpc EXCEPT ![w] = "running"]
  /\ UNCHANGED <<stop, cpc, dpc, submitted, finished>>

\* Seeded bug: the predicate of wait looks at the queue alone.
SleepThoughStopped(w) ==
  /\ wpc[w] = "ready"
  /\ tasks = <<>>
  /\ wpc' = [wpc EXCEPT ![w] = "asleep"]
  /\ UNCHANGED <<tasks, stop, task, cpc, dpc, submitted, started, finished>>

Sleep(w) ==
  /\ wpc[w] = "ready"
  /\ ~stop
  /\ tasks = <<>>
  /\ wpc' = [wpc EXCEPT ![w] = "asleep"]
  /\ UNCHANGED <<tasks, stop, task, cpc, dpc, submitted, started, finished>>

Return(w) ==
  /\ wpc[w] = "ready"
  /\ stop
  /\ tasks = <<>>
  /\ wpc' = [wpc EXCEPT ![w] = "returned"]
  /\ UNCHANGED <<tasks, stop, task, cpc, dpc, submitted, started, finished>>

\* Seeded bug: the thread ends with the closure it ran.
FinishTaskAndExit(w) ==
  /\ wpc[w] = "running"
  /\ wpc' = [wpc EXCEPT ![w] = "exited"]
  /\ finished' = finished \cup {task[w]}
  /\ task' = [task EXCEPT ![w] = NoTask]
  /\ UNCHANGED <<tasks, stop, cpc, dpc, submitted, started>>

FinishTask(w) ==
  /\ wpc[w] = "running"
  /\ wpc' = [wpc EXCEPT ![w] = "ready"]
  /\ finished' = finished \cup {task[w]}
  /\ task' = [task EXCEPT ![w] = NoTask]
  /\ UNCHANGED <<tasks, stop, cpc, dpc, submitted, started>>

\* The C++ standard lets wait return without a notification.
SpuriousWake(w) ==
  /\ wpc[w] = "asleep"
  /\ wpc' = [wpc EXCEPT ![w] = "ready"]
  /\ UNCHANGED <<tasks, stop, task, cpc, dpc, submitted, started, finished>>

-----------------------------------------------------------------------------
(* The destructor: raise stop, notify_all, join every worker.              *)

RaiseStop ==
  /\ dpc = "alive"
  /\ stop' = TRUE
  /\ dpc' = "notify"
  /\ UNCHANGED <<tasks, wpc, task, cpc, submitted, started, finished>>

\* Seeded bug: notify_one where all must wake.
NotifyAllWakesOne ==
  /\ dpc = "notify"
  /\ IF Asleep = {} THEN UNCHANGED wpc
     ELSE \E w \in Asleep : wpc' = [wpc EXCEPT ![w] = "ready"]
  /\ dpc' = "join"
  /\ UNCHANGED <<tasks, stop, task, cpc, submitted, started, finished>>

NotifyAll ==
  /\ dpc = "notify"
  /\ wpc' = [w \in Workers |-> IF wpc[w] = "asleep" THEN "ready" ELSE wpc[w]]
  /\ dpc' = "join"
  /\ UNCHANGED <<tasks, stop, task, cpc, submitted, started, finished>>

JoinAll ==
  /\ dpc = "join"
  /\ \A w \in Workers : wpc[w] = "returned"
  /\ dpc' = "destroyed"
  /\ UNCHANGED <<tasks, stop, wpc, task, cpc, submitted, started, finished>>

-----------------------------------------------------------------------------
AddTask(c) == RefuseTask(c) \/ \E t \in Tasks : PushTask(c, t)

WorkerStep(w) == TakeTask(w) \/ Sleep(w) \/ Return(w) \/ FinishTask(w)

DestructorStep == NotifyAll \/ JoinAll

Next ==
  \/ \E c \in Callers : AddTask(c) \/ NotifyOne(c)
  \/ \E w \in Workers : WorkerStep(w) \/ SpuriousWake(w)
  \/ RaiseStop
  \/ DestructorStep

SafeSpec == Init /\ [][Next]_vars

\* Threads are scheduled, and a closure returns.  Nobody has to call addTask
\* or the destructor, and no wake-up may be counted on to be spurious.
Fairness ==
  /\ \A w \in Workers : WF_vars(WorkerStep(w))
  /\ \A c \in Callers : WF_vars(NotifyOne(c))
  /\ WF_vars(DestructorStep)

Spec == SafeSpec /\ Fairness

-----------------------------------------------------------------------------
TypeOK ==
  /\ tasks \in Seq(Tasks)
  /\ stop \in BOOLEAN
  /\ wpc \in [Workers -> {"ready", "asleep", "running", "returned"}]
  /\ task \in [Workers -> Tasks \cup {NoTask}]
  /\ cpc \in [Callers -> {"idle", "notify", "threw"}]
  /\ dpc \in {"alive", "notify", "join", "destroyed"}
  /\ submitted \in Seq(Tasks)
  /\ started \in Seq(Tasks)
  /\ finished \in SUBSET Tasks

Ready == {w \in Workers : wpc[w] = "ready"}
Notifying == {c \in Callers : cpc[c] = "notify"}

(* No wake-up is lost (threadpool.cpp 20-31, 51): while a worker sleeps,   *)
(* every queued task has its own worker on the way to it, already awake or *)
(* about to be notified by the caller that queued a task.  The predicate   *)
(* is tested under the mutex the push takes; notify_one comes after it.    *)
NoLostWakeup == Asleep # {} => Len(tasks) <= Cardinality(Ready) + Cardinality(Notifying)

(* A worker leaves for good only when nothing is queued and nothing can be *)
(* queued any more (threadpool.cpp 25-27, 47), so that the destructor can  *)
(* never return with a task stranded in the queue or half run.             *)
DrainedWhenDestroyed ==
  dpc = "destroyed" =>
    /\ tasks = <<>>
    /\ finished = RangeOf(submitted)

(* First in, first out, each task once (threadpool.cpp 30-31, 48): the     *)
(* tasks taken so far, followed by the queue, are exactly those added.     *)
StartsInOrder == submitted = started \o tasks

(* After notify_all no worker is asleep, so join waits for no one whom     *)
(* nobody will wake (threadpool.cpp 58-65).                                *)
NobodySleepsThroughJoin == dpc \in {"join", "destroyed"} => Asleep = {}

(* "等待所有线程执行完手头的工作并安全退出" (threadpool.cpp 63): a destructor   *)
(* that has started returns.                                               *)
DestructorReturns == stop ~> dpc = "destroyed"

-----------------------------------------------------------------------------
Queue == INSTANCE TaskQueue WITH
  pending <- tasks,
  running <- {task[w] : w \in {v \in Workers : wpc[v] = "running"}},
  destroyed <- dpc = "destroyed"

(* The pool, with its mutex and its condition variable, is a task queue:   *)
(* every step is one of the queue's or invisible to it, and under fair     *)
(* scheduling no task waits for ever.                                      *)
ImplementsTaskQueue == Queue!Spec
=============================================================================
