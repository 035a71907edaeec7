-------------------------- MODULE ThreadPoolProofs --------------------------
(***************************************************************************)
(* Proofs about ThreadPool for any finite number of workers and callers    *)
(* and any set of tasks: its safety invariants, and that each of its steps *)
(* is one of TaskQueue or invisible to it.                                 *)
(***************************************************************************)
EXTENDS ThreadPool, TLAPS, FiniteSetTheorems, SequenceTheorems

-----------------------------------------------------------------------------
(* Facts about sequences.                                                  *)

(* What a queue holds after a push (threadpool.cpp 48).                    *)
LEMMA RangeAppend ==
  ASSUME NEW S, NEW s \in Seq(S), NEW e \in S
  PROVE  RangeOf(Append(s, e)) = RangeOf(s) \cup {e}
<1>1. /\ Len(Append(s, e)) = Len(s) + 1
      /\ \A i \in 1 .. Len(s) : Append(s, e)[i] = s[i]
      /\ Append(s, e)[Len(s) + 1] = e
      /\ Append(s, e) \in Seq(S)
  BY AppendProperties
<1>2. Len(s) \in Nat /\ DOMAIN s = 1 .. Len(s) /\ DOMAIN Append(s, e) = 1 .. (Len(s) + 1)
  BY <1>1, LenProperties
<1>3. DOMAIN Append(s, e) = DOMAIN s \cup {Len(s) + 1}
  BY <1>2
<1>. QED
  BY <1>1, <1>2, <1>3 DEF RangeOf

(* The elements of two sequences in a row.                                 *)
LEMMA RangeConcat ==
  ASSUME NEW S, NEW s \in Seq(S), NEW t \in Seq(S)
  PROVE  RangeOf(s \o t) = RangeOf(s) \cup RangeOf(t)
<1>1. /\ s \o t \in Seq(S)
      /\ Len(s \o t) = Len(s) + Len(t)
      /\ \A i \in 1 .. (Len(s) + Len(t)) :
           (s \o t)[i] = IF i <= Len(s) THEN s[i] ELSE t[i - Len(s)]
  BY ConcatProperties
<1>2. /\ Len(s) \in Nat /\ Len(t) \in Nat
      /\ DOMAIN s = 1 .. Len(s) /\ DOMAIN t = 1 .. Len(t)
      /\ DOMAIN (s \o t) = 1 .. (Len(s) + Len(t))
  BY <1>1, LenProperties
<1>3. RangeOf(s \o t) \subseteq RangeOf(s) \cup RangeOf(t)
  BY <1>1, <1>2 DEF RangeOf
<1>4. RangeOf(s) \subseteq RangeOf(s \o t)
  <2>. SUFFICES ASSUME NEW i \in 1 .. Len(s)
                PROVE  s[i] \in RangeOf(s \o t)
    BY <1>2 DEF RangeOf
  <2>1. i \in 1 .. (Len(s) + Len(t)) /\ (s \o t)[i] = s[i]
    BY <1>1, <1>2
  <2>. QED
    BY <2>1, <1>2 DEF RangeOf
<1>5. RangeOf(t) \subseteq RangeOf(s \o t)
  <2>. SUFFICES ASSUME NEW i \in 1 .. Len(t)
                PROVE  t[i] \in RangeOf(s \o t)
    BY <1>2 DEF RangeOf
  <2>1. i + Len(s) \in 1 .. (Len(s) + Len(t)) /\ (s \o t)[i + Len(s)] = t[i]
    BY <1>1, <1>2
  <2>. QED
    BY <2>1, <1>2 DEF RangeOf
<1>. QED
  BY <1>3, <1>4, <1>5

(* Taking the first task off the queue leaves the order in which tasks     *)
(* were added as it was (threadpool.cpp 30-31).                            *)
LEMMA HeadMoves ==
  ASSUME NEW S, NEW s \in Seq(S), NEW t \in Seq(S), t # <<>>
  PROVE  /\ Head(t) \in S
         /\ Tail(t) \in Seq(S)
         /\ Len(Tail(t)) = Len(t) - 1
         /\ Append(s, Head(t)) \in Seq(S)
         /\ Append(s, Head(t)) \o Tail(t) = s \o t
<1>1. /\ Head(t) \in S
      /\ Tail(t) \in Seq(S)
      /\ Len(Tail(t)) = Len(t) - 1
      /\ \A i \in 1 .. Len(Tail(t)) : Tail(t)[i] = t[i + 1]
  BY HeadTailProperties
<1>2. Append(s, Head(t)) \in Seq(S) /\ Append(s, Head(t)) = s \o <<Head(t)>>
  BY <1>1, AppendProperties, AppendIsConcat
<1>3. <<Head(t)>> \in Seq(S) /\ <<Head(t)>> \o Tail(t) = t
  BY <1>1
<1>. QED
  BY <1>1, <1>2, <1>3, ConcatAssociative
-----------------------------------------------------------------------------
(* The parts of the inductive invariant that no run checks by name.        *)

Running == {w \in Workers : wpc[w] = "running"}

StopRaised == stop <=> dpc # "alive"
GoneForGood == \A w \in Workers : wpc[w] = "returned" => stop /\ tasks = <<>>
AllGone == dpc = "destroyed" => \A w \in Workers : wpc[w] = "returned"

Accounted == RangeOf(started) = finished \cup {task[w] : w \in Running}
Apart == \A v, w \in Running : task[v] = task[w] => v = w
AddedOnce == \A i, j \in 1 .. Len(submitted) : submitted[i] = submitted[j] => i = j

-----------------------------------------------------------------------------
\* TypeOK is not inductive: finished collects what a running worker holds.
TypeInv == TypeOK /\ \A w \in Running : task[w] \in Tasks

\* The typed part of the invariant always holds.
LEMMA TypeKept == SafeSpec => []TypeInv
<1>. USE DEF TypeInv, Running
<1>1. Init => TypeInv
  <2>1. <<>> \in Seq(Tasks)
    BY EmptySeq
  <2>. QED
    BY <2>1 DEF Init, TypeOK
<1>2. TypeInv /\ [Next]_vars => TypeInv'
  <2>. SUFFICES ASSUME TypeInv, [Next]_vars
                PROVE  TypeInv'
    OBVIOUS
  <2>. USE DEF TypeOK
  <2>1. ASSUME NEW c \in Callers, NEW t \in Tasks, PushTask(c, t)
        PROVE  TypeInv'
    BY <2>1, AppendProperties DEF PushTask
  <2>2. ASSUME NEW c \in Callers, RefuseTask(c) \/ NotifyOne(c)
        PROVE  TypeInv'
    BY <2>2 DEF RefuseTask, NotifyOne
  <2>3. ASSUME NEW w \in Workers, TakeTask(w)
        PROVE  TypeInv'
    BY <2>3, HeadMoves DEF TakeTask
  <2>4. ASSUME NEW w \in Workers, Sleep(w) \/ Return(w) \/ FinishTask(w) \/ SpuriousWake(w)
        PROVE  TypeInv'
    BY <2>4 DEF Sleep, Return, FinishTask, SpuriousWake
  <2>5. CASE RaiseStop \/ NotifyAll \/ JoinAll
    BY <2>5 DEF RaiseStop, NotifyAll, JoinAll
  <2>6. CASE UNCHANGED vars
    BY <2>6 DEF vars
  <2>. QED
    BY <2>1, <2>2, <2>3, <2>4, <2>5, <2>6 DEF Next, AddTask, WorkerStep, DestructorStep
<1>. QED
  BY <1>1, <1>2, PTL DEF SafeSpec

(* Type correctness of the pool's state, for every set of tasks.           *)
THEOREM TypeCorrect == SafeSpec => []TypeOK
BY TypeKept, PTL DEF TypeInv

(* Tasks are taken in the order in which they were added, none twice and   *)
(* none skipped (threadpool.cpp 30-31, 48).                                *)
THEOREM OrderKept == SafeSpec => []StartsInOrder
<1>1. Init => StartsInOrder
  BY DEF Init, StartsInOrder
<1>2. TypeOK /\ StartsInOrder /\ [Next]_vars => StartsInOrder'
  <2>. SUFFICES ASSUME TypeOK, StartsInOrder, [Next]_vars
                PROVE  StartsInOrder'
    OBVIOUS
  <2>. USE DEF StartsInOrder
  <2>1. ASSUME NEW c \in Callers, NEW t \in Tasks, PushTask(c, t)
        PROVE  StartsInOrder'
    <3>1. Append(started \o tasks, t) = started \o Append(tasks, t)
      <4>1. /\ tasks \in Seq(Tasks) /\ started \in Seq(Tasks)
            /\ <<t>> \in Seq(Tasks) /\ started \o tasks \in Seq(Tasks)
        BY ConcatProperties DEF TypeOK
      <4>2. Append(started \o tasks, t) = (started \o tasks) \o <<t>>
        BY <4>1, AppendIsConcat
      <4>3. Append(tasks, t) = tasks \o <<t>>
        BY <4>1, AppendIsConcat
      <4>. QED
        BY <4>1, <4>2, <4>3, ConcatAssociative
    <3>. QED
      BY <2>1, <3>1 DEF PushTask
  <2>2. ASSUME NEW w \in Workers, TakeTask(w)
        PROVE  StartsInOrder'
    BY <2>2, HeadMoves, SMTT(30) DEF TakeTask, TypeOK
  <2>3. ASSUME UNCHANGED <<submitted, started, tasks>>
        PROVE  StartsInOrder'
    BY <2>3
  <2>. QED
    BY <2>1, <2>2, <2>3 DEF Next, AddTask, WorkerStep, DestructorStep, vars, RefuseTask,
       NotifyOne, Sleep, Return, FinishTask, SpuriousWake, RaiseStop, NotifyAll, JoinAll
<1>. QED
  BY <1>1, <1>2, TypeCorrect, PTL DEF SafeSpec

ShutdownInv == StopRaised /\ GoneForGood /\ AllGone /\ NobodySleepsThroughJoin

(* Once raised, stop stays; a worker that has returned left an empty queue *)
(* that stays empty; and no worker sleeps while it is being joined.        *)
LEMMA ShutdownKept == SafeSpec => []ShutdownInv
<1>. USE DEF ShutdownInv, StopRaised, GoneForGood, AllGone, NobodySleepsThroughJoin, Asleep
<1>1. Init => ShutdownInv
  BY DEF Init
<1>2. TypeOK /\ ShutdownInv /\ [Next]_vars => ShutdownInv'
  <2>. SUFFICES ASSUME TypeOK, ShutdownInv, [Next]_vars
                PROVE  ShutdownInv'
    OBVIOUS
  <2>. USE DEF TypeOK
  <2>1. ASSUME NEW c \in Callers, NEW t \in Tasks, PushTask(c, t)
        PROVE  ShutdownInv'
    BY <2>1 DEF PushTask
  <2>2. ASSUME NEW c \in Callers, RefuseTask(c) \/ NotifyOne(c)
        PROVE  ShutdownInv'
    BY <2>2 DEF RefuseTask, NotifyOne
  <2>3. ASSUME NEW w \in Workers, TakeTask(w)
        PROVE  ShutdownInv'
    BY <2>3 DEF TakeTask
  <2>4. ASSUME NEW w \in Workers, Sleep(w) \/ Return(w) \/ FinishTask(w) \/ SpuriousWake(w)
        PROVE  ShutdownInv'
    BY <2>4 DEF Sleep, Return, FinishTask, SpuriousWake
  <2>5. CASE RaiseStop \/ NotifyAll \/ JoinAll
    BY <2>5 DEF RaiseStop, NotifyAll, JoinAll
  <2>6. CASE UNCHANGED vars
    BY <2>6 DEF vars
  <2>. QED
    BY <2>1, <2>2, <2>3, <2>4, <2>5, <2>6 DEF Next, AddTask, WorkerStep, DestructorStep
<1>. QED
  BY <1>1, <1>2, TypeCorrect, PTL DEF SafeSpec

(* After notify_all nobody sleeps any more, so that join waits for workers *)
(* that are on their way out (threadpool.cpp 58-65).                       *)
THEOREM JoinIsSafe == SafeSpec => []NobodySleepsThroughJoin
BY ShutdownKept, PTL DEF ShutdownInv
-----------------------------------------------------------------------------
(* Wake-ups.                                                               *)

(* Counting the workers that are awake and the callers about to notify.    *)
LEMMA Countable ==
  ASSUME TypeOK
  PROVE  /\ IsFiniteSet(Ready) /\ Cardinality(Ready) \in Nat
         /\ IsFiniteSet(Notifying) /\ Cardinality(Notifying) \in Nat
         /\ Len(tasks) \in Nat
<1>1. IsFiniteSet(Ready) /\ IsFiniteSet(Notifying)
  BY WorkersAssumption, CallersAssumption, FS_Subset DEF Ready, Notifying
<1>. QED
  BY <1>1, FS_CardinalityType, LenProperties DEF TypeOK

(* No wake-up is lost, however many workers and callers there are          *)
(* (threadpool.cpp 20-31, 51).                                             *)
THEOREM WakeupsKept == SafeSpec => []NoLostWakeup
<1>1. Init => NoLostWakeup
  <2>. SUFFICES ASSUME Init, Asleep # {}
                PROVE  FALSE
    BY DEF NoLostWakeup
  <2>. QED
    BY DEF Init, Asleep
<1>2. TypeOK /\ TypeOK' /\ NoLostWakeup /\ [Next]_vars => NoLostWakeup'
  <2>. SUFFICES ASSUME TypeOK, TypeOK', NoLostWakeup, [Next]_vars, Asleep' # {}
                PROVE  Len(tasks)' <= Cardinality(Ready)' + Cardinality(Notifying)'
    BY DEF NoLostWakeup
  <2>. DEFINE Goal == Len(tasks)' <= Cardinality(Ready)' + Cardinality(Notifying)'
  <2>a. /\ IsFiniteSet(Ready) /\ Cardinality(Ready) \in Nat
        /\ IsFiniteSet(Notifying) /\ Cardinality(Notifying) \in Nat
        /\ Len(tasks) \in Nat
    BY Countable
  <2>b. /\ IsFiniteSet(Ready') /\ Cardinality(Ready)' \in Nat
        /\ IsFiniteSet(Notifying') /\ Cardinality(Notifying)' \in Nat
        /\ Len(tasks)' \in Nat
    <3>1. (IsFiniteSet(Ready) /\ Cardinality(Ready) \in Nat
            /\ IsFiniteSet(Notifying) /\ Cardinality(Notifying) \in Nat
            /\ Len(tasks) \in Nat)'
      BY Countable, PTL
    <3>. QED
      BY <3>1
  <2>1. ASSUME NEW c \in Callers, NEW t \in Tasks, PushTask(c, t)
        PROVE  Goal
    <3>1. Asleep # {} /\ Ready' = Ready
      BY <2>1 DEF PushTask, Asleep, Ready
    <3>2. Notifying' = Notifying \cup {c} /\ c \notin Notifying
      BY <2>1 DEF PushTask, Notifying, TypeOK
    <3>3. Cardinality(Notifying') = Cardinality(Notifying) + 1
      BY <3>2, <2>a, FS_AddElement
    <3>4. Len(tasks') = Len(tasks) + 1
      BY <2>1, AppendProperties DEF PushTask, TypeOK
    <3>. QED
      BY <2>a, <3>1, <3>3, <3>4 DEF NoLostWakeup
  <2>2. ASSUME NEW c \in Callers, RefuseTask(c)
        PROVE  Goal
    <3>1. Asleep # {} /\ Ready' = Ready /\ Notifying' = Notifying /\ tasks' = tasks
      BY <2>2 DEF RefuseTask, Asleep, Ready, Notifying, TypeOK
    <3>. QED
      BY <3>1 DEF NoLostWakeup
  <2>3. ASSUME NEW c \in Callers, NotifyOne(c)
        PROVE  Goal
    <3>1. tasks' = tasks /\ Notifying' = Notifying \ {c} /\ c \in Notifying
      BY <2>3 DEF NotifyOne, Notifying, TypeOK
    <3>2. Cardinality(Notifying') = Cardinality(Notifying) - 1
      BY <3>1, <2>a, FS_RemoveElement
    <3>3. PICK w \in Asleep : wpc' = [wpc EXCEPT ![w] = "ready"]
      BY <2>3 DEF NotifyOne, Asleep
    <3>4. Ready' = Ready \cup {w} /\ w \notin Ready
      BY <3>3 DEF Ready, Asleep, TypeOK
    <3>5. Cardinality(Ready') = Cardinality(Ready) + 1
      BY <3>4, <2>a, FS_AddElement
    <3>. QED
      BY <2>a, <3>1, <3>2, <3>3, <3>5 DEF NoLostWakeup
  <2>4. ASSUME NEW w \in Workers, TakeTask(w)
        PROVE  Goal
    <3>1. Asleep # {} /\ Notifying' = Notifying
      BY <2>4 DEF TakeTask, Asleep, Notifying, TypeOK
    <3>2. Ready' = Ready \ {w} /\ w \in Ready
      BY <2>4 DEF TakeTask, Ready, TypeOK
    <3>3. Cardinality(Ready') = Cardinality(Ready) - 1
      BY <3>2, <2>a, FS_RemoveElement
    <3>4. Len(tasks') = Len(tasks) - 1
      BY <2>4, HeadMoves DEF TakeTask, TypeOK
    <3>. QED
      BY <2>a, <3>1, <3>3, <3>4 DEF NoLostWakeup
  <2>5. ASSUME NEW w \in Workers, Sleep(w) \/ Return(w)
        PROVE  Goal
    <3>1. tasks' = <<>>
      BY <2>5 DEF Sleep, Return
    <3>. QED
      BY <3>1, <2>b
  <2>6. ASSUME NEW w \in Workers, FinishTask(w) \/ SpuriousWake(w)
        PROVE  Goal
    <3>1. Asleep # {} /\ Notifying' = Notifying /\ tasks' = tasks
      BY <2>6 DEF FinishTask, SpuriousWake, Asleep, Notifying, TypeOK
    <3>2. Ready' = Ready \cup {w} /\ w \notin Ready
      BY <2>6 DEF FinishTask, SpuriousWake, Ready, TypeOK
    <3>3. Cardinality(Ready') = Cardinality(Ready) + 1
      BY <3>2, <2>a, FS_AddElement
    <3>. QED
      BY <2>a, <3>1, <3>3 DEF NoLostWakeup
  <2>7. CASE NotifyAll
    <3>1. Asleep' = {}
      BY <2>7 DEF NotifyAll, Asleep, TypeOK
    <3>. QED
      BY <3>1
  <2>8. CASE RaiseStop \/ JoinAll \/ UNCHANGED vars
    <3>1. Asleep # {} /\ Ready' = Ready /\ Notifying' = Notifying /\ tasks' = tasks
      BY <2>8 DEF RaiseStop, JoinAll, vars, Asleep, Ready, Notifying
    <3>. QED
      BY <3>1 DEF NoLostWakeup
  <2>. QED
    BY <2>1, <2>2, <2>3, <2>4, <2>5, <2>6, <2>7, <2>8
    DEF Next, AddTask, WorkerStep, DestructorStep
<1>. QED
  BY <1>1, <1>2, TypeCorrect, PTL DEF SafeSpec
-----------------------------------------------------------------------------
(* Every task that was taken is with one worker or finished.               *)

\* A task at the head of the queue has not been taken before.
LEMMA HeadIsNew ==
  ASSUME TypeOK, StartsInOrder, AddedOnce, tasks # <<>>
  PROVE  Head(tasks) \notin RangeOf(started)
<1>1. /\ Len(started) \in Nat /\ Len(tasks) \in Nat \ {0}
      /\ DOMAIN started = 1 .. Len(started)
      /\ Len(submitted) = Len(started) + Len(tasks)
      /\ \A i \in 1 .. (Len(started) + Len(tasks)) :
           submitted[i] = IF i <= Len(started) THEN started[i] ELSE tasks[i - Len(started)]
  BY ConcatProperties, LenProperties, EmptySeq DEF TypeOK, StartsInOrder
<1>2. submitted[Len(started) + 1] = Head(tasks)
  BY <1>1
<1>3. ASSUME NEW i \in 1 .. Len(started), started[i] = Head(tasks)
      PROVE  FALSE
  <2>1. i \in 1 .. Len(submitted) /\ Len(started) + 1 \in 1 .. Len(submitted)
    BY <1>1
  <2>2. submitted[i] = started[i]
    BY <1>1, <2>1
  <2>3. i = Len(started) + 1
    BY <1>2, <1>3, <2>1, <2>2 DEF AddedOnce
  <2>. QED
    BY <1>1, <2>3
<1>. QED
  BY <1>1, <1>3 DEF RangeOf

OnceInv == AddedOnce /\ Accounted /\ Apart

\* So does the part that counts each task once.
LEMMA OnceKept == SafeSpec => []OnceInv
<1>1. Init => OnceInv
  <2>. SUFFICES ASSUME Init
                PROVE  OnceInv
    OBVIOUS
  <2>1. Running = {}
    BY DEF Init, Running
  <2>2. Len(submitted) = 0 /\ RangeOf(started) = {}
    BY EmptySeq DEF Init, RangeOf
  <2>. QED
    BY <2>1, <2>2 DEF Init, OnceInv, AddedOnce, Accounted, Apart
<1>2. TypeInv /\ StartsInOrder /\ OnceInv /\ [Next]_vars => OnceInv'
  <2>. SUFFICES ASSUME TypeInv, StartsInOrder, OnceInv, [Next]_vars
                PROVE  OnceInv'
    OBVIOUS
  <2>. USE DEF TypeInv
  <2>1. ASSUME NEW c \in Callers, NEW t \in Tasks, PushTask(c, t)
        PROVE  OnceInv'
    <3>1. AddedOnce'
      <4>1. /\ Len(submitted) \in Nat /\ DOMAIN submitted = 1 .. Len(submitted)
            /\ submitted' = Append(submitted, t)
            /\ Len(submitted') = Len(submitted) + 1
            /\ \A i \in 1 .. Len(submitted) : submitted'[i] = submitted[i]
            /\ submitted'[Len(submitted) + 1] = t
        BY <2>1, AppendProperties, LenProperties DEF PushTask, TypeOK
      <4>2. \A i \in 1 .. Len(submitted) : submitted[i] # t
        BY <2>1, <4>1 DEF PushTask, RangeOf
      <4>. QED
        BY <4>1, <4>2 DEF OnceInv, AddedOnce
    <3>2. Running' = Running /\ task' = task /\ started' = started /\ finished' = finished
      BY <2>1 DEF PushTask, Running
    <3>. QED
      BY <3>1, <3>2 DEF OnceInv, Accounted, Apart
  <2>2. ASSUME NEW w \in Workers, TakeTask(w)
        PROVE  OnceInv'
    <3>1. /\ Head(tasks) \in Tasks
          /\ RangeOf(started') = RangeOf(started) \cup {Head(tasks)}
      BY <2>2, HeadMoves, RangeAppend DEF TakeTask, TypeOK
    <3>2. Running' = Running \cup {w} /\ w \notin Running
      BY <2>2 DEF TakeTask, Running, TypeOK
    <3>3. /\ \A v \in Running : task'[v] = task[v]
          /\ task'[w] = Head(tasks)
      BY <2>2, <3>2 DEF TakeTask, Running, TypeOK
    <3>4. Accounted'
      BY <2>2, <3>1, <3>2, <3>3 DEF TakeTask, OnceInv, Accounted
    <3>5. \A v \in Running : task[v] # Head(tasks)
      BY <2>2, HeadIsNew DEF OnceInv, Accounted, TakeTask
    <3>6. Apart'
      BY <3>2, <3>3, <3>5 DEF OnceInv, Apart
    <3>. QED
      BY <2>2, <3>4, <3>6 DEF OnceInv, AddedOnce, TakeTask
  <2>3. ASSUME NEW w \in Workers, FinishTask(w)
        PROVE  OnceInv'
    <3>1. Running' = Running \ {w} /\ w \in Running
      BY <2>3 DEF FinishTask, Running, TypeOK
    <3>2. \A v \in Running \ {w} : task'[v] = task[v]
      BY <2>3 DEF FinishTask, Running, TypeOK
    <3>. QED
      BY <2>3, <3>1, <3>2 DEF FinishTask, OnceInv, Accounted, Apart, AddedOnce
  <2>4. ASSUME UNCHANGED <<submitted, started, finished, task>>, Running' = Running
        PROVE  OnceInv'
    BY <2>4 DEF OnceInv, Accounted, Apart, AddedOnce
  <2>5. ASSUME NEW c \in Callers, RefuseTask(c) \/ NotifyOne(c)
        PROVE  OnceInv'
    <3>1. Running' = Running
      BY <2>5 DEF RefuseTask, NotifyOne, Running, Asleep, TypeOK
    <3>. QED
      BY <2>4, <2>5, <3>1 DEF RefuseTask, NotifyOne
  <2>6. ASSUME NEW w \in Workers, Sleep(w) \/ Return(w) \/ SpuriousWake(w)
        PROVE  OnceInv'
    <3>1. Running' = Running
      BY <2>6 DEF Sleep, Return, SpuriousWake, Running, TypeOK
    <3>. QED
      BY <2>4, <2>6, <3>1 DEF Sleep, Return, SpuriousWake
  <2>7. CASE RaiseStop \/ NotifyAll \/ JoinAll \/ UNCHANGED vars
    <3>1. Running' = Running
      BY <2>7 DEF RaiseStop, NotifyAll, JoinAll, vars, Running, TypeOK
    <3>. QED
      BY <2>4, <2>7, <3>1 DEF RaiseStop, NotifyAll, JoinAll, vars
  <2>. QED
    BY <2>1, <2>2, <2>3, <2>5, <2>6, <2>7 DEF Next, AddTask, WorkerStep, DestructorStep
<1>. QED
  BY <1>1, <1>2, TypeKept, OrderKept, PTL DEF SafeSpec

(* When the destructor returns, everything that addTask accepted has run   *)
(* and nothing is left in the queue (threadpool.cpp 25-27, 56-66).         *)
THEOREM Drained == SafeSpec => []DrainedWhenDestroyed
<1>1. TypeInv /\ StartsInOrder /\ OnceInv /\ ShutdownInv => DrainedWhenDestroyed
  <2>. SUFFICES ASSUME TypeInv, StartsInOrder, OnceInv, ShutdownInv, dpc = "destroyed"
                PROVE  tasks = <<>> /\ finished = RangeOf(submitted)
    BY DEF DrainedWhenDestroyed
  <2>1. \A w \in Workers : wpc[w] = "returned"
    BY DEF ShutdownInv, AllGone
  <2>2. tasks = <<>>
    BY <2>1, WorkersAssumption DEF ShutdownInv, GoneForGood
  <2>3. finished = RangeOf(started)
    <3>1. Running = {}
      BY <2>1 DEF Running
    <3>. QED
      BY <3>1 DEF OnceInv, Accounted
  <2>4. submitted = started
    BY <2>2, ConcatEmptySeq DEF StartsInOrder, TypeInv, TypeOK
  <2>. QED
    BY <2>2, <2>3, <2>4
<1>. QED
  BY <1>1, TypeKept, OrderKept, OnceKept, ShutdownKept, PTL

-----------------------------------------------------------------------------
(* The pool is a task queue: each step of its workers, callers and its     *)
(* destructor is a step of TaskQueue or leaves the queue as it is.         *)
THEOREM Refinement == SafeSpec => Queue!SafeSpec
<1>. DEFINE IInv == TypeInv /\ StartsInOrder /\ OnceInv /\ ShutdownInv
            held == {task[w] : w \in Running}
            gone == dpc = "destroyed"
<1>. USE DEF Queue!Submit, Queue!Start, Queue!Finish, Queue!Destroy
<1>a. held = {task[w] : w \in {v \in Workers : wpc[v] = "running"}}
  BY DEF Running
<1>1. Init => Queue!Init
  <2>. SUFFICES ASSUME Init
                PROVE  Queue!Init
    OBVIOUS
  <2>1. {v \in Workers : wpc[v] = "running"} = {}
    BY DEF Init
  <2>. QED
    BY <2>1 DEF Init, Queue!Init
<1>2. IInv /\ [Next]_vars => [Queue!Next]_(Queue!vars)
  <2>. SUFFICES ASSUME IInv, [Next]_vars
                PROVE  Queue!Next \/ UNCHANGED Queue!vars
    OBVIOUS
  <2>. USE DEF TypeInv
  <2>0. Queue!Known = RangeOf(submitted)
    <3>1. RangeOf(submitted) = RangeOf(started) \cup RangeOf(tasks)
      BY RangeConcat DEF StartsInOrder, TypeOK
    <3>. QED
      BY <3>1, <1>a DEF Queue!Known, OnceInv, Accounted, RangeOf
  <2>1. ASSUME NEW c \in Callers, NEW t \in Tasks, PushTask(c, t)
        PROVE  Queue!Submit(t)
    BY <2>0, <2>1 DEF PushTask
  <2>2. ASSUME NEW w \in Workers, TakeTask(w)
        PROVE  Queue!Start
    <3>1. {v \in Workers : wpc'[v] = "running"} = Running \cup {w} /\ w \notin Running
      BY <2>2 DEF TakeTask, Running, TypeOK
    <3>2. (\A v \in Running : task'[v] = task[v]) /\ task'[w] = Head(tasks)
      BY <2>2, <3>1 DEF TakeTask, Running, TypeOK
    <3>3. {task'[v] : v \in Running \cup {w}} = held \cup {Head(tasks)}
      BY <3>2
    <3>. QED
      BY <2>2, <1>a, <3>1, <3>3 DEF TakeTask
  <2>3. ASSUME NEW w \in Workers, FinishTask(w)
        PROVE  task[w] \in Tasks /\ Queue!Finish(task[w])
    <3>1. {v \in Workers : wpc'[v] = "running"} = Running \ {w} /\ w \in Running
      BY <2>3 DEF FinishTask, Running, TypeOK
    <3>2. \A v \in Running \ {w} : task'[v] = task[v] /\ task[v] # task[w]
      BY <2>3, <3>1 DEF FinishTask, Running, TypeOK, OnceInv, Apart
    <3>3. {task'[v] : v \in Running \ {w}} = held \ {task[w]}
      BY <3>2
    <3>. QED
      BY <2>3, <1>a, <3>1, <3>3 DEF FinishTask
  <2>4. CASE JoinAll
    <3>1. {v \in Workers : wpc[v] = "running"} = {} /\ tasks = <<>>
      BY <2>4, WorkersAssumption DEF JoinAll, ShutdownInv, GoneForGood
    <3>. QED
      BY <2>4, <3>1 DEF JoinAll, Queue!Next
  <2>5. ASSUME UNCHANGED <<tasks, task, finished>>, Running' = Running, gone' = gone
        PROVE  UNCHANGED Queue!vars
    BY <2>5 DEF Queue!vars, Running
  <2>6. ASSUME NEW c \in Callers, RefuseTask(c) \/ NotifyOne(c)
        PROVE  UNCHANGED Queue!vars
    <3>1. Running' = Running
      BY <2>6 DEF RefuseTask, NotifyOne, Running, Asleep, TypeOK
    <3>. QED
      BY <2>5, <2>6, <3>1 DEF RefuseTask, NotifyOne
  <2>7. ASSUME NEW w \in Workers, Sleep(w) \/ Return(w) \/ SpuriousWake(w)
        PROVE  UNCHANGED Queue!vars
    <3>1. Running' = Running
      BY <2>7 DEF Sleep, Return, SpuriousWake, Running, TypeOK
    <3>. QED
      BY <2>5, <2>7, <3>1 DEF Sleep, Return, SpuriousWake
  <2>8. CASE RaiseStop \/ NotifyAll \/ UNCHANGED vars
    <3>1. Running' = Running /\ gone' = gone
      BY <2>8 DEF RaiseStop, NotifyAll, vars, Running, TypeOK
    <3>. QED
      BY <2>5, <2>8, <3>1 DEF RaiseStop, NotifyAll, vars
  <2>. QED
    BY <2>1, <2>2, <2>3, <2>4, <2>6, <2>7, <2>8
    DEF Next, AddTask, WorkerStep, DestructorStep, Queue!Next
<1>. QED
  BY <1>1, <1>2, TypeKept, OrderKept, OnceKept, ShutdownKept, PTL DEF SafeSpec, Queue!SafeSpec
=============================================================================
