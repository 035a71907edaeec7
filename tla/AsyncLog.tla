------------------------------ MODULE AsyncLog ------------------------------
(***************************************************************************)
(* src/src/log: threads of the server write lines into a bounded queue, a  *)
(* writer thread takes them to the file, and a line that finds the queue   *)
(* full is written by its own thread.                                      *)
(*                                                                         *)
(* BlockQueue's critical sections and those of Log::mtx_ are one action    *)
(* each; what matters is that full() and push() are two of them, and that  *)
(* pop() and the writing of what it returned are two more.  A condition    *)
(* variable is the set of threads asleep on it.  A line's text, time and   *)
(* level do not matter here, nor does the copy that goes to stdout.        *)
(***************************************************************************)
EXTENDS Naturals, Sequences, FiniteSets

CONSTANTS
  Producers,        \* the threads that log
  Lines,            \* the lines they log, each of them once
  NoLine,
  capacity          \* max_queue_size of Log::init

ASSUME ProducersAssumption == IsFiniteSet(Producers)
ASSUME CapacityAssumption == capacity \in Nat \ {0}
ASSUME NoLineAssumption == NoLine \notin Lines

VARIABLES
  deq,              \* BlockQueue::deq_
  isClose,
  ppc,              \* where each producer is in Log::write
  line,             \* the line it is writing
  cpc,              \* where the writer thread is in AsyncWrite_
  str,              \* the line it has popped
  dpc,              \* where ~Log is
  fp,               \* whether fopen succeeded
  queued,           \* history: lines in the order they were queued
  written,          \* history: lines in the order the writer thread wrote them
  direct            \* history: lines written by their own threads

vars == <<deq, isClose, ppc, line, cpc, str, dpc, fp, queued, written, direct>>

RangeOf(s) == {s[i] : i \in DOMAIN s}

Init ==
  /\ deq = <<>>
  /\ isClose = FALSE
  /\ ppc = [p \in Producers |-> "idle"]
  /\ line = [p \in Producers |-> NoLine]
  /\ cpc = "pop"
  /\ str = NoLine
  /\ dpc = "alive"
  /\ fp \in BOOLEAN
  /\ queued = <<>>
  /\ written = <<>>
  /\ direct = {}

-----------------------------------------------------------------------------
(* BlockQueue.                                                             *)

\* Seeded bug: the queue is full when it holds one line too many.
FullLate == Len(deq) > capacity

Full == Len(deq) >= capacity

\* Seeded bug: the newest line is put at the front.
QueuedInFront(l) == <<l>> \o deq

Queued(l) == Append(deq, l)

\* Seeded bug: the consumer is told only of a queue that is about to be full.
WakeConsumerWhenFull ==
  cpc' = IF cpc = "asleep" /\ Len(deq) + 1 >= capacity THEN "woken" ELSE cpc

\* notify_one on condConsumer_, where only the writer thread ever sleeps.
WakeConsumer == cpc' = IF cpc = "asleep" THEN "woken" ELSE cpc

AsleepProducers == {p \in Producers : ppc[p] = "asleep"}

\* Seeded bug: nobody who waits for room is told of it.
WakeNobody == UNCHANGED ppc

\* notify_one on condProducer_
WakeProducer ==
  \/ \E p \in AsleepProducers : ppc' = [ppc EXCEPT ![p] = "push"]
  \/ AsleepProducers = {} /\ UNCHANGED ppc

\* The C++ standard lets wait return without a notification.
SpuriousWake ==
  /\ \/ cpc = "asleep" /\ cpc' = "woken" /\ UNCHANGED ppc
     \/ UNCHANGED cpc /\ \E p \in AsleepProducers : ppc' = [ppc EXCEPT ![p] = "push"]
  /\ UNCHANGED <<deq, isClose, line, str, dpc, fp, queued, written, direct>>

-----------------------------------------------------------------------------
(* Log::write                                                              *)

Accepted == RangeOf(queued) \cup direct \cup {line[p] : p \in Producers}

\* deq_->full() decides; its lock is released again before push takes it.
AskFull(p, l) ==
  /\ dpc = "alive"
  /\ ppc[p] = "idle"
  /\ l \notin Accepted
  /\ line' = [line EXCEPT ![p] = l]
  /\ ppc' = [ppc EXCEPT ![p] = IF Full THEN "direct" ELSE "push"]
  /\ UNCHANGED <<deq, isClose, cpc, str, dpc, fp, queued, written, direct>>

Push(p) ==
  /\ ppc[p] = "push"
  /\ ~Full
  /\ deq' = Queued(line[p])
  /\ queued' = Append(queued, line[p])
  /\ WakeConsumer
  /\ ppc' = [ppc EXCEPT ![p] = "idle"]
  /\ line' = [line EXCEPT ![p] = NoLine]
  /\ UNCHANGED <<isClose, str, dpc, fp, written, direct>>

\* Somebody was faster: push waits on condProducer_.
WaitForRoom(p) ==
  /\ ppc[p] = "push"
  /\ Full
  /\ ppc' = [ppc EXCEPT ![p] = "asleep"]
  /\ UNCHANGED <<deq, isClose, line, cpc, str, dpc, fp, queued, written, direct>>

\* The queue was full: fputs under Log::mtx_, if there is a file.
WriteDirect(p) ==
  /\ ppc[p] = "direct"
  /\ direct' = IF fp THEN direct \cup {line[p]} ELSE direct
  /\ ppc' = [ppc EXCEPT ![p] = "idle"]
  /\ line' = [line EXCEPT ![p] = NoLine]
  /\ UNCHANGED <<deq, isClose, cpc, str, dpc, fp, queued, written>>

-----------------------------------------------------------------------------
(* AsyncWrite_, around BlockQueue::pop.  "pop": about to enter it; "woken":*)
(* back from its wait, where isClose_ is tested, and nowhere else.         *)

Looking == cpc = "pop" \/ (cpc = "woken" /\ ~isClose)

Pop ==
  /\ Looking
  /\ deq # <<>>
  /\ str' = Head(deq)
  /\ deq' = Tail(deq)
  /\ cpc' = "write"
  /\ WakeProducer
  /\ UNCHANGED <<isClose, line, dpc, fp, queued, written, direct>>

WaitForLines ==
  /\ Looking
  /\ deq = <<>>
  /\ cpc' = "asleep"
  /\ UNCHANGED <<deq, isClose, ppc, line, str, dpc, fp, queued, written, direct>>

Return ==
  /\ cpc = "woken"
  /\ isClose
  /\ cpc' = "returned"
  /\ UNCHANGED <<deq, isClose, ppc, line, str, dpc, fp, queued, written, direct>>

WriteOut ==
  /\ cpc = "write"
  /\ written' = IF fp THEN Append(written, str) ELSE written
  /\ str' = NoLine
  /\ cpc' = "pop"
  /\ UNCHANGED <<deq, isClose, ppc, line, dpc, fp, queued, direct>>

-----------------------------------------------------------------------------
(* ~Log runs when main has returned: the other threads have been joined.   *)

Destroy ==
  /\ dpc = "alive"
  /\ \A p \in Producers : ppc[p] = "idle"
  /\ dpc' = "drain"
  /\ UNCHANGED <<deq, isClose, ppc, line, cpc, str, fp, queued, written, direct>>

\* deq_->empty()
Drained == deq = <<>>

\* while(!deq_->empty()) deq_->flush();
Flush ==
  /\ dpc = "drain"
  /\ ~Drained
  /\ WakeConsumer
  /\ UNCHANGED <<deq, isClose, ppc, line, str, dpc, fp, queued, written, direct>>

\* The critical section of Close() clears the queue.
Close ==
  /\ dpc = "drain"
  /\ Drained
  /\ deq' = <<>>
  /\ isClose' = TRUE
  /\ dpc' = "notify"
  /\ UNCHANGED <<ppc, line, cpc, str, fp, queued, written, direct>>

\* Seeded bug: Close() wakes the producers alone.
WakeProducersAlone == UNCHANGED cpc

\* notify_all, twice; no producer is left to be asleep.
WakeAll == WakeConsumer

NotifyAll ==
  /\ dpc = "notify"
  /\ WakeAll
  /\ dpc' = "join"
  /\ UNCHANGED <<deq, isClose, ppc, line, str, fp, queued, written, direct>>

\* Seeded bug: the file is closed without waiting for the writer thread.
JoinNobody ==
  /\ dpc = "join"
  /\ dpc' = "destroyed"
  /\ UNCHANGED <<deq, isClose, ppc, line, cpc, str, fp, queued, written, direct>>

Join ==
  /\ dpc = "join"
  /\ cpc = "returned"
  /\ dpc' = "destroyed"
  /\ UNCHANGED <<deq, isClose, ppc, line, cpc, str, fp, queued, written, direct>>

-----------------------------------------------------------------------------
ProducerStep(p) == Push(p) \/ WaitForRoom(p) \/ WriteDirect(p)
ConsumerStep == Pop \/ WaitForLines \/ Return \/ WriteOut
DestructorStep == Flush \/ Close \/ NotifyAll \/ Join

Next ==
  \/ \E p \in Producers : ProducerStep(p) \/ \E l \in Lines : AskFull(p, l)
  \/ ConsumerStep
  \/ SpuriousWake
  \/ Destroy
  \/ DestructorStep

SafeSpec == Init /\ [][Next]_vars

\* Threads are scheduled; nobody has to log, nor the process to end, and no
\* wake-up may be counted on to be spurious.
Fairness ==
  /\ \A p \in Producers : WF_vars(ProducerStep(p))
  /\ WF_vars(ConsumerStep)
  /\ WF_vars(DestructorStep)

Spec == SafeSpec /\ Fairness

-----------------------------------------------------------------------------
\* The queue never outgrows its capacity.
TypeOK ==
  /\ deq \in Seq(Lines)
  /\ Len(deq) <= capacity
  /\ isClose \in BOOLEAN
  /\ ppc \in [Producers -> {"idle", "push", "asleep", "direct"}]
  /\ line \in [Producers -> Lines \cup {NoLine}]
  /\ cpc \in {"pop", "asleep", "woken", "write", "returned"}
  /\ str \in Lines \cup {NoLine}
  /\ dpc \in {"alive", "drain", "notify", "join", "destroyed"}
  /\ fp \in BOOLEAN
  /\ queued \in Seq(Lines)
  /\ written \in Seq(Lines)
  /\ direct \in SUBSET Lines

Pushing == {p \in Producers : ppc[p] = "push"}

(* No wake-up is lost on either side of the queue (block_queue.h 117-146): *)
(* while a producer waits for room, the queue is full or enough others are *)
(* on their way to fill it, and each pop will wake one; while the writer   *)
(* sleeps there is nothing to write.                                       *)
NoLostWakeup ==
  /\ AsleepProducers # {} => Len(deq) + Cardinality(Pushing) >= capacity
  /\ cpc = "asleep" => deq = <<>>

InHand == IF cpc = "write" THEN <<str>> ELSE <<>>

(* The lines that go through the queue reach the file once each and in the *)
(* order of the queue (block_queue.h 122, 141-142; log.cpp 48-55).         *)
WrittenInOrder == fp => queued = written \o InHand \o deq

(* When ~Log closes the file, every line ever logged is in it (log.cpp     *)
(* 7-11): closing clears the queue, and must find nothing there.           *)
NothingLost ==
  fp /\ dpc = "destroyed" => RangeOf(queued) = RangeOf(written)

(* Every line that a thread logs gets into the file, whether it went       *)
(* through the queue, waited for room or went its own way.                 *)
EveryLineWritten ==
  \A l \in Lines : fp /\ l \in Accepted ~> l \in RangeOf(written) \cup direct

(* "唤醒所有正在沉睡的线程，让它们体面地退出" (block_queue.h 61): a writer thread  *)
(* that is asleep when Close has set its flag, or falls asleep before it   *)
(* notifies, lets ~Log return.  One that is still busy with a line then    *)
(* may come back too late, sleep, and be waited for without end: pop tests *)
(* isClose_ after a wait only (block_queue.h 134-139).                     *)
SleeperIsReleased ==
  dpc = "notify" /\ cpc \in {"asleep", "woken"} ~> dpc = "destroyed"

\* What the writer thread is through with: in the file, if there is one.
Done ==
  IF fp THEN RangeOf(written) ELSE RangeOf(queued) \ (RangeOf(deq) \cup RangeOf(InHand))

Queue == INSTANCE TaskQueue WITH
  Tasks <- Lines,
  pending <- deq,
  running <- RangeOf(InHand),
  finished <- Done,
  destroyed <- dpc = "destroyed"

(* With its bound, its two condition variables and the way around it when  *)
(* it is full, the queue of lines is still what the queue of tasks is      *)
(* (block_queue.h 112-146, log.cpp 48-55): each line that goes into it is  *)
(* taken once, in its turn, and written; and ~Log waits for the last.      *)
ImplementsTaskQueue == Queue!Spec
=============================================================================
