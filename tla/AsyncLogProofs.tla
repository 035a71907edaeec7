--------------------------- MODULE AsyncLogProofs ---------------------------
(***************************************************************************)
(* Proofs about AsyncLog for any finite number of threads that log, any    *)
(* lines and any capacity of the queue.                                    *)
(***************************************************************************)
EXTENDS AsyncLog, TLAPS, FiniteSetTheorems, SequenceTheorems

(* Who is busy holds a line of its own; a log that is being destroyed has  *)
(* no producers left, its queue is empty from Close on, and its writer     *)
(* thread has returned when the file is closed.                            *)
BusyHasLine == \A p \in Producers : ppc[p] # "idle" => line[p] \in Lines
WriterHasLine == cpc = "write" => str \in Lines
NobodyLogs == dpc # "alive" => \A p \in Producers : ppc[p] = "idle"
NothingAfterClose == dpc \in {"notify", "join", "destroyed"} => deq = <<>>
WriterGone == dpc = "destroyed" => cpc = "returned"

Shape == BusyHasLine /\ WriterHasLine /\ NobodyLogs /\ NothingAfterClose /\ WriterGone

-----------------------------------------------------------------------------
(* Types and shape.                                                        *)

TypeInv == TypeOK /\ Shape

LEMMA InitType == Init => TypeInv
<1>. SUFFICES ASSUME Init PROVE TypeInv
  OBVIOUS
<1>1. deq \in Seq(Lines) /\ queued \in Seq(Lines) /\ written \in Seq(Lines)
  BY EmptySeq DEF Init
<1>2. TypeOK
  <2>1. Len(deq) <= capacity
    <3>1. Len(deq) = 0
      BY DEF Init
    <3>. QED
      BY <3>1, CapacityAssumption
  <2>. QED
    BY <1>1, <2>1 DEF Init, TypeOK
<1>3. Shape
  BY DEF Init, Shape, BusyHasLine, WriterHasLine, NobodyLogs, NothingAfterClose, WriterGone
<1>. QED
  BY <1>2, <1>3 DEF TypeInv

LEMMA NextType == TypeInv /\ [Next]_vars => TypeInv'
<1>. SUFFICES ASSUME TypeInv, [Next]_vars
              PROVE  TypeInv'
  OBVIOUS
<1>. USE DEF TypeInv, TypeOK, Shape, BusyHasLine, WriterHasLine, NobodyLogs,
            NothingAfterClose, WriterGone
<1>1. ASSUME NEW p \in Producers, NEW l \in Lines, AskFull(p, l)
      PROVE  TypeInv'
  BY <1>1 DEF AskFull
<1>2. ASSUME NEW p \in Producers, Push(p)
      PROVE  TypeInv'
  <2>1. line[p] \in Lines /\ dpc = "alive"
    BY <1>2 DEF Push
  <2>2. /\ Append(deq, line[p]) \in Seq(Lines) /\ Append(queued, line[p]) \in Seq(Lines)
        /\ Len(Append(deq, line[p])) = Len(deq) + 1
    BY <2>1, AppendProperties
  <2>3. Len(Append(deq, line[p])) <= capacity
    BY <1>2, <2>2, CapacityAssumption, LenProperties DEF Push, Full
  <2>. QED
    BY <1>2, <2>1, <2>2, <2>3 DEF Push, Queued, WakeConsumer
<1>3. ASSUME NEW p \in Producers, WaitForRoom(p)
      PROVE  TypeInv'
  BY <1>3 DEF WaitForRoom
<1>4. ASSUME NEW p \in Producers, WriteDirect(p)
      PROVE  TypeInv'
  BY <1>4 DEF WriteDirect
<1>5. CASE Pop
  <2>1. Head(deq) \in Lines /\ Tail(deq) \in Seq(Lines) /\ Len(Tail(deq)) = Len(deq) - 1
    BY <1>5, HeadTailProperties DEF Pop
  <2>2. Len(Tail(deq)) <= capacity
    BY <2>1, CapacityAssumption, LenProperties
  <2>3. dpc \notin {"notify", "join", "destroyed"}
    BY <1>5 DEF Pop
  <2>4. /\ ppc' \in [Producers -> {"idle", "push", "asleep", "direct"}]
        /\ \A p \in Producers : ppc'[p] = "idle" <=> ppc[p] = "idle"
    BY <1>5 DEF Pop, WakeProducer, AsleepProducers
  <2>. QED
    BY <1>5, <2>1, <2>2, <2>3, <2>4 DEF Pop
<1>6. CASE WaitForLines \/ Return
  BY <1>6 DEF WaitForLines, Return, Looking
<1>7. CASE WriteOut
  BY <1>7, AppendProperties DEF WriteOut
<1>8. CASE SpuriousWake
  BY <1>8 DEF SpuriousWake, AsleepProducers
<1>9. CASE Destroy
  BY <1>9 DEF Destroy
<1>10. CASE Flush \/ NotifyAll \/ Join
  BY <1>10 DEF Flush, NotifyAll, Join, WakeConsumer, WakeAll
<1>11. CASE Close
  BY <1>11 DEF Close, Drained
<1>12. CASE UNCHANGED vars
  BY <1>12 DEF vars
<1>. QED
  BY <1>1, <1>2, <1>3, <1>4, <1>5, <1>6, <1>7, <1>8, <1>9, <1>10, <1>11, <1>12
     DEF Next, ProducerStep, ConsumerStep, DestructorStep

LEMMA TypeKept == SafeSpec => []TypeInv
BY InitType, NextType, PTL DEF SafeSpec

(* The queue never holds more than max_queue_size lines, and every thread  *)
(* is where the code lets it be (block_queue.h 112-128, log.cpp 97-113).   *)
THEOREM TypeCorrect == Spec => []TypeOK
BY TypeKept, PTL DEF Spec, TypeInv

-----------------------------------------------------------------------------
(* The order of the queue is the order of the file.                        *)

(* A push puts the line behind all others, wherever these are by now.      *)
LEMMA PushedBehind ==
  ASSUME NEW S, NEW q \in Seq(S), NEW w \in Seq(S), NEW h \in Seq(S), NEW d \in Seq(S),
         NEW l \in S, q = w \o h \o d
  PROVE  Append(q, l) = w \o h \o Append(d, l)
<1>1. <<l>> \in Seq(S) /\ w \o h \in Seq(S) /\ (w \o h) \o d \in Seq(S)
  BY ConcatProperties
<1>2. Append(q, l) = q \o <<l>> /\ Append(d, l) = d \o <<l>>
  BY AppendIsConcat
<1>. QED
  BY <1>1, <1>2, ConcatAssociative, SMTT(30)

(* A line popped from the queue is the next one to be written.             *)
LEMMA HeadInHand ==
  ASSUME NEW S, NEW w \in Seq(S), NEW d \in Seq(S), d # <<>>
  PROVE  (w \o <<>>) \o d = (w \o <<Head(d)>>) \o Tail(d)
<1>1. Head(d) \in S /\ Tail(d) \in Seq(S)
  BY HeadTailProperties
<1>2. <<Head(d)>> \in Seq(S) /\ <<Head(d)>> \o Tail(d) = d
  BY <1>1
<1>3. w \o <<>> = w
  BY ConcatEmptySeq
<1>. QED
  BY <1>1, <1>2, <1>3, ConcatAssociative

LEMMA OrderNext == TypeInv /\ WrittenInOrder /\ [Next]_vars => WrittenInOrder'
<1>. SUFFICES ASSUME TypeInv, WrittenInOrder, [Next]_vars, fp'
              PROVE  (queued = written \o InHand \o deq)'
  BY DEF WrittenInOrder
<1>1. fp
  BY DEF Next, ProducerStep, ConsumerStep, DestructorStep, AskFull, Push, WaitForRoom,
         WriteDirect, Pop, WaitForLines, Return, WriteOut, SpuriousWake, Destroy, Flush,
         Close, NotifyAll, Join, vars
<1>2. queued = written \o InHand \o deq
  BY <1>1 DEF WrittenInOrder
<1>3. /\ queued \in Seq(Lines) /\ written \in Seq(Lines) /\ deq \in Seq(Lines)
      /\ InHand \in Seq(Lines)
  BY EmptySeq DEF TypeInv, TypeOK, Shape, WriterHasLine, InHand
<1>4. ASSUME NEW p \in Producers, Push(p)
      PROVE  (queued = written \o InHand \o deq)'
  <2>1. line[p] \in Lines
    BY <1>4 DEF Push, TypeInv, Shape, BusyHasLine
  <2>2. InHand' = InHand
    BY <1>4 DEF Push, WakeConsumer, InHand
  <2>3. Append(queued, line[p]) = written \o InHand \o Append(deq, line[p])
    BY <1>2, <1>3, <2>1, PushedBehind
  <2>. QED
    BY <1>4, <2>2, <2>3 DEF Push, Queued
<1>5. CASE Pop
  <2>1. InHand = <<>> /\ InHand' = <<Head(deq)>>
    BY <1>5 DEF Pop, Looking, InHand
  <2>2. (written \o <<>>) \o deq = (written \o <<Head(deq)>>) \o Tail(deq)
    BY <1>3, <1>5, HeadInHand DEF Pop
  <2>. QED
    BY <1>2, <1>5, <2>1, <2>2 DEF Pop
<1>6. CASE WriteOut
  <2>1. InHand = <<str>> /\ InHand' = <<>> /\ str \in Lines
    BY <1>6 DEF WriteOut, InHand, TypeInv, Shape, WriterHasLine
  <2>2. written' = written \o <<str>>
    BY <1>1, <1>3, <1>6, <2>1, AppendIsConcat DEF WriteOut
  <2>3. written' \in Seq(Lines) /\ written' \o <<>> = written'
    BY <1>1, <1>3, <1>6, <2>1, AppendProperties, ConcatEmptySeq DEF WriteOut
  <2>. QED
    BY <1>2, <1>6, <2>1, <2>2, <2>3 DEF WriteOut
<1>7. CASE Close
  BY <1>2, <1>7 DEF Close, Drained, InHand
<1>8. ASSUME UNCHANGED <<queued, written, deq>>, (cpc = "write") = (cpc' = "write"), str' = str
      PROVE  (queued = written \o InHand \o deq)'
  BY <1>2, <1>8 DEF InHand
<1>9. ASSUME NEW p \in Producers,
             WaitForRoom(p) \/ WriteDirect(p) \/ \E l \in Lines : AskFull(p, l)
      PROVE  (queued = written \o InHand \o deq)'
  BY <1>8, <1>9 DEF AskFull, WaitForRoom, WriteDirect
<1>10. CASE WaitForLines \/ Return \/ SpuriousWake
  BY <1>8, <1>10 DEF WaitForLines, Return, SpuriousWake, Looking
<1>11. CASE Destroy \/ Flush \/ NotifyAll \/ Join
  BY <1>8, <1>11 DEF Destroy, Flush, NotifyAll, Join, WakeConsumer, WakeAll
<1>12. CASE UNCHANGED vars
  BY <1>8, <1>12 DEF vars
<1>. QED
  BY <1>4, <1>5, <1>6, <1>7, <1>9, <1>10, <1>11, <1>12
     DEF Next, ProducerStep, ConsumerStep, DestructorStep

LEMMA OrderKept == SafeSpec => []WrittenInOrder
<1>1. Init => WrittenInOrder
  <2>. SUFFICES ASSUME Init PROVE WrittenInOrder
    OBVIOUS
  <2>1. <<>> \in Seq(Lines) /\ <<>> \o <<>> = <<>>
    BY EmptySeq, ConcatEmptySeq
  <2>. QED
    BY <2>1 DEF Init, WrittenInOrder, InHand
<1>. QED
  BY <1>1, OrderNext, TypeKept, PTL DEF SafeSpec

(* The lines that go through the queue are written once each and in the    *)
(* order in which they were queued (block_queue.h 122, 141-142).           *)
THEOREM QueueIsFileOrder == Spec => []WrittenInOrder
BY OrderKept, PTL DEF Spec

(* No line of the queue is missing when ~Log closes the file, though       *)
(* Close() clears the queue (log.cpp 7-11, block_queue.h 54-63).           *)
THEOREM AllIsWritten == Spec => []NothingLost
<1>1. TypeInv /\ WrittenInOrder => NothingLost
  <2>. SUFFICES ASSUME TypeInv, WrittenInOrder, fp, dpc = "destroyed"
                PROVE  queued = written
    BY DEF NothingLost
  <2>1. deq = <<>> /\ InHand = <<>> /\ written \in Seq(Lines)
    BY DEF TypeInv, TypeOK, Shape, NothingAfterClose, WriterGone, InHand
  <2>2. written \o <<>> = written
    BY <2>1, ConcatEmptySeq
  <2>. QED
    BY <2>1, <2>2 DEF WrittenInOrder
<1>. QED
  BY <1>1, TypeKept, OrderKept, PTL DEF Spec

-----------------------------------------------------------------------------
(* Wake-ups.                                                               *)

LEMMA PushingFinite ==
  IsFiniteSet(Pushing) /\ Cardinality(Pushing) \in Nat
<1>1. Pushing \in SUBSET Producers
  BY DEF Pushing
<1>. QED
  BY <1>1, ProducersAssumption, FS_Subset, FS_CardinalityType

(* A producer more, or one less, on its way to push.                       *)
LEMMA OneMorePushes ==
  ASSUME NEW p \in Producers, ppc[p] # "push",
         ppc \in [Producers -> {"idle", "push", "asleep", "direct"}],
         ppc' = [ppc EXCEPT ![p] = "push"]
  PROVE  Cardinality(Pushing') = Cardinality(Pushing) + 1
<1>1. Pushing' = Pushing \cup {p} /\ p \notin Pushing
  BY DEF Pushing
<1>. QED
  BY <1>1, PushingFinite, FS_AddElement

LEMMA OneLessPushes ==
  ASSUME NEW p \in Producers, ppc[p] = "push",
         ppc \in [Producers -> {"idle", "push", "asleep", "direct"}],
         ppc' = [ppc EXCEPT ![p] = "idle"]
  PROVE  Cardinality(Pushing') = Cardinality(Pushing) - 1
<1>1. Pushing' = Pushing \ {p} /\ p \in Pushing
  BY DEF Pushing
<1>. QED
  BY <1>1, PushingFinite, FS_RemoveElement

LEMMA WakeNext == TypeInv /\ NoLostWakeup /\ [Next]_vars => NoLostWakeup'
<1>. SUFFICES ASSUME TypeInv, NoLostWakeup, [Next]_vars
              PROVE  NoLostWakeup'
  OBVIOUS
<1>. DEFINE Room == (AsleepProducers # {} => Len(deq) + Cardinality(Pushing) >= capacity)
            Idle == (cpc = "asleep" => deq = <<>>)
<1>a. Room /\ Idle
  BY DEF NoLostWakeup
<1>b. /\ deq \in Seq(Lines) /\ Len(deq) \in Nat /\ capacity \in Nat
      /\ Cardinality(Pushing) \in Nat /\ Cardinality(Pushing)' \in Nat
  <2>1. Cardinality(Pushing)' \in Nat
    <3>1. (Cardinality(Pushing) \in Nat)'
      BY PushingFinite, PTL
    <3>. QED
      BY <3>1
  <2>. QED
    BY <2>1, PushingFinite, LenProperties, CapacityAssumption DEF TypeInv, TypeOK
<1>c. ppc \in [Producers -> {"idle", "push", "asleep", "direct"}]
  BY DEF TypeInv, TypeOK
<1>1. ASSUME NEW p \in Producers, NEW l \in Lines, AskFull(p, l)
      PROVE  NoLostWakeup'
  <2>1. CASE Full
    <3>1. Pushing' = Pushing /\ AsleepProducers' = AsleepProducers
      BY <1>c, <1>1, <2>1 DEF AskFull, Pushing, AsleepProducers
    <3>. QED
      BY <1>a, <1>1, <3>1 DEF AskFull, NoLostWakeup
  <2>2. CASE ~Full
    <3>1. Cardinality(Pushing') = Cardinality(Pushing) + 1
      BY <1>c, <1>1, <2>2, OneMorePushes DEF AskFull
    <3>2. AsleepProducers' = AsleepProducers
      BY <1>c, <1>1, <2>2 DEF AskFull, AsleepProducers
    <3>. QED
      BY <1>a, <1>b, <1>1, <3>1, <3>2 DEF AskFull, NoLostWakeup
  <2>. QED
    BY <2>1, <2>2
<1>2. ASSUME NEW p \in Producers, Push(p)
      PROVE  NoLostWakeup'
  <2>1. Cardinality(Pushing') = Cardinality(Pushing) - 1
    BY <1>c, <1>2, OneLessPushes DEF Push
  <2>2. AsleepProducers' = AsleepProducers
    BY <1>c, <1>2 DEF Push, AsleepProducers
  <2>3. Len(deq') = Len(deq) + 1
    BY <1>b, <1>2, AppendProperties DEF Push, Queued, TypeInv, Shape, BusyHasLine
  <2>4. cpc' # "asleep"
    BY <1>2 DEF Push, WakeConsumer
  <2>. QED
    BY <1>a, <1>b, <2>1, <2>2, <2>3, <2>4 DEF NoLostWakeup
<1>3. ASSUME NEW p \in Producers, WaitForRoom(p)
      PROVE  NoLostWakeup'
  BY <1>a, <1>b, <1>3 DEF WaitForRoom, Full, NoLostWakeup
<1>4. ASSUME NEW p \in Producers, WriteDirect(p)
      PROVE  NoLostWakeup'
  <2>1. Pushing' = Pushing /\ AsleepProducers' = AsleepProducers
    BY <1>c, <1>4 DEF WriteDirect, Pushing, AsleepProducers
  <2>. QED
    BY <1>a, <1>4, <2>1 DEF WriteDirect, NoLostWakeup
<1>5. CASE Pop
  <2>1. Len(deq') = Len(deq) - 1 /\ cpc' # "asleep"
    BY <1>b, <1>5, HeadTailProperties DEF Pop
  <2>2. ASSUME NEW p \in AsleepProducers, ppc' = [ppc EXCEPT ![p] = "push"]
        PROVE  NoLostWakeup'
    <3>1. Cardinality(Pushing') = Cardinality(Pushing) + 1
      BY <1>c, <2>2, OneMorePushes DEF AsleepProducers
    <3>. QED
      BY <1>a, <1>b, <2>1, <2>2, <3>1 DEF NoLostWakeup
  <2>3. CASE AsleepProducers = {} /\ UNCHANGED ppc
    BY <2>1, <2>3 DEF AsleepProducers, NoLostWakeup
  <2>. QED
    BY <1>5, <2>2, <2>3 DEF Pop, WakeProducer
<1>6. ASSUME UNCHANGED <<ppc, deq>>, cpc' = "asleep" => deq = <<>>
      PROVE  NoLostWakeup'
  <2>1. Pushing' = Pushing /\ AsleepProducers' = AsleepProducers
    BY <1>6 DEF Pushing, AsleepProducers
  <2>. QED
    BY <1>a, <1>6, <2>1 DEF NoLostWakeup
<1>7. CASE WaitForLines \/ Return \/ WriteOut
  BY <1>6, <1>7 DEF WaitForLines, Return, WriteOut
<1>8. CASE SpuriousWake
  <2>1. CASE UNCHANGED ppc
    BY <1>a, <1>6, <1>8, <2>1 DEF SpuriousWake
  <2>2. ASSUME NEW p \in AsleepProducers, ppc' = [ppc EXCEPT ![p] = "push"], UNCHANGED cpc
        PROVE  NoLostWakeup'
    <3>1. Cardinality(Pushing') = Cardinality(Pushing) + 1
      BY <1>c, <2>2, OneMorePushes DEF AsleepProducers
    <3>. QED
      BY <1>a, <1>b, <1>8, <2>2, <3>1 DEF SpuriousWake, NoLostWakeup
  <2>. QED
    BY <1>8, <2>1, <2>2 DEF SpuriousWake
<1>9. CASE Destroy \/ Flush \/ NotifyAll \/ Join
  BY <1>a, <1>6, <1>9 DEF Destroy, Flush, NotifyAll, Join, WakeConsumer, WakeAll
<1>10. CASE Close
  BY <1>a, <1>6, <1>10 DEF Close, Drained
<1>11. CASE UNCHANGED vars
  BY <1>a, <1>6, <1>11 DEF vars
<1>. QED
  BY <1>1, <1>2, <1>3, <1>4, <1>5, <1>7, <1>8, <1>9, <1>10, <1>11
     DEF Next, ProducerStep, ConsumerStep, DestructorStep

(* No thread sleeps on either condition variable of the queue without a    *)
(* reason to, or a notification on its way (block_queue.h 112-146).        *)
THEOREM WakeupsKept == Spec => []NoLostWakeup
<1>1. Init => NoLostWakeup
  BY DEF Init, NoLostWakeup, AsleepProducers
<1>. QED
  BY <1>1, WakeNext, TypeKept, PTL DEF Spec, SafeSpec
-----------------------------------------------------------------------------
(* The log is a task queue.                                                *)

\* The elements of a sequence and one more.
LEMMA RangeAppend ==
  ASSUME NEW S, NEW s \in Seq(S), NEW e \in S
  PROVE  RangeOf(Append(s, e)) = RangeOf(s) \cup {e}
<1>1. /\ Len(Append(s, e)) = Len(s) + 1
      /\ \A i \in 1 .. Len(s) : Append(s, e)[i] = s[i]
      /\ Append(s, e)[Len(s) + 1] = e
      /\ Append(s, e) \in Seq(S)
  BY AppendProperties
<1>2. Len(s) \in Nat /\ DOMAIN s = 1 .. Len(s) /\ DOMAIN Append(s, e) = 1 .. (Len(s) + 1)
  BY <1>1, LenProperties
<1>3. DOMAIN Append(s, e) = DOMAIN s \cup {Len(s) + 1}
  BY <1>2
<1>. QED
  BY <1>1, <1>2, <1>3 DEF RangeOf

\* The elements of two sequences in a row.
LEMMA RangeConcat ==
  ASSUME NEW S, NEW s \in Seq(S), NEW t \in Seq(S)
  PROVE  RangeOf(s \o t) = RangeOf(s) \cup RangeOf(t)
<1>1. /\ s \o t \in Seq(S)
      /\ Len(s \o t) = Len(s) + Len(t)
      /\ \A i \in 1 .. (Len(s) + Len(t)) :
           (s \o t)[i] = IF i <= Len(s) THEN s[i] ELSE t[i - Len(s)]
  BY ConcatProperties
<1>2. /\ Len(s) \in Nat /\ Len(t) \in Nat
      /\ DOMAIN s = 1 .. Len(s) /\ DOMAIN t = 1 .. Len(t)
      /\ DOMAIN (s \o t) = 1 .. (Len(s) + Len(t))
  BY <1>1, LenProperties
<1>3. RangeOf(s \o t) \subseteq RangeOf(s) \cup RangeOf(t)
  BY <1>1, <1>2 DEF RangeOf
<1>4. RangeOf(s) \subseteq RangeOf(s \o t)
  <2>. SUFFICES ASSUME NEW i \in 1 .. Len(s)
                PROVE  s[i] \in RangeOf(s \o t)
    BY <1>2 DEF RangeOf
  <2>1. i \in 1 .. (Len(s) + Len(t)) /\ (s \o t)[i] = s[i]
    BY <1>1, <1>2
  <2>. QED
    BY <2>1, <1>2 DEF RangeOf
<1>5. RangeOf(t) \subseteq RangeOf(s \o t)
  <2>. SUFFICES ASSUME NEW i \in 1 .. Len(t)
                PROVE  t[i] \in RangeOf(s \o t)
    BY <1>2 DEF RangeOf
  <2>1. i + Len(s) \in 1 .. (Len(s) + Len(t)) /\ (s \o t)[i + Len(s)] = t[i]
    BY <1>1, <1>2
  <2>. QED
    BY <2>1, <1>2 DEF RangeOf
<1>. QED
  BY <1>3, <1>4, <1>5

\* What is taken from a queue without repetitions is not in the rest of it.
LEMMA TakenIsGone ==
  ASSUME NEW S, NEW d \in Seq(S), d # <<>>,
         \A i, j \in DOMAIN d : d[i] = d[j] => i = j
  PROVE  /\ RangeOf(d) = {Head(d)} \cup RangeOf(Tail(d))
         /\ Head(d) \notin RangeOf(Tail(d))
         /\ \A i, j \in DOMAIN Tail(d) : Tail(d)[i] = Tail(d)[j] => i = j
<1>1. /\ Tail(d) \in Seq(S)
      /\ Len(Tail(d)) = Len(d) - 1
      /\ \A i \in 1 .. Len(Tail(d)) : Tail(d)[i] = d[i + 1]
  BY HeadTailProperties
<1>2. /\ Len(d) \in Nat \ {0} /\ DOMAIN d = 1 .. Len(d) /\ Head(d) = d[1]
      /\ DOMAIN Tail(d) = 1 .. (Len(d) - 1)
  BY <1>1, LenProperties, EmptySeq
<1>3. \A i \in DOMAIN Tail(d) : i + 1 \in DOMAIN d /\ i + 1 # 1 /\ Tail(d)[i] = d[i + 1]
  BY <1>1, <1>2
<1>4. \A k \in DOMAIN d : k = 1 \/ (k - 1 \in DOMAIN Tail(d) /\ d[k] = Tail(d)[k - 1])
  BY <1>1, <1>2
<1>5. 1 \in DOMAIN d
  BY <1>2
<1>6. RangeOf(d) = {Head(d)} \cup RangeOf(Tail(d))
  <2>1. RangeOf(d) \subseteq {Head(d)} \cup RangeOf(Tail(d))
    <3>. SUFFICES ASSUME NEW k \in DOMAIN d, k # 1
                  PROVE  d[k] \in RangeOf(Tail(d))
      BY <1>2 DEF RangeOf
    <3>1. k - 1 \in DOMAIN Tail(d) /\ d[k] = Tail(d)[k - 1]
      BY <1>4
    <3>. QED
      BY <3>1 DEF RangeOf
  <2>2. {Head(d)} \cup RangeOf(Tail(d)) \subseteq RangeOf(d)
    BY <1>2, <1>3, <1>5 DEF RangeOf
  <2>. QED
    BY <2>1, <2>2
<1>7. Head(d) \notin RangeOf(Tail(d))
  BY <1>2, <1>3, <1>5 DEF RangeOf
<1>8. ASSUME NEW i \in DOMAIN Tail(d), NEW j \in DOMAIN Tail(d), Tail(d)[i] = Tail(d)[j]
      PROVE  i = j
  <2>1. i + 1 = j + 1
    BY <1>3, <1>8
  <2>. QED
    BY <1>2, <2>1
<1>. QED
  BY <1>6, <1>7, <1>8

(* Who is busy holds a line that was not queued before and that nobody     *)
(* else holds; what waits or is being written was queued; and no line is   *)
(* twice among these.                                                      *)
Busy == {p \in Producers : ppc[p] # "idle"}
Fresh == \A p \in Busy : line[p] \notin RangeOf(queued) /\ \A q \in Busy \ {p} : line[q] # line[p]
Inside == RangeOf(deq) \cup RangeOf(InHand) \subseteq RangeOf(queued)
Apart ==
  /\ \A i, j \in DOMAIN deq : deq[i] = deq[j] => i = j
  /\ cpc = "write" => str \notin RangeOf(deq)

OnceInv == Fresh /\ Inside /\ Apart

\* What the writer thread has in its hand, as a set.
LEMMA Hand == RangeOf(InHand) = IF cpc = "write" THEN {str} ELSE {}
<1>1. RangeOf(<<str>>) = {str} /\ RangeOf(<<>>) = {}
  BY DEF RangeOf
<1>. QED
  BY <1>1 DEF InHand

\* Every step of the log keeps each line apart from the others.
LEMMA OnceNext == TypeInv /\ OnceInv /\ [Next]_vars => OnceInv'
<1>. SUFFICES ASSUME TypeInv, OnceInv, [Next]_vars
              PROVE  OnceInv'
  OBVIOUS
<1>a. /\ deq \in Seq(Lines) /\ queued \in Seq(Lines)
      /\ ppc \in [Producers -> {"idle", "push", "asleep", "direct"}]
      /\ line \in [Producers -> Lines \cup {NoLine}]
  BY DEF TypeInv, TypeOK
<1>b. Fresh /\ Inside /\ Apart
  BY DEF OnceInv
<1>1. ASSUME NEW p \in Producers, NEW l \in Lines, AskFull(p, l)
      PROVE  OnceInv'
  <2>1. Busy' = Busy \cup {p} /\ p \notin Busy
    BY <1>a, <1>1 DEF AskFull, Busy
  <2>2. l \notin RangeOf(queued) /\ \A q \in Producers : line[q] # l
    BY <1>1 DEF AskFull, Accepted
  <2>3. line'[p] = l /\ \A q \in Busy : line'[q] = line[q] /\ q \in Producers
    BY <1>a, <1>1, <2>1 DEF AskFull, Busy
  <2>4. Fresh'
    BY <1>b, <1>1, <2>1, <2>2, <2>3 DEF Fresh, AskFull
  <2>. QED
    BY <1>b, <1>1, <2>4 DEF AskFull, OnceInv, Inside, Apart, InHand
<1>2. ASSUME NEW p \in Producers, Push(p)
      PROVE  OnceInv'
  <2>1. line[p] \in Lines /\ p \in Busy
    BY <1>2 DEF Push, Busy, TypeInv, Shape, BusyHasLine
  <2>2. /\ RangeOf(deq') = RangeOf(deq) \cup {line[p]}
        /\ RangeOf(queued') = RangeOf(queued) \cup {line[p]}
    BY <1>a, <1>2, <2>1, RangeAppend DEF Push, Queued
  <2>3. Busy' = Busy \ {p} /\ \A q \in Busy \ {p} : line'[q] = line[q]
    BY <1>a, <1>2 DEF Push, Busy
  <2>4. Fresh'
    BY <1>b, <2>1, <2>2, <2>3 DEF Fresh
  <2>5. InHand' = InHand /\ (cpc' = "write" <=> cpc = "write") /\ str' = str
    BY <1>2 DEF Push, WakeConsumer, InHand
  <2>6. Inside'
    BY <1>b, <2>2, <2>5 DEF Inside
  <2>7. line[p] \notin RangeOf(deq) /\ (cpc = "write" => str # line[p])
    BY <1>b, <2>1, Hand DEF Fresh, Inside
  <2>8. \A i, j \in DOMAIN deq' : deq'[i] = deq'[j] => i = j
    <3>1. /\ deq' = Append(deq, line[p]) /\ Len(deq) \in Nat
          /\ DOMAIN deq = 1 .. Len(deq) /\ DOMAIN deq' = 1 .. (Len(deq) + 1)
          /\ \A i \in 1 .. Len(deq) : deq'[i] = deq[i] /\ deq[i] # line[p]
          /\ deq'[Len(deq) + 1] = line[p]
      BY <1>a, <1>2, <2>1, <2>7, AppendProperties, LenProperties DEF Push, Queued, RangeOf
    <3>. QED
      BY <1>b, <3>1 DEF Apart
  <2>9. Apart'
    BY <1>b, <2>2, <2>5, <2>7, <2>8 DEF Apart
  <2>. QED
    BY <2>4, <2>6, <2>9 DEF OnceInv
<1>3. ASSUME Busy' = Busy, UNCHANGED <<line, queued>>
      PROVE  Fresh'
  BY <1>b, <1>3 DEF Fresh
<1>4. CASE Pop
  <2>1. Busy' = Busy
    BY <1>a, <1>4 DEF Pop, WakeProducer, AsleepProducers, Busy
  <2>2. /\ RangeOf(deq) = {Head(deq)} \cup RangeOf(Tail(deq))
        /\ Head(deq) \notin RangeOf(Tail(deq))
        /\ \A i, j \in DOMAIN Tail(deq) : Tail(deq)[i] = Tail(deq)[j] => i = j
    BY <1>a, <1>b, <1>4, TakenIsGone, SMTT(30) DEF Pop, Apart
  <2>3. RangeOf(InHand)' = {Head(deq)}
    <3>1. (RangeOf(InHand) = IF cpc = "write" THEN {str} ELSE {})'
      BY Hand, PTL
    <3>. QED
      BY <1>4, <3>1 DEF Pop
  <2>4. Inside'
    BY <1>b, <1>4, <2>2, <2>3 DEF Inside, Pop
  <2>5. Apart'
    BY <1>4, <2>2 DEF Apart, Pop
  <2>. QED
    BY <1>3, <1>4, <2>1, <2>4, <2>5 DEF OnceInv, Pop
<1>5. CASE WriteOut
  <2>1. Busy' = Busy /\ RangeOf(InHand') = {} /\ cpc' # "write"
    BY <1>5 DEF WriteOut, Busy, InHand, RangeOf
  <2>. QED
    BY <1>b, <1>3, <1>5, <2>1 DEF OnceInv, WriteOut, Inside, Apart
<1>6. ASSUME UNCHANGED <<queued, deq, str>>, (cpc = "write") = (cpc' = "write"),
             Busy' \subseteq Busy, \A p \in Busy' : line'[p] = line[p]
      PROVE  OnceInv'
  BY <1>b, <1>6 DEF OnceInv, Fresh, Inside, Apart, InHand
<1>7. ASSUME NEW p \in Producers, WaitForRoom(p) \/ WriteDirect(p)
      PROVE  OnceInv'
  <2>1. Busy' \subseteq Busy /\ \A q \in Busy' : line'[q] = line[q]
    BY <1>a, <1>7 DEF WaitForRoom, WriteDirect, Busy
  <2>. QED
    BY <1>6, <1>7, <2>1 DEF WaitForRoom, WriteDirect
<1>8. CASE WaitForLines \/ Return \/ SpuriousWake
  <2>1. Busy' \subseteq Busy /\ line' = line
    BY <1>a, <1>8 DEF WaitForLines, Return, SpuriousWake, AsleepProducers, Busy
  <2>. QED
    BY <1>6, <1>8, <2>1 DEF WaitForLines, Return, SpuriousWake, Looking
<1>9. CASE Destroy \/ Flush \/ NotifyAll \/ Join
  <2>1. Busy' = Busy /\ line' = line
    BY <1>9 DEF Destroy, Flush, NotifyAll, Join, Busy
  <2>. QED
    BY <1>6, <1>9, <2>1 DEF Destroy, Flush, NotifyAll, Join, WakeConsumer, WakeAll
<1>10. CASE Close
  <2>1. Busy' = Busy /\ deq' = deq
    BY <1>10 DEF Close, Drained, Busy
  <2>. QED
    BY <1>6, <1>10, <2>1 DEF Close
<1>11. CASE UNCHANGED vars
  BY <1>6, <1>11 DEF vars, Busy
<1>. QED
  BY <1>1, <1>2, <1>4, <1>5, <1>7, <1>8, <1>9, <1>10, <1>11
     DEF Next, ProducerStep, ConsumerStep, DestructorStep

LEMMA OnceKept == SafeSpec => []OnceInv
<1>1. Init => OnceInv
  BY DEF Init, OnceInv, Fresh, Inside, Apart, Busy, InHand, RangeOf
<1>. QED
  BY <1>1, OnceNext, TypeKept, PTL DEF SafeSpec

\* What TaskQueue knows of is what was ever queued.
LEMMA KnownIsQueued ==
  ASSUME TypeInv, WrittenInOrder, OnceInv
  PROVE  Queue!Known = RangeOf(queued)
<1>1. /\ queued \in Seq(Lines) /\ written \in Seq(Lines) /\ deq \in Seq(Lines)
      /\ InHand \in Seq(Lines)
  BY EmptySeq DEF TypeInv, TypeOK, Shape, WriterHasLine, InHand
<1>2. Queue!Known = RangeOf(deq) \cup RangeOf(InHand) \cup Done
  BY DEF Queue!Known, RangeOf
<1>3. CASE fp
  <2>1. PICK through \in Seq(Lines) : through = written \o InHand
    BY <1>1, ConcatProperties
  <2>2. queued = through \o deq
    BY <1>3, <2>1 DEF WrittenInOrder
  <2>3. RangeOf(through) = RangeOf(written) \cup RangeOf(InHand)
    BY <1>1, <2>1, RangeConcat
  <2>4. RangeOf(queued) = RangeOf(through) \cup RangeOf(deq)
    BY <1>1, <2>2, RangeConcat
  <2>. QED
    BY <1>2, <1>3, <2>3, <2>4 DEF Done
<1>4. CASE ~fp
  <2>1. RangeOf(deq) \cup RangeOf(InHand) \subseteq RangeOf(queued)
    BY DEF OnceInv, Inside
  <2>. QED
    BY <1>2, <1>4, <2>1 DEF Done
<1>. QED
  BY <1>3, <1>4

(* The log's queue is a queue of tasks whatever its capacity and whoever   *)
(* logs: each step of a producer, of the writer thread or of ~Log is a     *)
(* step of TaskQueue or leaves it as it is (block_queue.h 54-63, 112-146,  *)
(* log.cpp 5-15, 48-55).                                                   *)
THEOREM Refinement == SafeSpec => Queue!SafeSpec
<1>. USE DEF Queue!Submit, Queue!Start, Queue!Finish, Queue!Destroy
<1>1. Init => Queue!Init
  BY DEF Init, Queue!Init, InHand, Done, RangeOf
<1>2. TypeInv /\ WrittenInOrder /\ OnceInv /\ [Next]_vars => [Queue!Next]_(Queue!vars)
  <2>. SUFFICES ASSUME TypeInv, WrittenInOrder, OnceInv, [Next]_vars
                PROVE  Queue!Next \/ UNCHANGED Queue!vars
    OBVIOUS
  <2>a. /\ deq \in Seq(Lines) /\ queued \in Seq(Lines) /\ written \in Seq(Lines)
        /\ fp' = fp
    BY DEF TypeInv, TypeOK, Next, ProducerStep, ConsumerStep, DestructorStep, AskFull, Push,
           WaitForRoom, WriteDirect, Pop, WaitForLines, Return, WriteOut, SpuriousWake,
           Destroy, Flush, Close, NotifyAll, Join, vars
  <2>b. Fresh /\ Inside /\ Apart
    BY DEF OnceInv
  <2>c. RangeOf(InHand)' = IF cpc' = "write" THEN {str'} ELSE {}
    <3>1. (RangeOf(InHand) = IF cpc = "write" THEN {str} ELSE {})'
      BY Hand, PTL
    <3>. QED
      BY <3>1
  <2>d. Done' = IF fp THEN RangeOf(written')
                ELSE RangeOf(queued') \ (RangeOf(deq') \cup RangeOf(InHand'))
    BY <2>a DEF Done
  <2>1. ASSUME NEW p \in Producers, Push(p)
        PROVE  Queue!Submit(line[p]) /\ line[p] \in Lines
    <3>1. line[p] \in Lines /\ p \in Busy /\ dpc = "alive"
      BY <2>1 DEF Push, Busy, TypeInv, Shape, BusyHasLine, NobodyLogs, TypeOK
    <3>2. line[p] \notin RangeOf(queued)
      BY <2>b, <3>1 DEF Fresh
    <3>3. RangeOf(InHand)' = RangeOf(InHand)
      BY <2>1, <2>c, Hand DEF Push, WakeConsumer
    <3>4. /\ RangeOf(deq') = RangeOf(deq) \cup {line[p]}
          /\ RangeOf(queued') = RangeOf(queued) \cup {line[p]}
      BY <2>a, <2>1, <3>1, RangeAppend DEF Push, Queued
    <3>5. Done' = Done
      <4>1. written' = written /\ RangeOf(InHand') = RangeOf(InHand)
        BY <2>1, <3>3 DEF Push
      <4>2. RangeOf(deq) \cup RangeOf(InHand) \subseteq RangeOf(queued)
        BY <2>b DEF Inside
      <4>. QED
        BY <2>d, <3>2, <3>4, <4>1, <4>2 DEF Done
    <3>. QED
      BY <2>1, <3>1, <3>2, <3>3, <3>5, KnownIsQueued DEF Push, Queued
  <2>2. CASE Pop
    <3>1. RangeOf(InHand) = {} /\ RangeOf(InHand)' = {Head(deq)}
      BY <2>2, <2>c, Hand DEF Pop, Looking
    <3>2. RangeOf(deq) = {Head(deq)} \cup RangeOf(Tail(deq))
      BY <2>a, <2>b, <2>2, TakenIsGone, SMTT(30) DEF Pop, Apart
    <3>3. Done' = Done
      <4>1. /\ written' = written /\ queued' = queued
            /\ RangeOf(deq') = RangeOf(Tail(deq)) /\ RangeOf(InHand') = {Head(deq)}
        BY <2>2, <3>1 DEF Pop
      <4>. QED
        BY <2>d, <3>1, <3>2, <4>1 DEF Done
    <3>. QED
      BY <2>2, <3>1, <3>3 DEF Pop, Queue!Next
  <2>3. CASE WriteOut
    <3>1. RangeOf(InHand) = {str} /\ RangeOf(InHand)' = {} /\ str \in Lines
      BY <2>3, <2>c, Hand DEF WriteOut, TypeInv, Shape, WriterHasLine
    <3>2. fp => RangeOf(written') = RangeOf(written) \cup {str}
      BY <2>a, <2>3, <3>1, RangeAppend DEF WriteOut
    <3>3. str \notin RangeOf(deq) /\ str \in RangeOf(queued)
      BY <2>b, <2>3, <3>1 DEF WriteOut, Apart, Inside
    <3>4. Done' = Done \cup {str}
      BY <2>a, <2>3, <3>1, <3>2, <3>3 DEF Done, WriteOut
    <3>5. Queue!Finish(str)
      BY <2>3, <3>1, <3>4 DEF WriteOut
    <3>. QED
      BY <3>1, <3>5 DEF Queue!Next
  <2>4. CASE Join
    <3>1. deq = <<>> /\ RangeOf(InHand) = {} /\ RangeOf(InHand)' = {}
      BY <2>4, <2>c, Hand DEF Join, TypeInv, Shape, NothingAfterClose
    <3>2. Done' = Done
      BY <2>a, <2>4, <3>1 DEF Done, Join
    <3>. QED
      BY <2>4, <3>1, <3>2 DEF Join, Queue!Next
  <2>5. ASSUME UNCHANGED <<deq, queued, written, str>>, (cpc = "write") = (cpc' = "write"),
               (dpc = "destroyed") = (dpc' = "destroyed")
        PROVE  UNCHANGED Queue!vars
    <3>1. RangeOf(InHand)' = RangeOf(InHand)
      BY <2>5, <2>c, Hand
    <3>2. Done' = Done
      BY <2>a, <2>5, <3>1 DEF Done
    <3>. QED
      BY <2>5, <3>1, <3>2 DEF Queue!vars
  <2>6. ASSUME NEW p \in Producers,
               WaitForRoom(p) \/ WriteDirect(p) \/ \E l \in Lines : AskFull(p, l)
        PROVE  UNCHANGED Queue!vars
    BY <2>5, <2>6 DEF AskFull, WaitForRoom, WriteDirect
  <2>7. CASE WaitForLines \/ Return \/ SpuriousWake
    BY <2>5, <2>7 DEF WaitForLines, Return, SpuriousWake, Looking
  <2>8. CASE Destroy \/ Flush \/ NotifyAll
    BY <2>5, <2>8 DEF Destroy, Flush, NotifyAll, WakeConsumer, WakeAll
  <2>9. CASE Close
    BY <2>5, <2>9 DEF Close, Drained
  <2>10. CASE UNCHANGED vars
    BY <2>5, <2>10 DEF vars
  <2>. QED
    BY <2>1, <2>2, <2>3, <2>4, <2>6, <2>7, <2>8, <2>9, <2>10
       DEF Next, ProducerStep, ConsumerStep, DestructorStep, Queue!Next
<1>. QED
  BY <1>1, <1>2, TypeKept, OrderKept, OnceKept, PTL DEF SafeSpec, Queue!SafeSpec
=============================================================================
