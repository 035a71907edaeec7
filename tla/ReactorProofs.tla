--------------------------- MODULE ReactorProofs ---------------------------
(***************************************************************************)
(* Proofs about Reactor for any number of connections, workers,            *)
(* sub-reactors and descriptors, any timeout and any length of responses:  *)
(* its types, that no connection is ever left disarmed with nobody to arm  *)
(* it again, and that no watched connection loses its deadline.            *)
(***************************************************************************)
EXTENDS Reactor, TLAPS, SequenceTheorems

-----------------------------------------------------------------------------
(* Types.                                                                  *)

\* What the bounds and the model values mean, as facts.
LEMMA Bounds ==
  /\ SUB_REACTOR_NUM \in Nat /\ SUB_REACTOR_NUM > 0
  /\ MaxFd \in Nat /\ MaxFd > 0
  /\ TIMEOUT_MS \in Nat /\ TIMEOUT_MS > 0
  /\ MaxSends \in Nat
  /\ Chunks \in Nat /\ Chunks > 0
  /\ ClientFds \subseteq Fds
  /\ 0 \in Fds /\ 0 \notin ClientFds
  /\ Reactors \subseteq Nat /\ 0 \in Reactors
  /\ NoReactor \notin Reactors
BY ReactorsAssumption, FdsAssumption, TimeoutAssumption, BoundsAssumption
DEF ClientFds, Fds, Reactors, NoReactor

\* close() leaves the kernel's tables well formed.
LEMMA CloseTypes ==
  ASSUME TypeOK, NEW fds, Close(fds)
  PROVE  /\ phase' \in [Conns -> {"new", "backlog", "open", "closed"}]
         /\ fdTable' \in [Fds -> Conns \cup {Free, Stdin, File}]
         /\ epollOf' \in [Conns -> Reactors \cup {NoReactor}]
BY DEF Close, TypeOK

\* So do the two ways in which the masks are set.
LEMMA ArmTypes ==
  ASSUME TypeOK
  PROVE  /\ KeepArmed => mask' \in [Conns -> {"off", "in", "out"}]
         /\ \A r, f, ev : ev \in {"in", "out"} /\ Rearm(r, f, ev)
                            => mask' \in [Conns -> {"off", "in", "out"}]
BY DEF KeepArmed, Rearm, TypeOK

\* And the slot that has read what its socket held.
LEMMA DrainedTypes ==
  ASSUME TypeOK, NEW f \in ClientFds, NEW c \in Conns
  PROVE  Drained(f, c) \in Slot
<1>1. users[f] \in Slot
  BY DEF TypeOK
<1>2. (users[f].whole \/ inbox[c] = "whole") \in BOOLEAN
  BY <1>1 DEF Slot
<1>. QED
  BY <1>1, <1>2 DEF Drained, Slot

\* A slot after init(), or before the first one, is a slot.
LEMMA SweptTypes == Swept \in Slot /\ Unborn \in Slot
<1>1. 0 \in 0 .. Chunks /\ 0 \in Fds /\ FALSE \in BOOLEAN
  BY Bounds
<1>. QED
  BY <1>1 DEF Swept, Unborn, Slot

\* What else is done to a slot.
LEMMA SlotTypes ==
  ASSUME NEW s \in Slot
  PROVE  /\ [s EXCEPT !.m_file_fd = NoFd] \in Slot
         /\ [s EXCEPT !.bytes_to_send = 0, !.m_file_fd = NoFd] \in Slot
         /\ \A n \in 0 .. Chunks : [s EXCEPT !.bytes_to_send = n] \in Slot
         /\ [s EXCEPT !.from = NoConn, !.whole = FALSE] \in Slot
         /\ \A c \in Conns \cup {NoConn} :
              /\ [s EXCEPT !.answers = c, !.bytes_to_send = Chunks] \in Slot
              /\ \A g \in Fds : [s EXCEPT !.answers = c, !.bytes_to_send = Chunks,
                                          !.m_file_fd = g] \in Slot
<1>1. 0 \in 0 .. Chunks /\ Chunks \in 0 .. Chunks
  BY Bounds
<1>. DEFINE N == 0 .. Chunks
<1>2. Slot = [from : Conns \cup {NoConn}, whole : BOOLEAN, answers : Conns \cup {NoConn},
              bytes_to_send : N, m_file_fd : Fds \cup {NoFd}]
  BY DEF Slot
<1>. HIDE DEF N
<1>3. [s EXCEPT !.m_file_fd = NoFd] \in Slot
  BY <1>2
<1>4. [s EXCEPT !.bytes_to_send = 0, !.m_file_fd = NoFd] \in Slot
  BY <1>1, <1>2 DEF N
<1>5. \A n \in N : [s EXCEPT !.bytes_to_send = n] \in Slot
  BY <1>2
<1>6. [s EXCEPT !.from = NoConn, !.whole = FALSE] \in Slot
  BY <1>2
<1>7. \A c \in Conns \cup {NoConn} : [s EXCEPT !.answers = c, !.bytes_to_send = Chunks] \in Slot
  BY <1>1, <1>2 DEF N
<1>8. \A c \in Conns \cup {NoConn}, g \in Fds :
        [s EXCEPT !.answers = c, !.bytes_to_send = Chunks, !.m_file_fd = g] \in Slot
  BY <1>1, <1>2 DEF N
<1>. QED
  BY <1>3, <1>4, <1>5, <1>6, <1>7, <1>8 DEF N

\* local_timer.add, and an entry that goes.
LEMMA DeadlineTypes ==
  ASSUME TypeOK, NEW r \in Reactors, NEW f \in ClientFds
  PROVE  /\ Watch(r, f) => /\ expires' \in [Reactors -> [ClientFds -> 0 .. TIMEOUT_MS \cup {NoDeadline}]]
                           /\ watched' \in SUBSET Conns
         /\ [expires EXCEPT ![r][f] = NoDeadline]
              \in [Reactors -> [ClientFds -> 0 .. TIMEOUT_MS \cup {NoDeadline}]]
<1>1. \A d \in 0 .. TIMEOUT_MS \cup {NoDeadline} :
        [expires EXCEPT ![r][f] = d] \in [Reactors -> [ClientFds -> 0 .. TIMEOUT_MS \cup {NoDeadline}]]
  BY DEF TypeOK
<1>2. TIMEOUT_MS \in 0 .. TIMEOUT_MS
  BY Bounds
<1>. DEFINE D == 0 .. TIMEOUT_MS \cup {NoDeadline}
<1>3. watched \in SUBSET Conns
  BY DEF TypeOK
<1>. HIDE DEF D
<1>4. Watch(r, f) => expires' \in [Reactors -> [ClientFds -> D]] /\ watched' \in SUBSET Conns
  BY <1>1, <1>2, <1>3 DEF Watch, D
<1>. QED
  BY <1>1, <1>4 DEF D

\* An event taken from the batch.
LEMMA HandlingTypes ==
  ASSUME TypeOK, NEW r \in Reactors, NEW f \in ClientFds, NEW ev, Handling(r, f, ev)
  PROVE  events' \in [Reactors -> [ClientFds -> {"none", "hup", "in", "out", "recv"}]]
BY DEF Handling, TypeOK

\* What recv leaves in the slot and in the socket.
LEMMA ReceiveTypes ==
  ASSUME TypeOK, NEW f \in ClientFds
  PROVE  /\ Receive(f) => /\ users' \in [ClientFds -> Slot]
                          /\ inbox' \in [Conns -> {"none", "part", "whole"}]
         /\ \A c \in Conns :
              /\ [users EXCEPT ![f] = Drained(f, c)] \in [ClientFds -> Slot]
              /\ [inbox EXCEPT ![c] = "none"] \in [Conns -> {"none", "part", "whole"}]
<1>1. \A c \in Conns : Drained(f, c) \in Slot
  BY DrainedTypes
<1>2. \A c \in Conns :
        /\ [users EXCEPT ![f] = Drained(f, c)] \in [ClientFds -> Slot]
        /\ [inbox EXCEPT ![c] = "none"] \in [Conns -> {"none", "part", "whole"}]
  BY <1>1, ZenonT(60) DEF TypeOK
<1>3. UNCHANGED <<users, inbox>> => /\ users' \in [ClientFds -> Slot]
                                   /\ inbox' \in [Conns -> {"none", "part", "whole"}]
  BY DEF TypeOK
<1>4. CASE fdTable[f] \in Conns
  <2>1. Receive(f) => /\ users' = [users EXCEPT ![f] = Drained(f, fdTable[f])]
                      /\ inbox' = [inbox EXCEPT ![fdTable[f]] = "none"]
    BY <1>4 DEF Receive
  <2>. QED
    BY <1>2, <1>4, <2>1
<1>5. CASE fdTable[f] \notin Conns
  BY <1>2, <1>3, <1>5 DEF Receive
<1>. QED
  BY <1>4, <1>5

\* Either way for read() to return.
LEMMA ReadReturnsTypes ==
  ASSUME TypeOK, NEW r \in Reactors, NEW f \in ClientFds, ReadReturns(r, f)
  PROVE  /\ tasks' \in Seq(Task)
         /\ phase' \in [Conns -> {"new", "backlog", "open", "closed"}]
         /\ fdTable' \in [Fds -> Conns \cup {Free, Stdin, File}]
         /\ epollOf' \in [Conns -> Reactors \cup {NoReactor}]
         /\ mask' \in [Conns -> {"off", "in", "out"}]
<1>1. <<f, r>> \in Task
  BY DEF Task
<1>2. CASE tasks' = Append(tasks, <<f, r>>) /\ UNCHANGED kernelVars
  BY <1>1, <1>2, AppendProperties DEF kernelVars, TypeOK
<1>3. CASE Close({f}) /\ KeepArmed /\ UNCHANGED tasks
  BY <1>3, CloseTypes, ArmTypes DEF TypeOK
<1>. QED
  BY <1>2, <1>3 DEF ReadReturns

\* The server starts well typed.
LEMMA InitTypes == Init => TypeOK
<1>. SUFFICES ASSUME Init
              PROVE  TypeOK
  OBVIOUS
<1>1. tasks \in Seq(Task)
  BY EmptySeq DEF Init
<1>2. users \in [ClientFds -> Slot]
  BY SweptTypes DEF Init
<1>3. /\ epollOf \in [Conns -> Reactors \cup {NoReactor}]
      /\ fdTable \in [Fds -> Conns \cup {Free, Stdin, File}]
      /\ expires \in [Reactors -> [ClientFds -> 0 .. TIMEOUT_MS \cup {NoDeadline}]]
      /\ events \in [Reactors -> [ClientFds -> {"none", "hup", "in", "out", "recv"}]]
      /\ sends \in [Conns -> 0 .. MaxSends]
      /\ round_robin_idx \in Reactors
      /\ job \in [Workers -> Job \cup {Idle}]
  BY Bounds DEF Init
<1>. QED
  BY <1>1, <1>2, <1>3 DEF Init, TypeOK

\* Every step of every thread, and of the clients, keeps the types.
LEMMA StepTypes == TypeOK /\ [Next]_vars => TypeOK'
<1>. SUFFICES ASSUME TypeOK, [Next]_vars
              PROVE  TypeOK'
  OBVIOUS
<1>. USE DEF vars, clientVars, kernelVars, reactorVars, poolVars, mainVars
<1>1. ASSUME NEW c \in Conns, Connect(c)
      PROVE  TypeOK'
  BY <1>1 DEF Connect, TypeOK
<1>2. ASSUME NEW c \in Conns, NEW piece \in {"part", "whole"}, Send(c, piece)
      PROVE  TypeOK'
  BY <1>2, Bounds DEF Send, TypeOK
<1>3. ASSUME NEW c \in Conns, HangUp(c)
      PROVE  TypeOK'
  BY <1>3 DEF HangUp, TypeOK
<1>4. ASSUME NEW r \in Reactors, TickFire(r)
      PROVE  TypeOK'
  BY <1>4, CloseTypes, ArmTypes, DeadlineTypes DEF TickFire, TypeOK
<1>5. ASSUME NEW r \in Reactors, TickDone(r) \/ HandleDone(r)
      PROVE  TypeOK'
  BY <1>5, ZenonT(60) DEF TickDone, HandleDone, TypeOK
<1>6. CASE Advance
  BY <1>6, Bounds DEF Advance, TypeOK, NoDeadline
<1>7. ASSUME NEW r \in Reactors, EpollWait(r)
      PROVE  TypeOK'
  BY <1>7 DEF EpollWait, ArmedAt, EventAt, TypeOK
<1>8. ASSUME NEW r \in Reactors, NEW f \in ClientFds, OnHangUp(r, f)
      PROVE  TypeOK'
  BY <1>8, CloseTypes, ArmTypes DEF OnHangUp, Handling, TypeOK
<1>9. ASSUME NEW r \in Reactors, NEW f \in ClientFds, OnReadable(r, f)
      PROVE  TypeOK'
  <2>1. /\ expires' \in [Reactors -> [ClientFds -> 0 .. TIMEOUT_MS \cup {NoDeadline}]]
        /\ watched' \in SUBSET Conns
        /\ events' \in [Reactors -> [ClientFds -> {"none", "hup", "in", "out", "recv"}]]
    BY <1>9, DeadlineTypes, HandlingTypes DEF OnReadable
  <2>2. Receive(f) /\ ReadReturns(r, f)
    BY <1>9 DEF OnReadable
  <2>3. UNCHANGED <<hup, sends, got, job, rpc, recvOf, mainVars>>
    BY <1>9 DEF OnReadable, Handling
  <2>. QED
    BY <2>1, <2>2, <2>3, ReceiveTypes, ReadReturnsTypes DEF TypeOK
<1>10. ASSUME NEW r \in Reactors, NEW f \in ClientFds, OnWritable(r, f)
       PROVE  TypeOK'
  <2>. USE DEF OnWritable, OnWritableIdle, OnWritablePart, OnWritableLast, OnWritableError
  <2>1. /\ expires' \in [Reactors -> [ClientFds -> 0 .. TIMEOUT_MS \cup {NoDeadline}]]
        /\ watched' \in SUBSET Conns
        /\ events' \in [Reactors -> [ClientFds -> {"none", "hup", "in", "out", "recv"}]]
    BY <1>10, DeadlineTypes, HandlingTypes
  <2>2. users' \in [ClientFds -> Slot]
    <3>1. users[f] \in Slot /\ 1 .. Chunks \subseteq 0 .. Chunks
      BY DEF TypeOK
    <3>2. CASE OnWritableIdle(r, f)
      BY <3>2, SweptTypes DEF TypeOK
    <3>3. CASE OnWritablePart(r, f)
      <4>1. PICK n \in 1 .. Chunks : users' = [users EXCEPT ![f].bytes_to_send = n]
        BY <3>3
      <4>2. [users[f] EXCEPT !.bytes_to_send = n] \in Slot
        BY <3>1, SlotTypes
      <4>. QED
        BY <4>1, <4>2 DEF TypeOK
    <3>4. CASE OnWritableLast(r, f)
      <4>1. \/ users' = [users EXCEPT ![f] = Swept]
            \/ users' = [users EXCEPT ![f] = [users[f] EXCEPT !.bytes_to_send = 0,
                                                            !.m_file_fd = NoFd]]
        BY <3>4 DEF TypeOK, Slot
      <4>. QED
        BY <4>1, <3>1, SweptTypes, SlotTypes, ZenonT(60) DEF TypeOK
    <3>5. CASE OnWritableError(r, f)
      <4>1. [users[f] EXCEPT !.m_file_fd = NoFd] \in Slot
        BY <3>1, SlotTypes
      <4>. QED
        BY <3>5, <4>1 DEF TypeOK
    <3>. QED
      BY <1>10, <3>2, <3>3, <3>4, <3>5
  <2>3. /\ phase' \in [Conns -> {"new", "backlog", "open", "closed"}]
        /\ fdTable' \in [Fds -> Conns \cup {Free, Stdin, File}]
        /\ epollOf' \in [Conns -> Reactors \cup {NoReactor}]
        /\ mask' \in [Conns -> {"off", "in", "out"}]
    BY <1>10, CloseTypes, ArmTypes
  <2>4. got' \in [Conns -> SUBSET (Conns \cup {NoConn})]
    <3>1. users[f].answers \in Conns \cup {NoConn}
      BY DEF TypeOK, Slot
    <3>2. fdTable[f] \in Conns => Replied(f) \in [Conns -> SUBSET (Conns \cup {NoConn})]
      BY <3>1 DEF Replied, TypeOK
    <3>3. got' = got \/ (fdTable[f] \in Conns /\ got' = Replied(f))
      BY <1>10 DEF Deliver
    <3>. QED
      BY <3>2, <3>3 DEF TypeOK
  <2>. QED
    BY <1>10, <2>1, <2>2, <2>3, <2>4 DEF Handling, TypeOK
<1>11. ASSUME NEW w \in Workers, TakeTask(w)
       PROVE  TypeOK'
  <2>. DEFINE f == Head(tasks)[1]
              at == Head(tasks)[2]
              c == fdTable[f]
              slot == IF c \in Conns THEN Drained(f, c) ELSE users[f]
              whole == Talking(f) /\ slot.whole
  <2>1. Tail(tasks) \in Seq(Task) /\ f \in ClientFds /\ at \in Reactors
    <3>1. tasks \in Seq(Task) /\ tasks # <<>>
      BY <1>11 DEF TakeTask, TypeOK
    <3>2. Tail(tasks) \in Seq(Task) /\ Head(tasks) \in Task
      BY <3>1, HeadTailProperties
    <3>. QED
      BY <3>2 DEF Task
  <2>2. slot \in Slot
    BY <2>1, DrainedTypes DEF TypeOK
  <2>3. slot.from \in Conns \cup {NoConn}
    BY <2>2 DEF Slot
  <2>4. users' \in [ClientFds -> Slot]
    <3>1. users' = [users EXCEPT ![f] =
                     IF whole THEN [slot EXCEPT !.from = NoConn, !.whole = FALSE] ELSE slot]
      BY <1>11 DEF TakeTask
    <3>2. [slot EXCEPT !.from = NoConn, !.whole = FALSE] \in Slot
      BY <2>2, SlotTypes
    <3>. HIDE DEF slot, whole, f
    <3>. QED
      BY <2>1, <2>2, <3>1, <3>2 DEF TypeOK
  <2>5. job' \in [Workers -> Job \cup {Idle}]
    <3>1. job' = [job EXCEPT ![w] =
                   [stage |-> IF whole THEN "request" ELSE "rearm", fd |-> f, at |-> at,
                    of |-> IF whole THEN slot.from ELSE NoConn]]
      BY <1>11 DEF TakeTask
    <3>. HIDE DEF slot, whole, f, at
    <3>. QED
      BY <2>1, <2>3, <3>1 DEF TypeOK, Job
  <2>. QED
    BY <1>11, <2>1, <2>4, <2>5 DEF TakeTask, TypeOK
<1>12. ASSUME NEW w \in Workers, DoRequest(w)
       PROVE  TypeOK'
  <2>1. job[w] \in Job
    BY <1>12 DEF DoRequest, Idle, TypeOK
  <2>2. job[w].fd \in ClientFds /\ job[w].of \in Conns \cup {NoConn}
    BY <2>1 DEF Job
  <2>3. users \in [ClientFds -> Slot] /\ users[job[w].fd] \in Slot
    BY <2>2 DEF TypeOK
  <2>4. /\ users' \in [ClientFds -> Slot]
        /\ fdTable' \in [Fds -> Conns \cup {Free, Stdin, File}]
    <3>. DEFINE f == job[w].fd
                c == job[w].of
    <3>1. CASE /\ users' = [users EXCEPT ![f].answers = c, ![f].bytes_to_send = Chunks]
               /\ UNCHANGED fdTable
      <4>1. [users[f] EXCEPT !.answers = c, !.bytes_to_send = Chunks] \in Slot
        BY <2>2, <2>3, SlotTypes
      <4>2. users' = [users EXCEPT ![f] = [users[f] EXCEPT !.answers = c, !.bytes_to_send = Chunks]]
        BY <3>1, <2>2, <2>3 DEF Slot
      <4>. QED
        BY <3>1, <4>1, <4>2, ZenonT(60) DEF TypeOK
    <3>2. ASSUME NEW g \in Fds,
                 fdTable' = [fdTable EXCEPT ![g] = File],
                 users' = [users EXCEPT ![f].answers = c, ![f].bytes_to_send = Chunks,
                                        ![f].m_file_fd = g]
          PROVE  /\ users' \in [ClientFds -> Slot]
                 /\ fdTable' \in [Fds -> Conns \cup {Free, Stdin, File}]
      <4>1. [users[f] EXCEPT !.answers = c, !.bytes_to_send = Chunks, !.m_file_fd = g] \in Slot
        BY <2>2, <2>3, SlotTypes
      <4>2. users' = [users EXCEPT ![f] = [users[f] EXCEPT !.answers = c, !.bytes_to_send = Chunks,
                                                           !.m_file_fd = g]]
        BY <3>2, <2>2, <2>3 DEF Slot
      <4>3. users' \in [ClientFds -> Slot]
        BY <4>1, <4>2 DEF TypeOK
      <4>4. fdTable' \in [Fds -> Conns \cup {Free, Stdin, File}]
        BY <3>2 DEF TypeOK
      <4>. QED
        BY <4>3, <4>4
    <3>3. CASE users' = [users EXCEPT ![f].m_file_fd = NoFd] /\ UNCHANGED fdTable
      <4>1. [users[f] EXCEPT !.m_file_fd = NoFd] \in Slot
        BY <2>3, SlotTypes
      <4>. QED
        BY <3>3, <4>1 DEF TypeOK
    <3>. QED
      BY <1>12, <3>1, <3>2, <3>3 DEF DoRequest, LowestFree, FreeFds
  <2>5. [job[w] EXCEPT !.stage = "rearm"] \in Job
    BY <2>1 DEF Job
  <2>. QED
    BY <1>12, <2>4, <2>5 DEF DoRequest, TypeOK
<1>13. ASSUME NEW w \in Workers, FinishTask(w)
       PROVE  TypeOK'
  BY <1>13, CloseTypes, ArmTypes DEF FinishTask, TypeOK
<1>14. CASE HearBell \/ AcceptNobody \/ AcceptFails
  BY <1>14 DEF HearBell, AcceptNobody, AcceptFails, TypeOK
<1>15. ASSUME NEW c \in Conns, Accept(c)
       PROVE  TypeOK'
  BY <1>15, Bounds DEF Accept, LowestFree, FreeFds, Fds, ClientFds, TypeOK
<1>16. CASE InitSlot
  BY <1>16, CloseTypes, ArmTypes, SweptTypes DEF InitSlot, TypeOK
<1>17. CASE AddToEpoll
  <2>1. NextReactor \in Reactors
    BY Bounds DEF NextReactor, Reactors, TypeOK
  <2>. QED
    BY <1>17, <2>1, ZenonT(60) DEF AddToEpoll, TypeOK
<1>18. CASE UNCHANGED vars
  BY <1>18 DEF TypeOK
<1>19. ASSUME NEW r \in Reactors, NEW f \in ClientFds, OnReadableBlocks(r, f)
       PROVE  TypeOK'
  <2>1. /\ expires' \in [Reactors -> [ClientFds -> 0 .. TIMEOUT_MS \cup {NoDeadline}]]
        /\ watched' \in SUBSET Conns
    BY <1>19, DeadlineTypes DEF OnReadableBlocks
  <2>2. /\ users' \in [ClientFds -> Slot]
        /\ inbox' \in [Conns -> {"none", "part", "whole"}]
    BY <1>19, ReceiveTypes DEF OnReadableBlocks
  <2>3. /\ events' \in [Reactors -> [ClientFds -> {"none", "hup", "in", "out", "recv"}]]
        /\ rpc' \in [Reactors -> {"wait", "tick", "handle", "recv"}]
        /\ recvOf' \in [Reactors -> Conns \cup {NoConn}]
    BY <1>19 DEF OnReadableBlocks, Blocks, Talking, TypeOK
  <2>4. UNCHANGED <<hup, sends, got, kernelVars, poolVars, mainVars>>
    BY <1>19 DEF OnReadableBlocks
  <2>. QED
    BY <2>1, <2>2, <2>3, <2>4 DEF TypeOK
<1>20. ASSUME NEW r \in Reactors, NEW f \in ClientFds, RecvReturns(r, f) \/ RecvAgain(r, f)
       PROVE  TypeOK'
  <2>1. UNCHANGED <<hup, sends, got, expires, watched, job, mainVars>>
    BY <1>20 DEF RecvReturns, RecvAgain, InRecv
  <2>2. /\ users' \in [ClientFds -> Slot]
        /\ inbox' \in [Conns -> {"none", "part", "whole"}]
    <3>1. recvOf[r] \in Conns \cup {NoConn}
      BY DEF TypeOK
    <3>2. CASE RecvReturns(r, f)
      <4>1. recvOf[r] \in Conns
        BY <3>1, <3>2 DEF RecvReturns
      <4>. QED
        BY <3>2, <4>1, ReceiveTypes DEF RecvReturns
    <3>. QED
      BY <1>20, <3>2, ReceiveTypes DEF RecvAgain
  <2>3. /\ events' \in [Reactors -> [ClientFds -> {"none", "hup", "in", "out", "recv"}]]
        /\ rpc' \in [Reactors -> {"wait", "tick", "handle", "recv"}]
        /\ recvOf' \in [Reactors -> Conns \cup {NoConn}]
    <3>1. Blocks(f) => fdTable[f] \in Conns
      BY DEF Blocks, Talking
    <3>2. /\ UNCHANGED <<events, rpc>> \/ ReadOver(r, f)
          /\ \/ recvOf' = [recvOf EXCEPT ![r] = NoConn]
             \/ Blocks(f) /\ recvOf' = [recvOf EXCEPT ![r] = fdTable[f]]
      BY <1>20 DEF RecvReturns, RecvAgain, ReadOver
    <3>3. /\ events \in [Reactors -> [ClientFds -> {"none", "hup", "in", "out", "recv"}]]
          /\ rpc \in [Reactors -> {"wait", "tick", "handle", "recv"}]
          /\ recvOf \in [Reactors -> Conns \cup {NoConn}]
      BY DEF TypeOK
    <3>4. events' \in [Reactors -> [ClientFds -> {"none", "hup", "in", "out", "recv"}]]
      <4>1. events' = events \/ events' = [events EXCEPT ![r][f] = "none"]
        BY <3>2 DEF ReadOver
      <4>2. ASSUME events' = [events EXCEPT ![r][f] = "none"]
            PROVE  events' \in [Reactors -> [ClientFds -> {"none", "hup", "in", "out", "recv"}]]
        <5>. DEFINE e == [events[r] EXCEPT ![f] = "none"]
        <5>1. e \in [ClientFds -> {"none", "hup", "in", "out", "recv"}]
          BY <3>3
        <5>2. events' = [events EXCEPT ![r] = e]
          BY <4>2
        <5>. HIDE DEF e
        <5>. QED
          BY <5>1, <5>2, <3>3
      <4>. QED
        BY <4>1, <4>2, <3>3
    <3>5. rpc' \in [Reactors -> {"wait", "tick", "handle", "recv"}]
      <4>1. rpc' = rpc \/ rpc' = [rpc EXCEPT ![r] = "handle"]
        BY <3>2 DEF ReadOver
      <4>. QED
        BY <4>1, <3>3
    <3>6. recvOf' \in [Reactors -> Conns \cup {NoConn}]
      <4>1. CASE recvOf' = [recvOf EXCEPT ![r] = NoConn]
        BY <4>1, <3>3
      <4>2. CASE Blocks(f) /\ recvOf' = [recvOf EXCEPT ![r] = fdTable[f]]
        <5>1. fdTable[f] \in Conns \cup {NoConn}
          BY <4>2, <3>1
        <5>2. recvOf' = [recvOf EXCEPT ![r] = fdTable[f]]
          BY <4>2
        <5>. QED
          BY <5>1, <5>2, <3>3
      <4>. QED
        BY <4>1, <4>2, <3>2
    <3>. QED
      BY <3>4, <3>5, <3>6
  <2>4. /\ tasks' \in Seq(Task)
        /\ phase' \in [Conns -> {"new", "backlog", "open", "closed"}]
        /\ fdTable' \in [Fds -> Conns \cup {Free, Stdin, File}]
        /\ epollOf' \in [Conns -> Reactors \cup {NoReactor}]
        /\ mask' \in [Conns -> {"off", "in", "out"}]
    <3>1. CASE UNCHANGED <<kernelVars, tasks>>
      BY <3>1 DEF TypeOK
    <3>2. CASE Close({f}) /\ KeepArmed /\ UNCHANGED tasks
      BY <3>2, CloseTypes, ArmTypes DEF TypeOK
    <3>3. CASE ReadReturns(r, f)
      BY <3>3, ReadReturnsTypes
    <3>. QED
      BY <1>20, <3>1, <3>2, <3>3 DEF RecvReturns, RecvAgain
  <2>. QED
    BY <2>1, <2>2, <2>3, <2>4 DEF TypeOK
<1>. QED
  BY <1>1, <1>2, <1>3, <1>4, <1>5, <1>6, <1>7, <1>8, <1>9, <1>10, <1>11, <1>12, <1>13,
     <1>14, <1>15, <1>16, <1>17, <1>18, <1>19, <1>20
  DEF Next, NextWithinTick, ClientStep, SubReactorStep, WorkerStep, MainStep

(* Type correctness of the connection's life.                              *)
THEOREM TypeCorrect == SafeSpec => []TypeOK
BY InitTypes, StepTypes, PTL DEF SafeSpec
-----------------------------------------------------------------------------
(* The parts of the inductive invariant.                                   *)

\* A descriptor stands for an open connection, and for it alone.
Placed ==
  \A c \in Conns, f \in Fds :
    fdTable[f] = c => phase[c] = "open" /\ \A g \in Fds : fdTable[g] = c => g = f

\* Only open connections are registered with a sub-reactor.
Registered == \A c \in Conns : epollOf[c] # NoReactor => phase[c] = "open"

\* Between accept and epoll_ctl the main reactor holds a descriptor.
MainHolds == mpc \in {"init", "add"} => client_fd \in ClientFds

\* A sub-reactor waits only after it has handled its last batch.
Quiet == \A r \in Reactors : rpc[r] = "wait" => \A f \in ClientFds : events[r][f] = "none"

\* What is not registered is not armed.
OffOutside == \A c \in Conns : epollOf[c] = NoReactor => mask[c] = "off"
-----------------------------------------------------------------------------
(* close() and the masks.                                                  *)

\* What closing descriptors does to connections, with or without one.
LEMMA CloseFacts ==
  ASSUME TypeOK, NEW fds \in SUBSET Fds, Close(fds)
  PROVE  /\ \A f \in Fds, c \in Conns : fdTable'[f] = c => fdTable[f] = c /\ f \notin fds
         /\ \A f \in Fds : f \notin fds => fdTable'[f] = fdTable[f]
         /\ \A f \in fds : fdTable'[f] = Free
         /\ \A c \in Conns : epollOf'[c] # NoReactor => epollOf'[c] = epollOf[c]
         /\ \A c \in Conns : c \in ClosedBy(fds) => phase'[c] = "closed" /\ epollOf'[c] = NoReactor
         /\ \A c \in Conns : c \notin ClosedBy(fds) => phase'[c] = phase[c]
                                                     /\ epollOf'[c] = epollOf[c]
BY ConnsAssumption DEF Close, TypeOK

\* close() leaves the other connections placed and registered.
LEMMA CloseKeeps ==
  ASSUME TypeOK, Placed, Registered, NEW fds \in SUBSET Fds, Close(fds)
  PROVE  Placed' /\ Registered'
<1>1. Placed'
  <2>. SUFFICES ASSUME NEW c \in Conns, NEW f \in Fds, fdTable'[f] = c
                PROVE  phase'[c] = "open" /\ \A g \in Fds : fdTable'[g] = c => g = f
    BY DEF Placed
  <2>1. fdTable[f] = c /\ f \notin fds
    BY CloseFacts
  <2>2. phase[c] = "open" /\ \A g \in Fds : fdTable[g] = c => g = f
    BY <2>1 DEF Placed
  <2>3. c \notin ClosedBy(fds)
    BY <2>1, <2>2 DEF ClosedBy
  <2>. QED
    BY <2>2, <2>3, CloseFacts
<1>2. Registered'
  BY CloseFacts DEF Registered
<1>. QED
  BY <1>1, <1>2

\* What KeepArmed and epoll_ctl(MOD) do to the registrations that are left.
LEMMA ArmFacts ==
  ASSUME TypeOK
  PROVE  /\ KeepArmed => OffOutside'
         /\ \A r, f, ev : Rearm(r, f, ev) => OffOutside'
         /\ KeepArmed => \A c \in Conns : epollOf'[c] # NoReactor => mask'[c] = mask[c]
         /\ \A r, f, ev : Rearm(r, f, ev) =>
              \A c \in Conns :
                 epollOf'[c] # NoReactor =>
                   mask'[c] = IF epollOf'[c] = r /\ fdTable'[f] = c THEN ev ELSE mask[c]
BY DEF KeepArmed, Rearm, OffOutside, TypeOK

\* The file that a slot may have open is a descriptor like any other.
LEMMA FileFds ==
  ASSUME TypeOK, NEW f \in ClientFds
  PROVE  FileFd(f) \in SUBSET Fds /\ FileFd(f) \cup {f} \in SUBSET Fds /\ {f} \in SUBSET Fds
BY Bounds DEF FileFd, TypeOK, Slot

-----------------------------------------------------------------------------
(* The part of the invariant that has nothing to do with who holds what.   *)

Base == TypeOK /\ Placed /\ Registered /\ MainHolds /\ Quiet /\ OffOutside

\* The server starts with the parts of the invariant in place.
LEMMA InitBase == Init => Base
<1>. SUFFICES ASSUME Init
              PROVE  Base
  OBVIOUS
<1>1. TypeOK
  BY InitTypes
<1>2. Placed
  BY ConnsAssumption DEF Init, Placed
<1>. QED
  BY <1>1, <1>2 DEF Base, Init, Registered, MainHolds, Quiet, OffOutside

\* Every step keeps them.
LEMMA StepBase == Base /\ [Next]_vars => Base'
<1>. SUFFICES ASSUME Base, [Next]_vars
              PROVE  Base'
  OBVIOUS
<1>. USE DEF vars, clientVars, kernelVars, reactorVars, poolVars, mainVars
<1>0. TypeOK /\ TypeOK' /\ Placed /\ Registered
  BY StepTypes DEF Base
<1>1. ASSUME UNCHANGED <<kernelVars, rpc, events, mpc, client_fd>>
      PROVE  Base'
  BY <1>0, <1>1 DEF Base, Placed, Registered, MainHolds, Quiet, OffOutside
<1>2. ASSUME NEW c \in Conns, Connect(c)
      PROVE  Base'
  <2>1. \A f \in Fds : fdTable[f] # c
    BY <1>0, <1>2 DEF Connect, Placed
  <2>2. Placed'
    BY <1>0, <1>2, <2>1 DEF Connect, Placed, TypeOK
  <2>3. Registered'
    BY <1>0, <1>2 DEF Connect, Registered, TypeOK
  <2>. QED
    BY <1>0, <1>2, <2>2, <2>3 DEF Connect, Base, MainHolds, Quiet, OffOutside
<1>3. ASSUME NEW c \in Conns, NEW piece, Send(c, piece) \/ HangUp(c)
      PROVE  Base'
  BY <1>1, <1>3 DEF Send, HangUp
<1>4. ASSUME NEW r \in Reactors, TickFire(r)
      PROVE  Base'
  <2>. PICK f \in ClientFds : Close({f}) /\ KeepArmed
    BY <1>4 DEF TickFire
  <2>1. Placed' /\ Registered' /\ OffOutside'
    BY <1>0, FileFds, CloseKeeps, ArmFacts
  <2>. QED
    BY <1>0, <1>4, <2>1 DEF TickFire, Base, MainHolds, Quiet
<1>5. ASSUME NEW r \in Reactors, TickDone(r) \/ HandleDone(r)
      PROVE  Base'
  <2>1. Quiet'
    <3>1. CASE TickDone(r)
      <4>1. \A q \in Reactors : rpc'[q] = "wait" => rpc[q] = "wait"
        BY <1>0, <3>1 DEF TickDone, TypeOK
      <4>. QED
        BY <3>1, <4>1 DEF TickDone, Base, Quiet
    <3>2. CASE HandleDone(r)
      <4>1. \A q \in Reactors \ {r} : rpc'[q] = rpc[q]
        BY <1>0, <3>2 DEF HandleDone, TypeOK
      <4>2. \A q \in Reactors : rpc'[q] = "wait" => \A f \in ClientFds : events[q][f] = "none"
        BY <3>2, <4>1 DEF HandleDone, Base, Quiet
      <4>. QED
        BY <3>2, <4>2 DEF HandleDone, Quiet
    <3>. QED
      BY <1>5, <3>1, <3>2
  <2>. QED
    BY <1>0, <1>5, <2>1
    DEF TickDone, HandleDone, Base, Placed, Registered, MainHolds, OffOutside
<1>6. CASE Advance
  BY <1>1, <1>6 DEF Advance
<1>7. ASSUME NEW r \in Reactors, EpollWait(r)
      PROVE  Base'
  <2>1. Quiet'
    <3>1. /\ rpc' = [rpc EXCEPT ![r] = "tick"]
          /\ \E batch : events' = [events EXCEPT ![r] = batch]
      BY <1>7 DEF EpollWait
    <3>2. ASSUME NEW q \in Reactors, rpc'[q] = "wait"
          PROVE  rpc[q] = "wait" /\ events'[q] = events[q]
      <4>1. q # r
        BY <1>0, <3>1, <3>2 DEF TypeOK
      <4>. QED
        BY <1>0, <3>1, <3>2, <4>1 DEF TypeOK
    <3>. QED
      BY <3>2 DEF Base, Quiet
  <2>2. OffOutside'
    BY <1>0, <1>7 DEF EpollWait, Base, OffOutside, TypeOK
  <2>. QED
    BY <1>0, <1>7, <2>1, <2>2 DEF EpollWait, Base, Placed, Registered, MainHolds
<1>8. ASSUME NEW r \in Reactors, NEW f \in ClientFds,
             OnHangUp(r, f) \/ OnReadable(r, f) \/ OnWritable(r, f)
      PROVE  Base'
  <2>. USE DEF OnHangUp, OnReadable, ReadReturns, OnWritable, OnWritableIdle, OnWritablePart,
               OnWritableLast, OnWritableError
  <2>1. \E ev : Handling(r, f, ev)
    BY <1>8
  <2>2. \/ UNCHANGED kernelVars
        \/ /\ \E fds \in SUBSET Fds : Close(fds)
           /\ KeepArmed \/ \E ev : Rearm(r, f, ev)
    BY <1>0, <1>8, FileFds
  <2>3. Placed' /\ Registered' /\ OffOutside'
    <3>1. CASE UNCHANGED kernelVars
      BY <1>0, <3>1 DEF Base, Placed, Registered, OffOutside
    <3>2. CASE /\ \E fds \in SUBSET Fds : Close(fds)
               /\ KeepArmed \/ \E ev : Rearm(r, f, ev)
      BY <1>0, <3>2, CloseKeeps, ArmFacts
    <3>. QED
      BY <2>2, <3>1, <3>2
  <2>4. Quiet' /\ MainHolds'
    BY <1>0, <2>1 DEF Handling, Base, Quiet, MainHolds, TypeOK
  <2>. QED
    BY <1>0, <2>3, <2>4 DEF Base
<1>9. ASSUME NEW w \in Workers, TakeTask(w)
      PROVE  Base'
  BY <1>1, <1>9 DEF TakeTask
<1>10. ASSUME NEW w \in Workers, DoRequest(w)
       PROVE  Base'
  <2>1. \A f \in Fds, c \in Conns : fdTable'[f] = c => fdTable[f] = c
    <3>1. fdTable' = fdTable \/ \E g \in Fds : fdTable' = [fdTable EXCEPT ![g] = File]
      BY <1>10 DEF DoRequest, LowestFree, FreeFds
    <3>. QED
      BY <1>0, <3>1, ConnsAssumption DEF TypeOK
  <2>2. Placed'
    <3>1. phase' = phase
      BY <1>10 DEF DoRequest
    <3>2. Placed
      BY <1>0 DEF Base
    <3>. QED
      BY <2>1, <3>1, <3>2 DEF Placed
  <2>. QED
    BY <1>0, <1>10, <2>2 DEF DoRequest, Base, Registered, MainHolds, Quiet, OffOutside
<1>11. ASSUME NEW w \in Workers, FinishTask(w)
       PROVE  Base'
  <2>1. Close({}) /\ \E r, f, ev : Rearm(r, f, ev)
    BY <1>11 DEF FinishTask
  <2>2. Placed' /\ Registered' /\ OffOutside'
    BY <1>0, <2>1, CloseKeeps, ArmFacts
  <2>. QED
    BY <1>0, <1>11, <2>2 DEF FinishTask, Base, MainHolds, Quiet
<1>12. CASE HearBell \/ AcceptNobody \/ AcceptFails
  BY <1>0, <1>12
  DEF HearBell, AcceptNobody, AcceptFails, Base, Placed, Registered, MainHolds, Quiet, OffOutside
<1>13. ASSUME NEW c \in Conns, Accept(c)
       PROVE  Base'
  <2>. PICK f \in LowestFree :
         /\ fdTable' = [fdTable EXCEPT ![f] = c]
         /\ IF f <= 0
              THEN mpc' = "gave_up" /\ UNCHANGED client_fd
              ELSE mpc' = "init" /\ client_fd' = f
    BY <1>13 DEF Accept
  <2>1. f \in Fds /\ phase[c] = "backlog" /\ phase' = [phase EXCEPT ![c] = "open"]
    BY <1>13 DEF Accept, LowestFree, FreeFds, Backlog
  <2>2. \A g \in Fds : fdTable[g] # c
    BY <1>0, <2>1 DEF Placed
  <2>3. Placed'
    BY <1>0, <2>1, <2>2 DEF Placed, TypeOK
  <2>4. Registered'
    BY <1>0, <1>13, <2>1 DEF Accept, Registered, TypeOK
  <2>5. MainHolds'
    BY <2>1, Bounds DEF MainHolds, Fds, ClientFds
  <2>. QED
    BY <1>0, <1>13, <2>3, <2>4, <2>5 DEF Accept, Base, Quiet, OffOutside
<1>14. CASE InitSlot
  <2>1. client_fd \in ClientFds
    BY <1>14 DEF InitSlot, Base, MainHolds
  <2>2. FileFd(client_fd) \in SUBSET Fds
    BY <1>0, <2>1, FileFds
  <2>3. Placed' /\ Registered' /\ OffOutside'
    BY <1>0, <1>14, <2>2, CloseKeeps, ArmFacts DEF InitSlot
  <2>. QED
    BY <1>0, <1>14, <2>1, <2>3 DEF InitSlot, Base, Quiet, MainHolds
<1>15. CASE AddToEpoll
  <2>1. client_fd \in Fds
    BY <1>15, Bounds DEF AddToEpoll, Base, MainHolds
  <2>2. Registered'
    BY <1>0, <1>15, <2>1 DEF AddToEpoll, Registered, Placed, TypeOK
  <2>3. OffOutside'
    <3>1. \/ UNCHANGED <<epollOf, mask>>
          \/ \E c \in Conns : /\ epollOf' = [epollOf EXCEPT ![c] = round_robin_idx]
                             /\ mask' = [mask EXCEPT ![c] = "in"]
      BY <1>15 DEF AddToEpoll
    <3>2. /\ epollOf \in [Conns -> Reactors \cup {NoReactor}]
          /\ mask \in [Conns -> {"off", "in", "out"}]
          /\ round_robin_idx # NoReactor
      BY <1>0, Bounds DEF TypeOK
    <3>. QED
      BY <3>1, <3>2 DEF Base, OffOutside
  <2>. QED
    BY <1>0, <1>15, <2>2, <2>3 DEF AddToEpoll, Base, Placed, MainHolds, Quiet
<1>16. CASE UNCHANGED vars
  BY <1>1, <1>16
<1>17. ASSUME NEW r \in Reactors, NEW f \in ClientFds,
              OnReadableBlocks(r, f) \/ RecvReturns(r, f) \/ RecvAgain(r, f)
       PROVE  Base'
  <2>1. UNCHANGED kernelVars \/ (Close({f}) /\ KeepArmed)
    BY <1>17 DEF OnReadableBlocks, RecvReturns, RecvAgain, ReadReturns
  <2>2. Placed' /\ Registered' /\ OffOutside'
    <3>1. CASE UNCHANGED kernelVars
      BY <1>0, <3>1 DEF Base, Placed, Registered, OffOutside
    <3>2. CASE Close({f}) /\ KeepArmed
      BY <1>0, <3>2, FileFds, CloseKeeps, ArmFacts
    <3>. QED
      BY <2>1, <3>1, <3>2
  <2>3. \A q \in Reactors : rpc'[q] = "wait" => q # r /\ rpc[q] = "wait" /\ events'[q] = events[q]
    BY <1>0, <1>17
    DEF OnReadableBlocks, RecvReturns, RecvAgain, InRecv, ReadOver, TypeOK
  <2>4. UNCHANGED mainVars
    BY <1>17 DEF OnReadableBlocks, RecvReturns, RecvAgain, InRecv
  <2>5. Quiet' /\ MainHolds'
    BY <2>3, <2>4 DEF Base, Quiet, MainHolds
  <2>. QED
    BY <1>0, <2>2, <2>5 DEF Base
<1>. QED
  BY <1>2, <1>3, <1>4, <1>5, <1>6, <1>7, <1>8, <1>9, <1>10, <1>11, <1>12, <1>13,
     <1>14, <1>15, <1>16, <1>17
  DEF Next, NextWithinTick, ClientStep, SubReactorStep, WorkerStep, MainStep

\* So they always hold (main.cpp 62-147 and 220-258).
LEMMA BaseKept == SafeSpec => []Base
BY InitBase, StepBase, PTL DEF SafeSpec
-----------------------------------------------------------------------------
(* No connection is stranded.                                              *)

\* What an event handler leaves in hand: all but the event it handles.
LEMMA HandlingKeeps ==
  ASSUME TypeOK, NEW r \in Reactors, NEW f \in ClientFds, NEW ev,
         events' = [events EXCEPT ![r][f] = ev],
         tasks' = tasks \/ tasks' = Append(tasks, <<f, r>>),
         job' = job,
         NEW q \in Reactors, NEW g \in ClientFds, InHand(q, g), q # r \/ g # f
  PROVE  InHand(q, g)'
<1>1. events'[q][g] = events[q][g]
  BY DEF TypeOK
<1>2. \A i \in DOMAIN tasks : i \in DOMAIN tasks' /\ tasks'[i] = tasks[i]
  <2>1. <<f, r>> \in Task
    BY DEF Task
  <2>2. Len(tasks) \in Nat /\ DOMAIN tasks = 1 .. Len(tasks)
    BY LenProperties DEF TypeOK
  <2>3. CASE tasks' = Append(tasks, <<f, r>>)
    <3>1. /\ tasks' \in Seq(Task) /\ Len(tasks') = Len(tasks) + 1
          /\ \A i \in 1 .. Len(tasks) : tasks'[i] = tasks[i]
      BY <2>1, <2>3, AppendProperties DEF TypeOK
    <3>2. DOMAIN tasks' = 1 .. (Len(tasks) + 1)
      BY <3>1, LenProperties
    <3>. QED
      BY <2>2, <3>1, <3>2
  <2>. QED
    BY <2>3
<1>. QED
  BY <1>1, <1>2 DEF InHand

\* A task that is queued is in hand.
LEMMA QueuedIsInHand ==
  ASSUME TypeOK, NEW r \in Reactors, NEW f \in ClientFds, tasks' = Append(tasks, <<f, r>>)
  PROVE  InHand(r, f)'
<1>1. <<f, r>> \in Task
  BY DEF Task
<1>2. Len(tasks) + 1 \in DOMAIN tasks' /\ tasks'[Len(tasks) + 1] = <<f, r>>
  BY <1>1, AppendProperties, LenProperties DEF TypeOK
<1>. QED
  BY <1>2 DEF InHand

\* No step strands a connection that was not stranded before.
LEMMA StepStranded == Base /\ Base' /\ NoStranded /\ [Next]_vars => NoStranded'
<1>. SUFFICES ASSUME Base, Base', NoStranded, [Next]_vars,
                     NEW c \in Conns, NEW f \in ClientFds,
                     fdTable'[f] = c, NEW q \in Reactors, epollOf'[c] = q, mask'[c] = "off"
              PROVE  InHand(q, f)'
  BY DEF NoStranded, Base, TypeOK
<1>. USE DEF vars, clientVars, kernelVars, reactorVars, poolVars, mainVars
<1>0. TypeOK /\ TypeOK' /\ q # NoReactor /\ f \in Fds
  <2>1. TypeOK /\ TypeOK'
    BY DEF Base
  <2>2. q # NoReactor /\ f \in Fds
    BY Bounds
  <2>. QED
    BY <2>1, <2>2
<1>1. ASSUME UNCHANGED <<fdTable, epollOf, mask, events, tasks, job>>
      PROVE  InHand(q, f)'
  BY <1>0, <1>1 DEF NoStranded, InHand
\* Closing descriptors strands nobody, as long as nobody lets go of one.
<1>2. ASSUME NEW fds \in SUBSET Fds, Close(fds)
      PROVE  f \notin fds /\ fdTable[f] = c /\ epollOf[c] = epollOf'[c]
  BY <1>0, <1>2, CloseFacts
<1>3. ASSUME NEW fds \in SUBSET Fds, Close(fds), KeepArmed
      PROVE  /\ f \notin fds
             /\ InHand(q, f)
  <2>1. mask[c] = "off"
    BY <1>0, <1>3, ArmFacts
  <2>. QED
    BY <1>0, <1>2, <1>3, <2>1 DEF NoStranded
<1>4. ASSUME NEW fds \in SUBSET Fds, Close(fds),
             NEW r, NEW g, NEW ev \in {"in", "out"}, Rearm(r, g, ev)
      PROVE  /\ q # r \/ f # g
             /\ InHand(q, f)
  <2>1. mask[c] = "off" /\ ~(q = r /\ fdTable'[g] = c)
    BY <1>0, <1>4, ArmFacts
  <2>. QED
    BY <1>0, <1>2, <1>4, <2>1 DEF NoStranded
<1>5. ASSUME NEW r \in Reactors, TickFire(r)
      PROVE  InHand(q, f)'
  <2>1. \E g \in ClientFds : Close({g}) /\ KeepArmed
    BY <1>5 DEF TickFire
  <2>2. InHand(q, f)
    BY <1>0, <1>3, <2>1, FileFds
  <2>. QED
    BY <1>5, <2>2 DEF TickFire, InHand
<1>6. ASSUME NEW r \in Reactors, EpollWait(r)
      PROVE  InHand(q, f)'
  <2>. PICK ready \in SUBSET {g \in ArmedAt(r) : MayReport(g)} :
         /\ rpc[r] = "wait"
         /\ events' = [events EXCEPT ![r] =
                         [g \in ClientFds |-> IF g \in ready THEN EventAt(g) ELSE "none"]]
         /\ mask' = [d \in Conns |-> IF \E g \in ready : fdTable[g] = d THEN "off" ELSE mask[d]]
    BY <1>6 DEF EpollWait
  <2>1. UNCHANGED <<fdTable, epollOf, tasks, job>>
    BY <1>6 DEF EpollWait
  <2>2. CASE f \in ready
    <3>1. epollOf[c] = r /\ mask[c] # "off" /\ mask[c] \in {"off", "in", "out"}
      BY <1>0, <2>1, <2>2 DEF ArmedAt, TypeOK
    <3>2. EventAt(f) # "none"
      BY <2>1, <3>1 DEF EventAt
    <3>3. events'[r][f] # "none"
      BY <1>0, <2>2, <3>2 DEF TypeOK
    <3>. QED
      BY <2>1, <3>1, <3>3 DEF InHand
  <2>3. CASE f \notin ready
    <3>1. \A g \in ready : fdTable[g] # c
      BY <1>0, <2>1, <2>3, Bounds DEF ArmedAt, Base, Placed
    <3>2. mask[c] = "off"
      BY <3>1
    <3>3. InHand(epollOf[c], f)
      BY <1>0, <2>1, <3>2 DEF NoStranded
    <3>4. CASE epollOf[c] = r
      <4>1. events[r][f] = "none"
        BY DEF Base, Quiet
      <4>. QED
        BY <2>1, <3>3, <3>4, <4>1 DEF InHand
    <3>5. CASE epollOf[c] # r
      <4>1. events'[q][f] = events[q][f]
        BY <1>0, <2>1, <3>5 DEF TypeOK
      <4>. QED
        BY <2>1, <3>3, <4>1 DEF InHand
    <3>. QED
      BY <3>4, <3>5
  <2>. QED
    BY <2>2, <2>3
<1>7. ASSUME NEW r \in Reactors, NEW g \in ClientFds, OnHangUp(r, g)
      PROVE  InHand(q, f)'
  <2>1. f # g /\ InHand(q, f)
    BY <1>0, <1>3, <1>7, FileFds DEF OnHangUp
  <2>. QED
    BY <1>0, <1>7, <2>1, HandlingKeeps DEF OnHangUp, Handling
<1>8. ASSUME NEW r \in Reactors, NEW g \in ClientFds, OnReadable(r, g)
      PROVE  InHand(q, f)'
  <2>0. events' = [events EXCEPT ![r][g] = "none"] /\ job' = job
    BY <1>8 DEF OnReadable, Handling
  <2>1. CASE tasks' = Append(tasks, <<g, r>>) /\ UNCHANGED kernelVars
    <3>1. InHand(q, f)
      BY <1>0, <2>1 DEF NoStranded
    <3>2. CASE q = r /\ f = g
      BY <1>0, <2>1, <3>2, QueuedIsInHand
    <3>3. CASE q # r \/ f # g
      BY <1>0, <2>0, <2>1, <3>1, <3>3, HandlingKeeps
    <3>. QED
      BY <3>2, <3>3
  <2>2. CASE Close({g}) /\ KeepArmed /\ UNCHANGED tasks
    <3>1. f # g /\ InHand(q, f)
      BY <1>0, <1>3, <2>2, FileFds
    <3>. QED
      BY <1>0, <2>0, <2>2, <3>1, HandlingKeeps
  <2>. QED
    BY <1>8, <2>1, <2>2 DEF OnReadable, ReadReturns
<1>9. ASSUME NEW r \in Reactors, NEW g \in ClientFds, OnWritable(r, g)
      PROVE  InHand(q, f)'
  <2>. USE DEF OnWritable, OnWritableIdle, OnWritablePart, OnWritableLast, OnWritableError
  <2>0. events' = [events EXCEPT ![r][g] = "none"] /\ job' = job /\ tasks' = tasks
    BY <1>9 DEF Handling
  <2>1. CASE \E fds \in SUBSET Fds, ev \in {"in", "out"} : Close(fds) /\ Rearm(r, g, ev)
    <3>1. (q # r \/ f # g) /\ InHand(q, f)
      BY <1>4, <2>1
    <3>. QED
      BY <1>0, <2>0, <3>1, HandlingKeeps
  <2>2. CASE Close(FileFd(g) \cup {g}) /\ KeepArmed
    <3>1. f # g /\ InHand(q, f)
      BY <1>0, <1>3, <2>2, FileFds
    <3>. QED
      BY <1>0, <2>0, <3>1, HandlingKeeps
  <2>. QED
    BY <1>0, <1>9, <2>1, <2>2, FileFds
<1>10. ASSUME NEW w \in Workers, TakeTask(w)
       PROVE  InHand(q, f)'
  <2>1. InHand(q, f)
    BY <1>0, <1>10 DEF TakeTask, NoStranded
  <2>2. /\ job'[w].fd = Head(tasks)[1] /\ job'[w].at = Head(tasks)[2]
        /\ \A v \in Workers \ {w} : job'[v] = job[v]
        /\ job[w] = Idle
        /\ tasks' = Tail(tasks)
        /\ events' = events
    BY <1>0, <1>10, ZenonT(60) DEF TakeTask, TypeOK
  <2>3. ASSUME NEW i \in DOMAIN tasks, tasks[i] = <<f, q>>
        PROVE  InHand(q, f)'
    <3>1. /\ tasks # <<>> /\ Len(tasks) \in Nat
          /\ DOMAIN tasks = 1 .. Len(tasks) /\ DOMAIN tasks' = 1 .. Len(tasks')
          /\ Head(tasks) = tasks[1]
          /\ Len(tasks') = Len(tasks) - 1
          /\ \A j \in 1 .. Len(tasks') : tasks'[j] = tasks[j + 1]
      <4>1. tasks \in Seq(Task) /\ tasks # <<>> /\ tasks' = Tail(tasks)
        BY <1>0, <1>10 DEF TakeTask, TypeOK
      <4>2. /\ tasks' \in Seq(Task) /\ Len(tasks') = Len(tasks) - 1
            /\ \A j \in 1 .. Len(tasks') : tasks'[j] = tasks[j + 1]
        BY <4>1, HeadTailProperties
      <4>3. Head(tasks) = tasks[1]
        BY <4>1
      <4>. QED
        BY <4>1, <4>2, <4>3, LenProperties
    <3>2. CASE i = 1
      <4>1. Head(tasks)[1] = f /\ Head(tasks)[2] = q
        BY <2>3, <3>1, <3>2
      <4>. QED
        BY <2>2, <4>1 DEF InHand
    <3>3. CASE i # 1
      <4>1. i - 1 \in DOMAIN tasks' /\ tasks'[i - 1] = <<f, q>>
        BY <2>3, <3>1, <3>3
      <4>. QED
        BY <4>1 DEF InHand
    <3>. QED
      BY <3>2, <3>3
  <2>4. ASSUME NEW v \in Workers, job[v].fd = f, job[v].at = q
        PROVE  InHand(q, f)'
    <3>1. v # w
      BY <2>2, <2>4, Bounds DEF Idle
    <3>. QED
      BY <2>2, <2>4, <3>1 DEF InHand
  <2>. QED
    BY <2>1, <2>2, <2>3, <2>4 DEF InHand
<1>11. ASSUME NEW w \in Workers, DoRequest(w)
       PROVE  InHand(q, f)'
  <2>1. fdTable[f] = c
    <3>1. fdTable' = fdTable \/ \E g \in Fds : fdTable' = [fdTable EXCEPT ![g] = File]
      BY <1>11 DEF DoRequest, LowestFree, FreeFds
    <3>. QED
      BY <1>0, <3>1, ConnsAssumption DEF TypeOK
  <2>2. InHand(q, f)
    BY <1>0, <1>11, <2>1 DEF DoRequest, NoStranded
  <2>3. \A v \in Workers : job'[v].fd = job[v].fd /\ job'[v].at = job[v].at
    <3>1. job' = [job EXCEPT ![w].stage = "rearm"] /\ job[w].stage = "request"
      BY <1>11 DEF DoRequest
    <3>2. job \in [Workers -> Job \cup {Idle}]
      BY <1>0 DEF TypeOK
    <3>3. \A v \in Workers : job'[v] = IF v = w THEN [job[w] EXCEPT !.stage = "rearm"] ELSE job[v]
      BY <3>1, <3>2
    <3>4. job[w] \in Job
      BY <3>1, <3>2 DEF Idle
    <3>. QED
      BY <3>3, <3>4 DEF Job
  <2>. QED
    BY <1>11, <2>2, <2>3 DEF DoRequest, InHand
<1>12. ASSUME NEW w \in Workers, FinishTask(w)
       PROVE  InHand(q, f)'
  <2>1. \E ev \in {"in", "out"} : Close({}) /\ Rearm(job[w].at, job[w].fd, ev)
    BY <1>12 DEF FinishTask
  <2>2. /\ q # job[w].at \/ f # job[w].fd
        /\ InHand(q, f)
    BY <1>4, <2>1
  <2>3. \A v \in Workers \ {w} : job'[v] = job[v]
    BY <1>0, <1>12 DEF FinishTask, TypeOK
  <2>. QED
    BY <1>12, <2>2, <2>3 DEF FinishTask, InHand
<1>13. ASSUME NEW d \in Conns, Accept(d)
       PROVE  InHand(q, f)'
  <2>1. d # c
    BY <1>0, <1>13 DEF Accept, Backlog, Base, Registered
  <2>2. fdTable[f] = c
    BY <1>0, <1>13, <2>1 DEF Accept, LowestFree, FreeFds, TypeOK
  <2>. QED
    BY <1>0, <1>13, <2>2 DEF Accept, NoStranded, InHand
<1>14. CASE InitSlot
  <2>1. FileFd(client_fd) \in SUBSET Fds
    BY <1>0, <1>14, FileFds DEF InitSlot, Base, MainHolds
  <2>2. InHand(q, f)
    BY <1>3, <1>14, <2>1 DEF InitSlot
  <2>. QED
    BY <1>14, <2>2 DEF InitSlot, InHand
<1>15. CASE AddToEpoll
  <2>1. c # fdTable[client_fd]
    BY <1>0, <1>15 DEF AddToEpoll, TypeOK
  <2>2. epollOf'[c] = epollOf[c] /\ mask'[c] = mask[c] /\ fdTable' = fdTable
    BY <1>0, <1>15, <2>1 DEF AddToEpoll, TypeOK
  <2>. QED
    BY <1>0, <1>15, <2>2 DEF AddToEpoll, NoStranded, InHand
<1>16. ASSUME \/ ClientStep \/ Advance \/ UNCHANGED vars
              \/ HearBell \/ AcceptNobody \/ AcceptFails
              \/ \E r \in Reactors : TickDone(r) \/ HandleDone(r)
       PROVE  InHand(q, f)'
  BY <1>1, <1>16 DEF ClientStep, Connect, Send, HangUp, Advance, HearBell, AcceptNobody,
                     AcceptFails, TickDone, HandleDone
<1>17. ASSUME NEW r \in Reactors, NEW g \in ClientFds, OnReadableBlocks(r, g)
       PROVE  InHand(q, f)'
  <2>0. tasks' = tasks /\ job' = job
    BY <1>17 DEF OnReadableBlocks
  <2>1. InHand(q, f) /\ events' = [events EXCEPT ![r][g] = "recv"]
    BY <1>0, <1>17 DEF OnReadableBlocks, NoStranded
  <2>2. CASE q = r /\ f = g
    BY <1>0, <2>1, <2>2 DEF InHand, TypeOK
  <2>3. CASE q # r \/ f # g
    BY <1>0, <2>0, <2>1, <2>3, HandlingKeeps
  <2>. QED
    BY <2>2, <2>3
<1>18. ASSUME NEW r \in Reactors, NEW g \in ClientFds, RecvReturns(r, g) \/ RecvAgain(r, g)
       PROVE  InHand(q, f)'
  <2>1. job' = job
    BY <1>18 DEF RecvReturns, RecvAgain, InRecv
  <2>2. CASE UNCHANGED <<events, kernelVars, tasks>>
    BY <1>1, <2>1, <2>2
  <2>3. CASE events' = [events EXCEPT ![r][g] = "none"]
             /\ tasks' = Append(tasks, <<g, r>>) /\ UNCHANGED kernelVars
    <3>1. InHand(q, f)
      BY <1>0, <2>3 DEF NoStranded
    <3>2. CASE q = r /\ f = g
      BY <1>0, <2>3, <3>2, QueuedIsInHand
    <3>3. CASE q # r \/ f # g
      BY <1>0, <2>1, <2>3, <3>1, <3>3, HandlingKeeps
    <3>. QED
      BY <3>2, <3>3
  <2>4. CASE events' = [events EXCEPT ![r][g] = "none"]
             /\ Close({g}) /\ KeepArmed /\ UNCHANGED tasks
    <3>1. f # g /\ InHand(q, f)
      BY <1>0, <1>3, <2>4, FileFds
    <3>. QED
      BY <1>0, <2>1, <2>4, <3>1, HandlingKeeps
  <2>. QED
    BY <1>18, <2>2, <2>3, <2>4 DEF RecvReturns, RecvAgain, ReadOver, ReadReturns
<1>. QED
  BY <1>5, <1>6, <1>7, <1>8, <1>9, <1>10, <1>11, <1>12, <1>13, <1>14, <1>15, <1>16,
     <1>17, <1>18
  DEF Next, NextWithinTick, SubReactorStep, WorkerStep, MainStep

(* However connections, descriptors, events, timers and tasks interleave,  *)
(* a connection that EPOLLONESHOT has disarmed is in the hand of a thread  *)
(* that will arm or close it (main.cpp 53, 78-143).                        *)
THEOREM NobodyIsStranded == SafeSpec => []NoStranded
<1>1. Init => NoStranded
  BY ConnsAssumption, Bounds DEF Init, NoStranded
<1>. QED
  BY <1>1, BaseKept, StepStranded, PTL DEF SafeSpec

-----------------------------------------------------------------------------
(* No watched connection loses its deadline.                               *)

\* A timer was set for registered connections only.
WatchedIsKnown == \A c \in watched : epollOf[c] # NoReactor \/ phase[c] = "closed"

\* The connection that the main reactor holds is not registered yet.
MainsIsNew ==
  mpc \in {"init", "add"} =>
    \A c \in Conns : fdTable[client_fd] = c => epollOf[c] = NoReactor

TimerInv == Base /\ WatchedIsKnown /\ MainsIsNew /\ WatchedHasTimer

\* Closing descriptors takes deadlines away from nobody who is left.
LEMMA TimersSurviveClose ==
  ASSUME TimerInv, NEW fds \in SUBSET Fds, Close(fds), client_fd' = client_fd,
         mpc' \in {"init", "add"} => mpc \in {"init", "add"},
         \/ UNCHANGED <<watched, expires>>
         \/ \E r \in Reactors, f \in ClientFds : Watch(r, f)
         \/ \E r \in Reactors, f \in fds \cap ClientFds :
              UNCHANGED watched /\ expires' = [expires EXCEPT ![r][f] = NoDeadline]
  PROVE  WatchedIsKnown' /\ MainsIsNew' /\ WatchedHasTimer'
<1>0. TypeOK /\ Placed /\ MainHolds
  BY DEF TimerInv, Base
<1>1. /\ \A f \in Fds, c \in Conns : fdTable'[f] = c => fdTable[f] = c /\ f \notin fds
      /\ \A c \in Conns : epollOf'[c] # NoReactor => epollOf'[c] = epollOf[c]
      /\ \A c \in Conns : epollOf'[c] = epollOf[c] \/ phase'[c] = "closed"
      /\ \A c \in Conns : phase[c] = "closed" => phase'[c] = "closed"
  <2>1. \A c \in Conns : c \in ClosedBy(fds) => phase'[c] = "closed"
    BY <1>0, CloseFacts
  <2>2. \A c \in Conns : c \notin ClosedBy(fds) => phase'[c] = phase[c] /\ epollOf'[c] = epollOf[c]
    BY <1>0, CloseFacts
  <2>. QED
    BY <1>0, <2>1, <2>2, CloseFacts
<1>2. MainsIsNew'
  <2>. SUFFICES ASSUME mpc' \in {"init", "add"}, NEW c \in Conns, fdTable'[client_fd] = c
                PROVE  epollOf'[c] = NoReactor
    BY DEF MainsIsNew
  <2>1. client_fd \in Fds
    BY <1>0, Bounds DEF MainHolds
  <2>. QED
    BY <1>1, <2>1 DEF TimerInv, MainsIsNew
<1>3. ASSUME NEW c \in watched'
      PROVE  c \in watched \/ (c \in Conns /\ epollOf[c] # NoReactor)
  BY <1>3, Bounds DEF Watch
<1>4. WatchedIsKnown'
  BY <1>0, <1>1, <1>3 DEF TimerInv, WatchedIsKnown, TypeOK
<1>5. ASSUME NEW c \in watched', NEW g \in ClientFds, fdTable'[g] = c, epollOf'[c] # NoReactor
      PROVE  expires'[epollOf'[c]][g] # NoDeadline
  <2>1. c \in Conns /\ g \in Fds
    BY <1>0, <1>3, Bounds DEF TypeOK
  <2>2. fdTable[g] = c /\ g \notin fds /\ epollOf'[c] = epollOf[c] /\ epollOf[c] \in Reactors
    <3>1. fdTable[g] = c /\ g \notin fds /\ epollOf'[c] = epollOf[c]
      BY <1>1, <1>5, <2>1
    <3>2. epollOf[c] \in Reactors \cup {NoReactor}
      BY <1>0, <2>1 DEF TypeOK
    <3>. QED
      BY <1>5, <3>1, <3>2
  <2>3. c \in watched => expires[epollOf[c]][g] # NoDeadline
    BY <1>5, <2>2 DEF TimerInv, WatchedHasTimer
  <2>4. CASE UNCHANGED <<watched, expires>>
    BY <2>2, <2>3, <2>4
  <2>5. ASSUME NEW r \in Reactors, NEW f \in ClientFds, Watch(r, f)
        PROVE  expires'[epollOf'[c]][g] # NoDeadline
    <3>0. TIMEOUT_MS # NoDeadline
      BY Bounds DEF NoDeadline
    <3>1. CASE r = epollOf[c] /\ f = g
      BY <1>0, <2>2, <2>5, <3>0, <3>1 DEF Watch, TypeOK
    <3>2. CASE ~(r = epollOf[c] /\ f = g)
      <4>1. f \in Fds
        BY Bounds
      <4>2. c \in watched
        BY <1>0, <2>1, <2>2, <2>5, <3>2, <4>1 DEF Watch, Placed
      <4>3. expires'[epollOf[c]][g] = expires[epollOf[c]][g]
        BY <1>0, <2>2, <2>5, <3>2 DEF Watch, TypeOK
      <4>. QED
        BY <2>2, <2>3, <4>2, <4>3
    <3>. QED
      BY <3>1, <3>2
  <2>6. ASSUME NEW r \in Reactors, NEW f \in fds \cap ClientFds,
               UNCHANGED watched, expires' = [expires EXCEPT ![r][f] = NoDeadline]
        PROVE  expires'[epollOf'[c]][g] # NoDeadline
    <3>1. expires'[epollOf[c]][g] = expires[epollOf[c]][g]
      BY <1>0, <2>2, <2>6 DEF TypeOK
    <3>. QED
      BY <2>2, <2>3, <2>6, <3>1
  <2>. QED
    BY <2>4, <2>5, <2>6
<1>. QED
  BY <1>2, <1>4, <1>5 DEF WatchedHasTimer

\* No step takes a deadline from a connection that keeps its number.
LEMMA StepTimers == TimerInv /\ [Next]_vars => TimerInv'
<1>. SUFFICES ASSUME TimerInv, [Next]_vars
              PROVE  WatchedIsKnown' /\ MainsIsNew' /\ WatchedHasTimer'
  BY StepBase DEF TimerInv
<1>. USE DEF vars, clientVars, kernelVars, reactorVars, poolVars, mainVars
<1>. DEFINE Kept == WatchedIsKnown' /\ MainsIsNew' /\ WatchedHasTimer'
<1>0. TypeOK /\ Placed /\ Registered /\ MainHolds
  BY DEF TimerInv, Base
<1>1. ASSUME UNCHANGED <<fdTable, epollOf, watched>>,
             UNCHANGED <<phase, mpc, client_fd>>, UNCHANGED expires
      PROVE  Kept
  BY <1>1 DEF TimerInv, WatchedIsKnown, MainsIsNew, WatchedHasTimer
<1>2. ASSUME NEW c \in Conns, Connect(c)
      PROVE  Kept
  <2>1. phase[c] = "new" /\ \A d \in Conns : phase[d] = "closed" => phase'[d] = "closed"
    BY <1>0, <1>2 DEF Connect, TypeOK
  <2>. QED
    BY <1>0, <1>2, <2>1
    DEF Connect, TimerInv, WatchedIsKnown, MainsIsNew, WatchedHasTimer, TypeOK
<1>3. ASSUME NEW c \in Conns, NEW piece, Send(c, piece) \/ HangUp(c)
      PROVE  Kept
  BY <1>1, <1>3 DEF Send, HangUp
<1>4. ASSUME NEW r \in Reactors, TickFire(r)
      PROVE  Kept
  <2>. PICK f \in ClientFds : expires' = [expires EXCEPT ![r][f] = NoDeadline] /\ Close({f})
    BY <1>4 DEF TickFire
  <2>1. {f} \in SUBSET Fds /\ f \in {f} \cap ClientFds
    BY Bounds
  <2>. QED
    BY <1>4, <2>1, TimersSurviveClose DEF TickFire
<1>5. ASSUME NEW r \in Reactors, TickDone(r) \/ HandleDone(r) \/ EpollWait(r)
      PROVE  Kept
  BY <1>1, <1>5 DEF TickDone, HandleDone, EpollWait
<1>6. CASE Advance
  <2>1. \A r \in Reactors, f \in ClientFds :
          expires[r][f] # NoDeadline => expires'[r][f] # NoDeadline
    BY <1>0, <1>6 DEF Advance, TypeOK, NoDeadline
  <2>2. \A c \in watched : epollOf[c] \in Reactors \cup {NoReactor}
    BY <1>0 DEF TypeOK
  <2>. QED
    BY <1>6, <2>1, <2>2 DEF Advance, TimerInv, WatchedIsKnown, MainsIsNew, WatchedHasTimer
<1>7. ASSUME NEW r \in Reactors, NEW f \in ClientFds,
             \/ OnHangUp(r, f) \/ OnReadable(r, f) \/ OnWritable(r, f)
             \/ OnReadableBlocks(r, f) \/ RecvReturns(r, f) \/ RecvAgain(r, f)
      PROVE  Kept
  <2>. USE DEF OnHangUp, OnReadable, OnWritable, OnWritableIdle, OnWritablePart,
               OnWritableLast, OnWritableError, OnReadableBlocks, RecvReturns, RecvAgain,
               ReadReturns
  <2>1. UNCHANGED <<mpc, client_fd>> /\ (UNCHANGED <<watched, expires>> \/ Watch(r, f))
    BY <1>7 DEF Handling, InRecv
  <2>2. UNCHANGED kernelVars \/ \E fds \in SUBSET Fds : Close(fds)
    BY <1>0, <1>7, FileFds
  <2>3. UNCHANGED kernelVars => Close({})
    BY <1>0 DEF Close, ClosedBy, TypeOK
  <2>. QED
    BY <2>1, <2>2, <2>3, TimersSurviveClose
<1>8. ASSUME NEW w \in Workers, TakeTask(w)
      PROVE  Kept
  BY <1>1, <1>8 DEF TakeTask
<1>9. ASSUME NEW w \in Workers, DoRequest(w)
      PROVE  Kept
  <2>1. \A f \in Fds, c \in Conns : fdTable'[f] = c => fdTable[f] = c
    <3>1. fdTable' = fdTable \/ \E g \in Fds : fdTable' = [fdTable EXCEPT ![g] = File]
      BY <1>9 DEF DoRequest, LowestFree, FreeFds
    <3>. QED
      BY <1>0, <3>1, ConnsAssumption DEF TypeOK
  <2>2. watched \subseteq Conns /\ (mpc \in {"init", "add"} => client_fd \in Fds)
    BY <1>0, Bounds DEF TypeOK, MainHolds
  <2>3. UNCHANGED <<phase, epollOf, watched, expires, mpc, client_fd>>
    BY <1>9 DEF DoRequest, reactorVars, mainVars, clientVars
  <2>4. WatchedIsKnown /\ MainsIsNew /\ WatchedHasTimer
    BY DEF TimerInv
  <2>5. WatchedIsKnown'
    BY <2>3, <2>4 DEF WatchedIsKnown
  <2>6. MainsIsNew'
    BY <2>1, <2>2, <2>3, <2>4 DEF MainsIsNew
  <2>7. WatchedHasTimer'
    BY <2>1, <2>2, <2>3, <2>4, Bounds DEF WatchedHasTimer
  <2>. QED
    BY <2>5, <2>6, <2>7
<1>10. ASSUME NEW w \in Workers, FinishTask(w)
       PROVE  Kept
  BY <1>10, TimersSurviveClose DEF FinishTask
<1>11. CASE HearBell \/ AcceptNobody \/ AcceptFails
  BY <1>11 DEF HearBell, AcceptNobody, AcceptFails, TimerInv, WatchedIsKnown, MainsIsNew, WatchedHasTimer
<1>12. ASSUME NEW c \in Conns, Accept(c)
       PROVE  Kept
  <2>1. phase[c] = "backlog" /\ epollOf[c] = NoReactor
    BY <1>0, <1>12 DEF Accept, Backlog, Registered
  <2>2. PICK f \in Fds :
          /\ fdTable' = [fdTable EXCEPT ![f] = c]
          /\ mpc' \in {"init", "add"} => client_fd' = f
    BY <1>12 DEF Accept, LowestFree, FreeFds
  <2>3. fdTable'[f] = c /\ \A g \in Fds \ {f} : fdTable'[g] = fdTable[g]
    BY <1>0, <2>2 DEF TypeOK
  <2>4. MainsIsNew'
    BY <1>12, <2>1, <2>2, <2>3 DEF Accept, MainsIsNew
  <2>5. WatchedIsKnown'
    BY <1>0, <1>12, <2>1 DEF Accept, TimerInv, WatchedIsKnown, TypeOK
  <2>6. WatchedHasTimer'
    BY <1>12, <2>1, <2>3, Bounds DEF Accept, TimerInv, WatchedHasTimer
  <2>. QED
    BY <2>4, <2>5, <2>6
<1>13. CASE InitSlot
  BY <1>0, <1>13, FileFds, TimersSurviveClose DEF InitSlot, MainHolds
<1>14. CASE AddToEpoll
  <2>. DEFINE c == fdTable[client_fd]
  <2>1. client_fd \in Fds /\ (c \in Conns => c \notin watched)
    BY <1>0, <1>14, Bounds
    DEF AddToEpoll, MainHolds, TimerInv, MainsIsNew, WatchedIsKnown, Placed
  <2>2. /\ fdTable' = fdTable /\ phase' = phase /\ watched' = watched /\ expires' = expires
        /\ mpc' = "accept"
        /\ \A d \in Conns \ {c} : epollOf'[d] = epollOf[d]
    BY <1>0, <1>14 DEF AddToEpoll, TypeOK
  <2>3. watched \subseteq Conns
    BY <1>0 DEF TypeOK
  <2>. QED
    BY <2>1, <2>2, <2>3 DEF TimerInv, WatchedIsKnown, MainsIsNew, WatchedHasTimer
<1>15. CASE UNCHANGED vars
  BY <1>1, <1>15
<1>. QED
  BY <1>2, <1>3, <1>4, <1>5, <1>6, <1>7, <1>8, <1>9, <1>10, <1>11, <1>12, <1>13, <1>14, <1>15
  DEF Next, NextWithinTick, ClientStep, SubReactorStep, WorkerStep, MainStep

(* A connection that a timer was set for has one set until it is closed,   *)
(* whoever else resets, lets expire or reuses its number (main.cpp 92,     *)
(* 123; lru_timer.cpp 14-49).                                              *)
THEOREM DeadlinesKept == SafeSpec => []WatchedHasTimer
<1>1. Init => TimerInv
  BY InitBase DEF Init, TimerInv, WatchedIsKnown, MainsIsNew, WatchedHasTimer
<1>2. TimerInv => WatchedHasTimer
  BY DEF TimerInv
<1>. QED
  BY <1>1, <1>2, StepTimers, PTL DEF SafeSpec
=============================================================================
