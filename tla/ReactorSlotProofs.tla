------------------------- MODULE ReactorSlotProofs -------------------------
(***************************************************************************)
(* Proof that, as long as no timer fires, each slot of Reactor is in the   *)
(* hand of one thread at most: EPOLLONESHOT and the hand-overs between     *)
(* main reactor, sub-reactors and workers keep it so for any number of     *)
(* them and through every reuse of a descriptor.  From it follows that     *)
(* requests and replies stay with the connection they came from.  With     *)
(* timers, a slot still goes from hand to hand, and only accept adds one.  *)
(***************************************************************************)
EXTENDS ReactorProofs, FiniteSetTheorems

-----------------------------------------------------------------------------
(* The parts of the inductive invariant.                                   *)

\* Within one tick no timer fires.
NothingDue == \A r \in Reactors, f \in ClientFds : expires[r][f] # 0

\* A descriptor is in one hand at most, and then it stands for a connection.
OneHand(f) == \A x, y \in Hands(f) : x = y /\ fdTable[f] \in Conns

\* A slot that has a file open has it open under that number, and alone.
FilesAreOwn ==
  \A f \in ClientFds :
    users[f].m_file_fd \in ClientFds =>
      /\ fdTable[users[f].m_file_fd] = File
      /\ \A g \in ClientFds : users[g].m_file_fd = users[f].m_file_fd => g = f

\* The hands, one by one.
IsHand(f, x) ==
  \/ x = <<"main", mpc>> /\ mpc \in {"init", "add"} /\ client_fd = f
  \/ \E c \in Conns : x = <<"armed", c>> /\ fdTable[f] = c /\ mask[c] # "off"
  \/ \E r \in Reactors : x = <<"event", r>> /\ events[r][f] # "none"
  \/ \E i \in DOMAIN tasks : x = <<"task", i>> /\ tasks[i][1] = f
  \/ \E w \in Workers : x = <<"job", w>> /\ job[w].fd = f

\* The elements of Hands, one kind at a time.
LEMMA Members == \A f, x : x \in Hands(f) <=> IsHand(f, x)
BY DEF Hands, IsHand

\* The same after a step.
LEMMA MembersNext == \A f, x : x \in Hands(f)' <=> IsHand(f, x)'
BY DEF Hands, IsHand

\* A descriptor that loses hands, and keeps its connection if it had any.
LEMMA Fewer ==
  ASSUME NEW f, OneHand(f), \A x : IsHand(f, x)' => IsHand(f, x),
         fdTable'[f] = fdTable[f] \/ \A x : ~IsHand(f, x)
  PROVE  OneHand(f)'
BY Members, MembersNext DEF OneHand

\* A descriptor that passes from its one hand, a, to another, b.
LEMMA Passed ==
  ASSUME NEW f, OneHand(f), NEW a, NEW b, IsHand(f, a), fdTable'[f] = fdTable[f],
         \A x : IsHand(f, x)' => x = b \/ (x # a /\ IsHand(f, x))
  PROVE  OneHand(f)'
BY Members, MembersNext DEF OneHand

\* Who is held stands for a connection, and what does not is not held.
LEMMA HeldIsConn ==
  ASSUME NEW f, OneHand(f), NEW x, IsHand(f, x)
  PROVE  fdTable[f] \in Conns
BY Members DEF OneHand

\* A descriptor that stands for no connection is in no hand.
LEMMA Unheld ==
  ASSUME NEW f, OneHand(f), fdTable[f] \notin Conns
  PROVE  \A x : ~IsHand(f, x)
BY HeldIsConn

\* What becomes of the armed connections when some descriptors are closed:
\* those that are left were armed before.
LEMMA ArmedLess ==
  ASSUME TypeOK, NEW fds \in SUBSET Fds, Close(fds), KeepArmed,
         NEW g \in Fds, NEW c \in Conns, fdTable'[g] = c, mask'[c] # "off"
  PROVE  fdTable[g] = c /\ mask[c] # "off" /\ g \notin fds
<1>1. fdTable[g] = c /\ g \notin fds
  BY CloseFacts
<1>2. mask[c] # "off"
  BY DEF KeepArmed
<1>. QED
  BY <1>1, <1>2

\* The same when epoll_ctl(MOD) arms descriptor f again.
LEMMA ArmedAnew ==
  ASSUME TypeOK, Placed, NEW fds \in SUBSET Fds, Close(fds),
         NEW r, NEW f \in Fds, NEW ev, Rearm(r, f, ev),
         NEW g \in Fds, NEW c \in Conns, fdTable'[g] = c, mask'[c] # "off"
  PROVE  fdTable[g] = c /\ g \notin fds /\ (g # f => mask[c] # "off")
<1>1. fdTable[g] = c /\ g \notin fds
  BY CloseFacts
<1>2. ASSUME g # f
      PROVE  mask[c] # "off"
  <2>1. fdTable'[f] # c
    BY <1>1, <1>2, CloseFacts DEF Placed
  <2>. QED
    BY <2>1 DEF Rearm
<1>. QED
  BY <1>1, <1>2

\* Another descriptor's files are not closed with one's own.
LEMMA ClosedWith ==
  ASSUME TypeOK, FilesAreOwn, NEW f \in ClientFds, NEW g \in ClientFds, OneHand(g),
         g # f, NEW fds \in SUBSET (FileFd(f) \cup {f}), Close(fds)
  PROVE  fdTable'[g] = fdTable[g] \/ \A x : ~IsHand(g, x)
<1>1. fds \in SUBSET Fds /\ g \in Fds
  BY FileFds, Bounds
<1>2. CASE g \notin fds
  BY <1>1, <1>2, CloseFacts
<1>3. CASE g \in fds
  <2>1. users[f].m_file_fd = g
    BY <1>3 DEF FileFd
  <2>2. fdTable[g] = File
    BY <2>1 DEF FilesAreOwn
  <2>3. fdTable[g] \notin Conns
    BY <2>2, ConnsAssumption
  <2>. QED
    BY <2>3, Unheld
<1>. QED
  BY <1>2, <1>3

\* Closing one's own descriptor and file keeps everybody else's.
LEMMA FilesKept ==
  ASSUME TypeOK, TypeOK', FilesAreOwn, NEW f \in ClientFds, fdTable[f] \in Conns,
         NEW fds \in SUBSET (FileFd(f) \cup {f}), Close(fds),
         fds \subseteq {f} \/ users'[f].m_file_fd = NoFd,
         \A h \in ClientFds : users'[h].m_file_fd \in {users[h].m_file_fd, NoFd}
  PROVE  FilesAreOwn'
<1>. SUFFICES ASSUME NEW h \in ClientFds, users'[h].m_file_fd \in ClientFds
              PROVE  /\ fdTable'[users'[h].m_file_fd] = File
                     /\ \A g \in ClientFds : users'[g].m_file_fd = users'[h].m_file_fd => g = h
  BY DEF FilesAreOwn
<1>0. NoFd \notin ClientFds
  BY Bounds DEF NoFd, ClientFds
<1>1. users'[h].m_file_fd = users[h].m_file_fd
  BY <1>0
<1>. DEFINE k == users[h].m_file_fd
<1>2. k \in ClientFds /\ k \in Fds /\ fdTable[k] = File
  BY <1>1, Bounds DEF FilesAreOwn
<1>3. k # f
  BY <1>2, ConnsAssumption
<1>4. k \notin fds
  <2>1. CASE fds \subseteq {f}
    BY <2>1, <1>3
  <2>2. CASE users'[f].m_file_fd = NoFd
    <3>1. h # f
      BY <1>0, <2>2
    <3>2. users[f].m_file_fd # k
      BY <1>2, <3>1 DEF FilesAreOwn
    <3>. QED
      BY <1>3, <3>2 DEF FileFd
  <2>. QED
    BY <2>1, <2>2
<1>5. fdTable'[k] = File
  <2>1. fds \in SUBSET Fds
    BY FileFds
  <2>. QED
    BY <1>2, <1>4, <2>1, CloseFacts
<1>6. \A g \in ClientFds : users'[g].m_file_fd = k => g = h
  BY <1>0, <1>2 DEF FilesAreOwn
<1>. QED
  BY <1>1, <1>5, <1>6

\* Nobody waits in recv: that takes a stale event.
NobodyInRecv == \A r \in Reactors : rpc[r] # "recv"

\* The part of the invariant that holds within one tick.
BurstInv ==
  Base /\ NothingDue /\ (\A f \in ClientFds : OneHand(f)) /\ FilesAreOwn /\ NobodyInRecv

\* Within one tick recv neither blocks nor is anybody in one that does.
LEMMA NoRecv ==
  ASSUME BurstInv, NEW r \in Reactors, NEW f \in ClientFds
  PROVE  ~OnReadableBlocks(r, f) /\ ~RecvReturns(r, f) /\ ~RecvAgain(r, f)
<1>1. ASSUME OnReadableBlocks(r, f)
      PROVE  FALSE
  <2>1. IsHand(f, <<"event", r>>)
    BY <1>1 DEF OnReadableBlocks, IsHand
  <2>2. IsHand(f, <<"main", mpc>>)
    BY <1>1 DEF OnReadableBlocks, Blocks, IsHand
  <2>. QED
    BY <2>1, <2>2, Members DEF BurstInv, OneHand
<1>2. ~RecvReturns(r, f) /\ ~RecvAgain(r, f)
  BY DEF RecvReturns, RecvAgain, InRecv, BurstInv, NobodyInRecv
<1>. QED
  BY <1>1, <1>2

\* And so it stays.
LEMMA StepNobodyInRecv == BurstInv /\ [NextWithinTick]_vars => NobodyInRecv'
<1>. SUFFICES ASSUME BurstInv, [NextWithinTick]_vars
              PROVE  NobodyInRecv'
  OBVIOUS
<1>0. rpc \in [Reactors -> {"wait", "tick", "handle", "recv"}] /\ NobodyInRecv
  BY DEF BurstInv, Base, TypeOK
<1>1. CASE UNCHANGED rpc
  BY <1>0, <1>1 DEF NobodyInRecv
<1>2. CASE UNCHANGED vars \/ ClientStep \/ MainStep \/ \E w \in Workers : WorkerStep(w)
  BY <1>1, <1>2
  DEF vars, reactorVars, ClientStep, Connect, Send, HangUp, WorkerStep, TakeTask, DoRequest,
      FinishTask, MainStep, HearBell, AcceptNobody, AcceptFails, Accept, InitSlot, AddToEpoll
<1>3. ASSUME NEW r \in Reactors, TickFire(r)
      PROVE  FALSE
  BY <1>3 DEF TickFire, BurstInv, NothingDue
<1>4. ASSUME NEW r \in Reactors, TickDone(r) \/ EpollWait(r) \/ HandleDone(r)
      PROVE  NobodyInRecv'
  BY <1>0, <1>4 DEF TickDone, EpollWait, HandleDone, NobodyInRecv
<1>5. ASSUME NEW r \in Reactors, NEW f \in ClientFds,
             OnHangUp(r, f) \/ OnReadable(r, f) \/ OnWritable(r, f)
      PROVE  UNCHANGED rpc
  BY <1>5 DEF OnHangUp, OnReadable, OnWritable, OnWritableIdle, OnWritablePart,
              OnWritableLast, OnWritableError, Handling
<1>. QED
  BY <1>1, <1>2, <1>3, <1>4, <1>5, NoRecv DEF NextWithinTick, SubReactorStep

\* What the handling of one event at f leaves: nobody holds f, or it is armed.
LEMMA HandledOnce ==
  ASSUME BurstInv, TypeOK', NEW r \in Reactors, NEW f \in ClientFds,
         NEW ev \in {"hup", "in", "out"}, Handling(r, f, ev),
         NEW fds \in SUBSET (FileFd(f) \cup {f}), Close(fds),
         KeepArmed \/ \E e : Rearm(r, f, e),
         fds \subseteq {f} \/ users'[f].m_file_fd = NoFd,
         \A h \in ClientFds : users'[h].m_file_fd \in {users[h].m_file_fd, NoFd},
         tasks' = tasks, job' = job
  PROVE  (\A g \in ClientFds : OneHand(g)') /\ FilesAreOwn'
<1>0. TypeOK /\ Placed /\ fds \in SUBSET Fds /\ f \in Fds
  BY FileFds, Bounds DEF BurstInv, Base
<1>1. IsHand(f, <<"event", r>>)
  BY DEF Handling, IsHand
<1>2. fdTable[f] \in Conns
  BY <1>1, HeldIsConn DEF BurstInv
<1>3. FilesAreOwn'
  BY <1>0, <1>2, FilesKept DEF BurstInv
<1>4. /\ events'[r][f] = "none"
      /\ \A q \in Reactors, g \in ClientFds : q # r \/ g # f => events'[q][g] = events[q][g]
      /\ mpc' = mpc /\ client_fd' = client_fd
  BY <1>0 DEF Handling, TypeOK, mainVars
<1>5. ASSUME NEW g \in ClientFds, NEW c \in Conns, fdTable'[g] = c, mask'[c] # "off"
      PROVE  fdTable[g] = c /\ g \notin fds /\ (g # f => mask[c] # "off")
  BY <1>0, <1>5, ArmedLess, ArmedAnew, Bounds
<1>6. ASSUME NEW g \in ClientFds, g # f
      PROVE  OneHand(g)'
  <2>1. OneHand(g) /\ FilesAreOwn
    BY DEF BurstInv
  <2>2. ASSUME NEW x, IsHand(g, x)'
        PROVE  IsHand(g, x)
    BY <1>4, <1>5, <1>6, <2>2 DEF IsHand
  <2>3. fdTable'[g] = fdTable[g] \/ \A x : ~IsHand(g, x)
    BY <1>0, <1>6, <2>1, ClosedWith
  <2>. QED
    BY <2>1, <2>2, <2>3, Fewer
<1>7. OneHand(f)'
  <2>. DEFINE b == <<"armed", fdTable[f]>>
  <2>1. ASSUME NEW x, IsHand(f, x)'
        PROVE  (f \notin fds /\ x = b) \/ (x # <<"event", r>> /\ IsHand(f, x))
    BY <1>4, <1>5, <2>1 DEF IsHand
  <2>2. \A x : IsHand(f, x) => x = <<"event", r>>
    BY <1>1, Members DEF BurstInv, OneHand
  <2>3. CASE f \in fds
    BY <2>1, <2>2, <2>3, MembersNext DEF OneHand
  <2>4. CASE f \notin fds
    <3>1. fdTable'[f] = fdTable[f]
      BY <1>0, <2>4, CloseFacts
    <3>2. \A x : IsHand(f, x)' => x = b
      BY <2>1, <2>2
    <3>. QED
      BY <1>2, <3>1, <3>2, MembersNext DEF OneHand
  <2>. QED
    BY <2>3, <2>4
<1>. QED
  BY <1>3, <1>6, <1>7

\* No step within a tick makes a deadline due.
LEMMA StepNothingDue == Base /\ NothingDue /\ NextWithinTick => NothingDue'
<1>. SUFFICES ASSUME Base, NothingDue, NextWithinTick
              PROVE  NothingDue'
  OBVIOUS
<1>0. TypeOK /\ TIMEOUT_MS # 0
  BY Bounds DEF Base
<1>1. CASE UNCHANGED expires
  BY <1>1 DEF NothingDue
<1>2. ASSUME NEW r \in Reactors, NEW f \in ClientFds, Watch(r, f)
      PROVE  NothingDue'
  BY <1>0, <1>2 DEF Watch, NothingDue, TypeOK
<1>3. ASSUME NEW r \in Reactors, TickFire(r)
      PROVE  FALSE
  BY <1>3 DEF TickFire, NothingDue
<1>4. CASE ClientStep
  BY <1>1, <1>4 DEF ClientStep, Connect, Send, HangUp, reactorVars
<1>5. ASSUME NEW r \in Reactors, SubReactorStep(r)
      PROVE  NothingDue'
  BY <1>1, <1>2, <1>3, <1>5
  DEF SubReactorStep, TickDone, EpollWait, HandleDone, OnHangUp, OnReadable, OnWritable,
      OnWritableIdle, OnWritablePart, OnWritableLast, OnWritableError, OnReadableBlocks,
      RecvReturns, RecvAgain, InRecv
<1>6. CASE \E w \in Workers : WorkerStep(w)
  BY <1>1, <1>6 DEF WorkerStep, TakeTask, DoRequest, FinishTask, reactorVars
<1>7. CASE MainStep
  BY <1>1, <1>7 DEF MainStep, HearBell, AcceptNobody, AcceptFails, Accept, InitSlot, AddToEpoll,
                    reactorVars
<1>. QED
  BY <1>4, <1>5, <1>6, <1>7 DEF NextWithinTick

\* epoll_wait passes what it reports from the epoll to the sub-reactor.
LEMMA ReportedOnce ==
  ASSUME BurstInv, NEW r \in Reactors, EpollWait(r)
  PROVE  (\A g \in ClientFds : OneHand(g)') /\ FilesAreOwn'
<1>0. TypeOK
  BY DEF BurstInv, Base
<1>1. PICK ready \in SUBSET {f \in ArmedAt(r) : MayReport(f)} :
        /\ events' = [events EXCEPT ![r] =
                       [f \in ClientFds |-> IF f \in ready THEN EventAt(f) ELSE "none"]]
        /\ mask' = [c \in Conns |-> IF \E f \in ready : fdTable[f] = c THEN "off" ELSE mask[c]]
  BY DEF EpollWait
<1>2. /\ fdTable' = fdTable /\ users' = users /\ tasks' = tasks /\ job' = job
      /\ mpc' = mpc /\ client_fd' = client_fd
  BY DEF EpollWait, poolVars, mainVars
<1>3. FilesAreOwn'
  BY <1>2 DEF BurstInv, FilesAreOwn
<1>4. ASSUME NEW g \in ClientFds
      PROVE  OneHand(g)'
  <2>0. OneHand(g)
    BY DEF BurstInv
  <2>1. \A q \in Reactors : events'[q][g] # "none" => events[q][g] # "none" \/ (q = r /\ g \in ready)
    BY <1>0, <1>1 DEF TypeOK
  <2>2. \A c \in Conns : mask'[c] # "off" => mask[c] # "off" /\ \A f \in ready : fdTable[f] # c
    BY <1>1
  <2>3. CASE g \notin ready
    <3>1. \A x : IsHand(g, x)' => IsHand(g, x)
      BY <1>2, <2>1, <2>2, <2>3 DEF IsHand
    <3>. QED
      BY <1>2, <2>0, <3>1, Fewer
  <2>4. CASE g \in ready
    <3>1. PICK c \in Conns : fdTable[g] = c /\ mask[c] # "off"
      BY <1>1, <2>4 DEF ArmedAt
    <3>2. IsHand(g, <<"armed", c>>)
      BY <3>1 DEF IsHand
    <3>3. \A x : IsHand(g, x)' => x = <<"event", r>> \/ (x # <<"armed", c>> /\ IsHand(g, x))
      BY <1>2, <2>1, <2>2, <2>4, <3>1 DEF IsHand
    <3>. QED
      BY <1>2, <2>0, <3>2, <3>3, Passed
  <2>. QED
    BY <2>3, <2>4
<1>. QED
  BY <1>3, <1>4

\* The sub-reactor passes a descriptor it has read to the pool.
LEMMA QueuedOnce ==
  ASSUME BurstInv, NEW r \in Reactors, NEW f \in ClientFds, Handling(r, f, "in"),
         tasks' = Append(tasks, <<f, r>>), UNCHANGED <<kernelVars, job>>,
         \A h \in ClientFds : users'[h].m_file_fd = users[h].m_file_fd
  PROVE  (\A g \in ClientFds : OneHand(g)') /\ FilesAreOwn'
<1>0. TypeOK
  BY DEF BurstInv, Base
<1>1. IsHand(f, <<"event", r>>)
  BY DEF Handling, IsHand
<1>2. FilesAreOwn'
  BY DEF BurstInv, FilesAreOwn, kernelVars
<1>3. /\ events'[r][f] = "none"
      /\ \A q \in Reactors, g \in ClientFds : q # r \/ g # f => events'[q][g] = events[q][g]
      /\ mpc' = mpc /\ client_fd' = client_fd
      /\ fdTable' = fdTable /\ mask' = mask /\ job' = job
  BY <1>0 DEF Handling, TypeOK, mainVars, kernelVars
<1>4. /\ \A i \in DOMAIN tasks' : i = Len(tasks) + 1 \/ (i \in DOMAIN tasks /\ tasks'[i] = tasks[i])
      /\ tasks'[Len(tasks) + 1] = <<f, r>>
  <2>1. <<f, r>> \in Task /\ tasks \in Seq(Task)
    BY <1>0 DEF Task, TypeOK
  <2>2. /\ tasks' \in Seq(Task) /\ Len(tasks') = Len(tasks) + 1
        /\ \A i \in 1 .. Len(tasks) : tasks'[i] = tasks[i]
        /\ tasks'[Len(tasks) + 1] = <<f, r>>
    BY <2>1, AppendProperties
  <2>3. Len(tasks) \in Nat /\ DOMAIN tasks = 1 .. Len(tasks) /\ DOMAIN tasks' = 1 .. (Len(tasks) + 1)
    BY <2>1, <2>2, LenProperties
  <2>. QED
    BY <2>2, <2>3
<1>5. ASSUME NEW g \in ClientFds
      PROVE  OneHand(g)'
  <2>0. OneHand(g)
    BY DEF BurstInv
  <2>1. CASE g # f
    <3>1. \A x : IsHand(g, x)' => IsHand(g, x)
      BY <1>3, <1>4, <2>1 DEF IsHand
    <3>. QED
      BY <1>3, <2>0, <3>1, Fewer
  <2>2. CASE g = f
    <3>1. \A x : IsHand(f, x)' =>
            x = <<"task", Len(tasks) + 1>> \/ (x # <<"event", r>> /\ IsHand(f, x))
      BY <1>3, <1>4 DEF IsHand
    <3>. QED
      BY <1>1, <1>3, <2>0, <2>2, <3>1, Passed
  <2>. QED
    BY <2>1, <2>2
<1>. QED
  BY <1>2, <1>5

\* A worker takes the oldest task; the others move up.
LEMMA TakenOnce ==
  ASSUME BurstInv, NEW w \in Workers, TakeTask(w)
  PROVE  (\A g \in ClientFds : OneHand(g)') /\ FilesAreOwn'
<1>0. TypeOK
  BY DEF BurstInv, Base
<1>1. /\ tasks \in Seq(Task) /\ tasks # <<>> /\ tasks' = Tail(tasks)
      /\ job[w] = Idle
      /\ fdTable' = fdTable /\ mask' = mask /\ events' = events
      /\ mpc' = mpc /\ client_fd' = client_fd
  BY <1>0 DEF TakeTask, TypeOK, kernelVars, reactorVars, mainVars
<1>2. /\ Len(tasks) \in Nat /\ Len(tasks) >= 1 /\ DOMAIN tasks = 1 .. Len(tasks)
      /\ DOMAIN tasks' = 1 .. (Len(tasks) - 1)
      /\ \A i \in DOMAIN tasks' : tasks'[i] = tasks[i + 1]
      /\ Head(tasks) = tasks[1]
  <2>1. /\ tasks' \in Seq(Task) /\ Len(tasks') = Len(tasks) - 1
        /\ \A j \in 1 .. Len(tasks') : tasks'[j] = tasks[j + 1]
    BY <1>1, HeadTailProperties
  <2>2. DOMAIN tasks = 1 .. Len(tasks) /\ DOMAIN tasks' = 1 .. Len(tasks') /\ Len(tasks) \in Nat
    BY <1>1, <2>1, LenProperties
  <2>3. Head(tasks) = tasks[1] /\ Len(tasks) # 0
    BY <1>1, EmptySeq
  <2>. QED
    BY <2>1, <2>2, <2>3
<1>. DEFINE f == tasks[1][1]
<1>3. f \in ClientFds /\ tasks[1] \in Task
  BY <1>1, <1>2 DEF Task
<1>4. job'[w].fd = f /\ \A v \in Workers \ {w} : job'[v] = job[v]
  BY <1>0, <1>2 DEF TakeTask, TypeOK
<1>5. \A h \in ClientFds : users'[h].m_file_fd = users[h].m_file_fd
  <2>. DEFINE c == fdTable[f]
              slot == IF c \in Conns THEN Drained(f, c) ELSE users[f]
  <2>1. slot \in Slot /\ slot.m_file_fd = users[f].m_file_fd
    <3>1. users[f] \in Slot
      BY <1>0, <1>3 DEF TypeOK
    <3>2. c \in Conns => Drained(f, c) \in Slot /\ Drained(f, c).m_file_fd = users[f].m_file_fd
      BY <1>0, <1>3, <3>1, DrainedTypes DEF Drained, Slot
    <3>. QED
      BY <3>1, <3>2
  <2>2. \E s : /\ users' = [users EXCEPT ![f] = s]
               /\ s \in {slot, [slot EXCEPT !.from = NoConn, !.whole = FALSE]}
    BY <1>2 DEF TakeTask
  <2>. HIDE DEF slot
  <2>3. PICK s : /\ users' = [users EXCEPT ![f] = s]
                 /\ s \in {slot, [slot EXCEPT !.from = NoConn, !.whole = FALSE]}
    BY <2>2
  <2>4. s.m_file_fd = users[f].m_file_fd
    BY <2>1, <2>3 DEF Slot
  <2>. QED
    BY <1>0, <1>3, <2>3, <2>4 DEF TypeOK
<1>6. FilesAreOwn'
  BY <1>1, <1>5 DEF BurstInv, FilesAreOwn
<1>7. IsHand(f, <<"task", 1>>)
  BY <1>2 DEF IsHand
<1>8. \A i, j \in DOMAIN tasks' :
        /\ <<"task", i + 1>> # <<"task", 1>>
        /\ <<"task", i + 1>> = <<"task", j + 1>> => i = j
  BY <1>2
<1>. HIDE DEF f
<1>9. ASSUME NEW g \in ClientFds
      PROVE  OneHand(g)'
  <2>0. OneHand(g)
    BY DEF BurstInv
  <2>1. ASSUME NEW x, IsHand(g, x)'
        PROVE  \/ g = f /\ x = <<"job", w>>
               \/ IsHand(g, x) /\ \A i : x # <<"task", i>>
               \/ \E i \in DOMAIN tasks' : x = <<"task", i>> /\ IsHand(g, <<"task", i + 1>>)
    BY <1>1, <1>2, <1>4, <2>1 DEF IsHand, f
  <2>2. CASE g = f
    <3>1. IsHand(g, <<"task", 1>>)
      BY <1>7, <2>2
    <3>2. \A x : IsHand(g, x) => x = <<"task", 1>>
      BY <2>0, <3>1, Members DEF OneHand
    <3>3. ASSUME NEW x, IsHand(g, x)'
          PROVE  x = <<"job", w>>
      BY <1>8, <2>1, <3>2, <3>3
    <3>4. fdTable'[g] \in Conns
      BY <1>1, <2>0, <3>1, HeldIsConn
    <3>. QED
      BY <3>3, <3>4, MembersNext DEF OneHand
  <2>3. CASE g # f
    <3>1. ASSUME NEW x, NEW y, IsHand(g, x)', IsHand(g, y)'
          PROVE  x = y
      <4>1. \A p, q : IsHand(g, p) /\ IsHand(g, q) => p = q
        BY <2>0, Members DEF OneHand
      <4>2. ASSUME NEW z, IsHand(g, z)'
            PROVE  \/ IsHand(g, z) /\ \A i : z # <<"task", i>>
                   \/ \E i \in DOMAIN tasks' : z = <<"task", i>> /\ IsHand(g, <<"task", i + 1>>)
        BY <2>1, <2>3, <4>2
      <4>3. CASE IsHand(g, x) /\ \A i : x # <<"task", i>>
        BY <3>1, <4>1, <4>2, <4>3
      <4>4. CASE \E i \in DOMAIN tasks' : x = <<"task", i>> /\ IsHand(g, <<"task", i + 1>>)
        <5>. PICK i \in DOMAIN tasks' : x = <<"task", i>> /\ IsHand(g, <<"task", i + 1>>)
          BY <4>4
        <5>1. CASE IsHand(g, y) /\ \A j : y # <<"task", j>>
          BY <4>1, <5>1
        <5>2. CASE \E j \in DOMAIN tasks' : y = <<"task", j>> /\ IsHand(g, <<"task", j + 1>>)
          BY <1>8, <4>1, <5>2
        <5>. QED
          BY <3>1, <4>2, <5>1, <5>2
      <4>. QED
        BY <3>1, <4>2, <4>3, <4>4
    <3>2. ASSUME NEW x, IsHand(g, x)'
          PROVE  fdTable'[g] \in Conns
      BY <1>1, <2>0, <2>1, <2>3, <3>2, HeldIsConn
    <3>. QED
      BY <3>1, <3>2, MembersNext DEF OneHand
  <2>. QED
    BY <2>2, <2>3
<1>. QED
  BY <1>6, <1>9

\* A free number is neither a file nor a connection, and a file is not one.
LEMMA FreeFacts == Free # File /\ Free \notin Conns /\ File \notin Conns
<1>1. ASSUME Free = File
      PROVE  FALSE
  <2>1. {Free, Stdin, File} = {Stdin} \cup {Free}
    BY <1>1
  <2>2. Cardinality({Stdin} \cup {Free}) # 3
    <3>1. IsFiniteSet({Stdin}) /\ Cardinality({Stdin}) = 1
      BY FS_Singleton
    <3>2. Cardinality({Stdin} \cup {Free})
            = IF Free \in {Stdin} THEN Cardinality({Stdin}) ELSE Cardinality({Stdin}) + 1
      BY <3>1, FS_AddElement
    <3>. QED
      BY <3>1, <3>2
  <2>. QED
    BY <2>1, <2>2, ConnsAssumption
<1>. QED
  BY <1>1, ConnsAssumption

\* A worker opens a file under a number that nobody holds.
LEMMA OpenedOnce ==
  ASSUME BurstInv, NEW w \in Workers, DoRequest(w)
  PROVE  (\A g \in ClientFds : OneHand(g)') /\ FilesAreOwn'
<1>0. TypeOK
  BY DEF BurstInv, Base
<1>. DEFINE f == job[w].fd
<1>1. job[w] \in Job /\ f \in ClientFds
  BY <1>0 DEF DoRequest, TypeOK, Job, Idle
<1>2. /\ \A v \in Workers : job'[v].fd = job[v].fd
      /\ tasks' = tasks /\ events' = events /\ mask' = mask
      /\ mpc' = mpc /\ client_fd' = client_fd
  BY <1>0, <1>1 DEF DoRequest, Job, TypeOK, reactorVars, mainVars
<1>3. \A h \in ClientFds \ {f} : users'[h].m_file_fd = users[h].m_file_fd
  BY <1>0, <1>1 DEF DoRequest, TypeOK
<1>4. \/ fdTable' = fdTable /\ users'[f].m_file_fd \in {users[f].m_file_fd, NoFd}
      \/ \E k \in FreeFds : /\ fdTable' = [fdTable EXCEPT ![k] = File]
                            /\ users'[f].m_file_fd = k
  <2>. DEFINE One == [users EXCEPT ![f].answers = job[w].of, ![f].bytes_to_send = Chunks]
              Two(k) == [users EXCEPT ![f].answers = job[w].of, ![f].bytes_to_send = Chunks,
                                      ![f].m_file_fd = k]
  <2>0. f \in DOMAIN users /\ users[f] \in Slot
    BY <1>0, <1>1 DEF TypeOK
  <2>1. /\ One[f].m_file_fd = users[f].m_file_fd
        /\ \A k : Two(k)[f].m_file_fd = k
    BY <2>0 DEF Slot
  <2>2. CASE users' = One /\ UNCHANGED fdTable
    BY <2>1, <2>2
  <2>3. ASSUME NEW k \in LowestFree, fdTable' = [fdTable EXCEPT ![k] = File], users' = Two(k)
        PROVE  k \in FreeFds /\ users'[f].m_file_fd = k
    BY <2>1, <2>3 DEF LowestFree
  <2>4. CASE users' = [users EXCEPT ![f].m_file_fd = NoFd] /\ UNCHANGED fdTable
    BY <2>0, <2>4 DEF Slot
  <2>5. \/ users' = One /\ UNCHANGED fdTable
        \/ \E k \in LowestFree : fdTable' = [fdTable EXCEPT ![k] = File] /\ users' = Two(k)
        \/ users' = [users EXCEPT ![f].m_file_fd = NoFd] /\ UNCHANGED fdTable
    BY DEF DoRequest
  <2>. HIDE DEF One, Two
  <2>. QED
    BY <2>2, <2>3, <2>4, <2>5
<1>5. NoFd \notin ClientFds
  BY Bounds DEF NoFd, ClientFds
<1>6. CASE fdTable' = fdTable /\ users'[f].m_file_fd \in {users[f].m_file_fd, NoFd}
  <2>1. FilesAreOwn'
    BY <1>3, <1>5, <1>6 DEF BurstInv, FilesAreOwn
  <2>2. ASSUME NEW g \in ClientFds
        PROVE  OneHand(g)'
    <3>1. \A x : IsHand(g, x)' => IsHand(g, x)
      BY <1>2, <1>6 DEF IsHand
    <3>. QED
      BY <1>6, <3>1, Fewer DEF BurstInv
  <2>. QED
    BY <2>1, <2>2
<1>7. CASE \E k \in FreeFds : /\ fdTable' = [fdTable EXCEPT ![k] = File]
                              /\ users'[f].m_file_fd = k
  <2>. PICK k \in FreeFds : fdTable' = [fdTable EXCEPT ![k] = File] /\ users'[f].m_file_fd = k
    BY <1>7
  <2>1. k \in Fds /\ fdTable[k] = Free /\ fdTable'[k] = File
        /\ \A g \in Fds \ {k} : fdTable'[g] = fdTable[g]
    BY <1>0 DEF FreeFds, TypeOK
  <2>2. Free # File /\ Free \notin Conns /\ File \notin Conns
    BY FreeFacts
  <2>3. FilesAreOwn'
    <3>1. \A h \in ClientFds : users[h].m_file_fd \in ClientFds => users[h].m_file_fd # k
      BY <2>1, <2>2 DEF BurstInv, FilesAreOwn
    <3>2. \A h \in ClientFds \ {f} :
            users[h].m_file_fd \in ClientFds => fdTable'[users[h].m_file_fd] = File
      BY <2>1, <3>1, Bounds DEF BurstInv, FilesAreOwn
    <3>. QED
      BY <1>1, <1>3, <2>1, <3>1, <3>2 DEF BurstInv, FilesAreOwn
  <2>4. ASSUME NEW g \in ClientFds
        PROVE  OneHand(g)'
    <3>0. OneHand(g) /\ g \in Fds
      BY Bounds DEF BurstInv
    <3>1. \A x : IsHand(g, x)' => IsHand(g, x)
      BY <1>2, <2>1, <2>2, <3>0 DEF IsHand
    <3>2. fdTable'[g] = fdTable[g] \/ \A x : ~IsHand(g, x)
      BY <2>1, <2>2, <3>0, Unheld
    <3>. QED
      BY <3>0, <3>1, <3>2, Fewer
  <2>. QED
    BY <2>3, <2>4
<1>. QED
  BY <1>4, <1>6, <1>7

\* A worker arms what it has served.
LEMMA ArmedOnce ==
  ASSUME BurstInv, TypeOK', NEW w \in Workers, FinishTask(w)
  PROVE  (\A g \in ClientFds : OneHand(g)') /\ FilesAreOwn'
<1>0. TypeOK /\ Placed
  BY DEF BurstInv, Base
<1>. DEFINE f == job[w].fd
<1>1. /\ f \in ClientFds /\ f \in Fds
      /\ job'[w] = Idle /\ \A v \in Workers \ {w} : job'[v] = job[v]
      /\ tasks' = tasks /\ events' = events /\ users' = users
      /\ mpc' = mpc /\ client_fd' = client_fd
  BY <1>0, Bounds DEF FinishTask, TypeOK, Job, Idle, reactorVars, mainVars
<1>2. Close({}) /\ \E ev : Rearm(job[w].at, f, ev)
  BY DEF FinishTask
<1>3. {} \in SUBSET Fds /\ fdTable' = fdTable
  BY <1>0, <1>2 DEF Close, TypeOK
<1>4. FilesAreOwn'
  BY <1>1, <1>3 DEF BurstInv, FilesAreOwn
<1>5. ASSUME NEW g \in ClientFds, NEW c \in Conns, fdTable'[g] = c, mask'[c] # "off"
      PROVE  fdTable[g] = c /\ (g # f => mask[c] # "off")
  BY <1>0, <1>1, <1>2, <1>3, <1>5, ArmedAnew, Bounds
<1>6. 0 \notin ClientFds
  BY Bounds
<1>7. ASSUME NEW g \in ClientFds
      PROVE  OneHand(g)'
  <2>0. OneHand(g)
    BY DEF BurstInv
  <2>1. CASE g # f
    <3>1. \A x : IsHand(g, x)' => IsHand(g, x)
      BY <1>1, <1>5, <1>6, <2>1 DEF IsHand, Idle
    <3>. QED
      BY <1>3, <2>0, <3>1, Fewer
  <2>2. CASE g = f
    <3>1. IsHand(g, <<"job", w>>)
      BY <2>2 DEF IsHand
    <3>2. \A x : IsHand(g, x)' => x = <<"armed", fdTable[g]>> \/ (x # <<"job", w>> /\ IsHand(g, x))
      BY <1>1, <1>5, <1>6, <2>2 DEF IsHand, Idle
    <3>. QED
      BY <1>3, <2>0, <3>1, <3>2, Passed
  <2>. QED
    BY <2>1, <2>2
<1>. QED
  BY <1>4, <1>7

\* The main reactor takes a number that nobody holds.
LEMMA AcceptedOnce ==
  ASSUME BurstInv, NEW c \in Conns, Accept(c)
  PROVE  (\A g \in ClientFds : OneHand(g)') /\ FilesAreOwn'
<1>0. TypeOK /\ Registered /\ OffOutside
  BY DEF BurstInv, Base
<1>1. PICK f \in LowestFree :
        /\ fdTable' = [fdTable EXCEPT ![f] = c]
        /\ IF f <= 0
             THEN mpc' = "gave_up" /\ UNCHANGED client_fd
             ELSE mpc' = "init" /\ client_fd' = f
  BY DEF Accept
<1>2. /\ f \in Fds /\ fdTable[f] = Free /\ fdTable'[f] = c
      /\ \A g \in Fds \ {f} : fdTable'[g] = fdTable[g]
  BY <1>0, <1>1 DEF LowestFree, FreeFds, TypeOK
<1>3. /\ tasks' = tasks /\ job' = job /\ events' = events /\ mask' = mask /\ users' = users
      /\ mpc = "accept"
  BY DEF Accept, poolVars, reactorVars
<1>4. mask[c] = "off"
  BY <1>0 DEF Accept, Backlog, Registered, OffOutside
<1>5. FilesAreOwn'
  BY <1>2, <1>3, FreeFacts, Bounds DEF BurstInv, FilesAreOwn
<1>6. ASSUME NEW g \in ClientFds
      PROVE  OneHand(g)'
  <2>0. OneHand(g) /\ g \in Fds
    BY Bounds DEF BurstInv
  <2>1. CASE g # f
    <3>1. \A x : IsHand(g, x)' => IsHand(g, x)
      BY <1>1, <1>2, <1>3, <2>0, <2>1 DEF IsHand
    <3>. QED
      BY <1>2, <2>0, <2>1, <3>1, Fewer
  <2>2. CASE g = f
    <3>1. \A x : ~IsHand(g, x)
      BY <1>2, <2>0, <2>2, FreeFacts, Unheld
    <3>2. \A x : IsHand(g, x)' => x = <<"main", "init">>
      BY <1>1, <1>2, <1>3, <1>4, <2>2, <3>1 DEF IsHand
    <3>. QED
      BY <1>2, <2>2, <3>2, MembersNext DEF OneHand
  <2>. QED
    BY <2>1, <2>2
<1>. QED
  BY <1>5, <1>6

\* It closes the file of its own slot only.
LEMMA SweptOnce ==
  ASSUME BurstInv, TypeOK', InitSlot
  PROVE  (\A g \in ClientFds : OneHand(g)') /\ FilesAreOwn'
<1>0. TypeOK /\ client_fd \in ClientFds /\ mpc = "init"
  BY DEF BurstInv, Base, MainHolds, InitSlot
<1>. DEFINE f == client_fd
<1>1. /\ tasks' = tasks /\ job' = job /\ events' = events
      /\ mpc' = "add" /\ client_fd' = client_fd
      /\ Close(FileFd(f)) /\ KeepArmed
  BY DEF InitSlot, poolVars, reactorVars
<1>2. FileFd(f) \in SUBSET Fds /\ FileFd(f) \in SUBSET (FileFd(f) \cup {f}) /\ f \in Fds
  BY <1>0, FileFds, Bounds
<1>3. IsHand(f, <<"main", "init">>)
  BY <1>0 DEF IsHand
<1>4. fdTable[f] \in Conns
  BY <1>0, <1>3, HeldIsConn DEF BurstInv
<1>5. FilesAreOwn'
  <2>1. users'[f].m_file_fd = NoFd /\ \A h \in ClientFds \ {f} : users'[h] = users[h]
    BY <1>0 DEF InitSlot, TypeOK, Swept
  <2>. QED
    BY <1>0, <1>1, <1>2, <1>4, <2>1, FilesKept DEF BurstInv
<1>6. \A g \in ClientFds, c \in Conns :
        fdTable'[g] = c /\ mask'[c] # "off" => fdTable[g] = c /\ mask[c] # "off"
  BY <1>0, <1>1, <1>2, ArmedLess, Bounds
<1>7. ASSUME NEW g \in ClientFds
      PROVE  OneHand(g)'
  <2>0. OneHand(g) /\ FilesAreOwn
    BY DEF BurstInv
  <2>1. CASE g # f
    <3>1. \A x : IsHand(g, x)' => IsHand(g, x)
      BY <1>1, <1>6, <2>1 DEF IsHand
    <3>2. fdTable'[g] = fdTable[g] \/ \A x : ~IsHand(g, x)
      BY <1>0, <1>1, <1>2, <2>0, <2>1, ClosedWith
    <3>. QED
      BY <2>0, <3>1, <3>2, Fewer
  <2>2. CASE g = f
    <3>1. \A x : IsHand(g, x)' => x = <<"main", "add">> \/ (x # <<"main", "init">> /\ IsHand(g, x))
      BY <1>1, <1>6, <2>2 DEF IsHand
    <3>2. f \notin FileFd(f)
      BY <1>0, <1>4, ConnsAssumption DEF BurstInv, FilesAreOwn, FileFd
    <3>3. fdTable'[g] = fdTable[g]
      BY <1>0, <1>1, <1>2, <2>2, <3>2, CloseFacts
    <3>. QED
      BY <1>3, <2>0, <2>2, <3>1, <3>3, Passed, SMTT(30)
  <2>. QED
    BY <2>1, <2>2
<1>. QED
  BY <1>5, <1>7

\* And passes the connection to a sub-reactor's epoll.
LEMMA AddedOnce ==
  ASSUME BurstInv, AddToEpoll
  PROVE  (\A g \in ClientFds : OneHand(g)') /\ FilesAreOwn'
<1>0. TypeOK /\ Placed /\ client_fd \in ClientFds /\ client_fd \in Fds /\ mpc = "add"
  BY Bounds DEF BurstInv, Base, MainHolds, AddToEpoll
<1>. DEFINE f == client_fd
            c == fdTable[f]
<1>1. /\ tasks' = tasks /\ job' = job /\ events' = events
      /\ users' = users /\ fdTable' = fdTable
      /\ mpc' = "accept"
  BY DEF AddToEpoll, poolVars, reactorVars
<1>2. \A d \in Conns \ {c} : mask'[d] = mask[d]
  BY <1>0 DEF AddToEpoll, TypeOK
<1>3. FilesAreOwn'
  BY <1>1 DEF BurstInv, FilesAreOwn
<1>4. ASSUME NEW g \in ClientFds
      PROVE  OneHand(g)'
  <2>0. OneHand(g) /\ g \in Fds
    BY Bounds DEF BurstInv
  <2>1. CASE g # f
    <3>1. \A d \in Conns : fdTable[g] = d => d # c
      BY <1>0, <2>0, <2>1 DEF Placed
    <3>2. \A x : IsHand(g, x)' => IsHand(g, x)
      BY <1>1, <1>2, <3>1 DEF IsHand
    <3>. QED
      BY <1>1, <2>0, <3>2, Fewer
  <2>2. CASE g = f
    <3>1. IsHand(g, <<"main", "add">>)
      BY <1>0, <2>2 DEF IsHand
    <3>2. \A x : IsHand(g, x)' => x = <<"armed", c>> \/ (x # <<"main", "add">> /\ IsHand(g, x))
      BY <1>1, <2>2 DEF IsHand
    <3>. QED
      BY <1>1, <2>0, <3>1, <3>2, Passed
  <2>. QED
    BY <2>1, <2>2
<1>. QED
  BY <1>3, <1>4

\* What neither touches a descriptor nor who holds it.
LEMMA OthersOnce ==
  ASSUME BurstInv, UNCHANGED <<fdTable, mask, users, events, poolVars>>,
         mpc' \in {"init", "add"} => UNCHANGED <<mpc, client_fd>>
  PROVE  (\A g \in ClientFds : OneHand(g)') /\ FilesAreOwn'
<1>1. FilesAreOwn'
  BY DEF BurstInv, FilesAreOwn
<1>2. ASSUME NEW g \in ClientFds
      PROVE  OneHand(g)'
  <2>1. \A x : IsHand(g, x)' => IsHand(g, x)
    BY DEF IsHand, poolVars
  <2>. QED
    BY <2>1, Fewer DEF BurstInv
<1>. QED
  BY <1>1, <1>2

\* Every step within a tick keeps each descriptor in one hand.
LEMMA StepBurst == BurstInv /\ [NextWithinTick]_vars => BurstInv'
<1>. SUFFICES ASSUME BurstInv, [NextWithinTick]_vars
              PROVE  BurstInv'
  OBVIOUS
<1>. USE DEF vars, clientVars, kernelVars, reactorVars, poolVars, mainVars
<1>. DEFINE Kept == (\A g \in ClientFds : OneHand(g)') /\ FilesAreOwn'
<1>0. Base /\ Base' /\ TypeOK /\ TypeOK'
  BY StepBase DEF Next, BurstInv, Base
<1>1. NothingDue' /\ NobodyInRecv'
  BY StepNothingDue, StepNobodyInRecv DEF BurstInv, NothingDue
<1>2. ASSUME \/ ClientStep \/ HearBell \/ AcceptNobody \/ AcceptFails \/ UNCHANGED vars
             \/ \E r \in Reactors : TickDone(r) \/ HandleDone(r)
      PROVE  Kept
  BY <1>2, OthersOnce DEF ClientStep, Connect, Send, HangUp, HearBell, AcceptNobody,
                          AcceptFails, TickDone, HandleDone
<1>3. ASSUME NEW r \in Reactors, TickFire(r)
      PROVE  FALSE
  BY <1>3 DEF TickFire, BurstInv, NothingDue
<1>4. ASSUME NEW r \in Reactors, NEW f \in ClientFds, OnHangUp(r, f)
      PROVE  Kept
  BY <1>0, <1>4, HandledOnce DEF OnHangUp
<1>5. ASSUME NEW r \in Reactors, NEW f \in ClientFds, OnReadable(r, f)
      PROVE  Kept
  <2>1. \A h \in ClientFds : users'[h].m_file_fd = users[h].m_file_fd
    <3>1. users[f] \in Slot
      BY <1>0 DEF TypeOK
    <3>2. fdTable[f] \in Conns => Drained(f, fdTable[f]).m_file_fd = users[f].m_file_fd
      BY <3>1 DEF Drained, Slot
    <3>3. CASE fdTable[f] \in Conns
      <4>1. users' = [users EXCEPT ![f] = Drained(f, fdTable[f])]
        BY <1>5, <3>3 DEF OnReadable, Receive
      <4>2. users'[f] = Drained(f, fdTable[f]) /\ \A h \in ClientFds \ {f} : users'[h] = users[h]
        BY <1>0, <4>1 DEF TypeOK
      <4>. QED
        BY <3>2, <3>3, <4>2
    <3>4. CASE fdTable[f] \notin Conns
      BY <1>5, <3>4 DEF OnReadable, Receive
    <3>. QED
      BY <3>3, <3>4
  <2>2. CASE tasks' = Append(tasks, <<f, r>>) /\ UNCHANGED kernelVars
    BY <1>5, <2>1, <2>2, QueuedOnce DEF OnReadable
  <2>3. CASE Close({f}) /\ KeepArmed /\ UNCHANGED tasks
    BY <1>0, <1>5, <2>1, <2>3, HandledOnce DEF OnReadable
  <2>. QED
    BY <1>5, <2>2, <2>3 DEF OnReadable, ReadReturns
<1>6. ASSUME NEW r \in Reactors, NEW f \in ClientFds, OnWritable(r, f)
      PROVE  Kept
  <2>0. users \in [ClientFds -> Slot] /\ users[f] \in Slot /\ Swept.m_file_fd = NoFd
    BY <1>0 DEF TypeOK, Swept
  <2>1. Handling(r, f, "out") /\ tasks' = tasks /\ job' = job
    BY <1>6 DEF OnWritable, OnWritableIdle, OnWritablePart, OnWritableLast, OnWritableError
  <2>2. ASSUME NEW s, users' = [users EXCEPT ![f] = s], s.m_file_fd = NoFd,
               NEW fds \in SUBSET (FileFd(f) \cup {f}), Close(fds),
               KeepArmed \/ \E e : Rearm(r, f, e)
        PROVE  Kept
    <3>1. users'[f].m_file_fd = NoFd /\ \A h \in ClientFds \ {f} : users'[h] = users[h]
      BY <1>0, <2>2 DEF TypeOK
    <3>. QED
      BY <1>0, <2>1, <2>2, <3>1, HandledOnce
  <2>3. CASE OnWritableIdle(r, f)
    BY <2>0, <2>2, <2>3 DEF OnWritableIdle
  <2>4. CASE OnWritablePart(r, f)
    <3>1. PICK left : users' = [users EXCEPT ![f].bytes_to_send = left]
      BY <2>4 DEF OnWritablePart
    <3>2. \A h \in ClientFds : users'[h].m_file_fd = users[h].m_file_fd
      BY <1>0, <2>0, <3>1 DEF TypeOK, Slot
    <3>. QED
      BY <1>0, <2>1, <2>4, <3>2, HandledOnce DEF OnWritablePart
  <2>5. CASE OnWritableLast(r, f)
    <3>1. [users[f] EXCEPT !.bytes_to_send = 0, !.m_file_fd = NoFd].m_file_fd = NoFd
      BY <2>0 DEF Slot
    <3>2. [users EXCEPT ![f].bytes_to_send = 0, ![f].m_file_fd = NoFd]
            = [users EXCEPT ![f] = [users[f] EXCEPT !.bytes_to_send = 0, !.m_file_fd = NoFd]]
      BY <2>0 DEF Slot
    <3>. QED
      BY <2>0, <2>2, <2>5, <3>1, <3>2 DEF OnWritableLast
  <2>6. CASE OnWritableError(r, f)
    <3>1. [users[f] EXCEPT !.m_file_fd = NoFd].m_file_fd = NoFd
      BY <2>0 DEF Slot
    <3>2. [users EXCEPT ![f].m_file_fd = NoFd]
            = [users EXCEPT ![f] = [users[f] EXCEPT !.m_file_fd = NoFd]]
      BY <1>0 DEF TypeOK
    <3>. QED
      BY <2>2, <2>6, <3>1, <3>2 DEF OnWritableError
  <2>. QED
    BY <1>6, <2>3, <2>4, <2>5, <2>6 DEF OnWritable
<1>. QED
  <2>1. Kept
    BY <1>0, <1>2, <1>3, <1>4, <1>5, <1>6, NoRecv, ReportedOnce, TakenOnce, OpenedOnce, ArmedOnce,
       AcceptedOnce, SweptOnce, AddedOnce
    DEF NextWithinTick, SubReactorStep, WorkerStep, MainStep
  <2>. QED
    BY <1>0, <1>1, <2>1 DEF BurstInv

\* When nothing has been accepted, nobody holds anything.
LEMMA InitBurst == Init => BurstInv
<1>. SUFFICES ASSUME Init
              PROVE  BurstInv
  OBVIOUS
<1>1. Base
  BY InitBase
<1>2. \A f \in ClientFds : \A x : ~IsHand(f, x)
  BY Bounds DEF Init, IsHand, Idle
<1>3. NothingDue /\ FilesAreOwn /\ NobodyInRecv
  BY Bounds DEF Init, NothingDue, FilesAreOwn, NobodyInRecv, NoDeadline, Unborn, Swept
<1>. QED
  BY <1>1, <1>2, <1>3, Members DEF BurstInv, OneHand

(* As long as no timer fires, EPOLLONESHOT and the hand-overs between main *)
(* reactor, sub-reactor and worker keep every slot in one hand, whatever   *)
(* is closed, reused and opened meanwhile (main.cpp 52, 78-143, 246-254).  *)
THEOREM SlotsAreExclusive == BurstSpec => []ExclusiveSlot
<1>1. BurstInv => ExclusiveSlot
  <2>. SUFFICES ASSUME BurstInv, NEW f \in ClientFds
                PROVE  Cardinality(Hands(f)) <= 1
    BY DEF ExclusiveSlot
  <2>1. Hands(f) = {} \/ \E x : Hands(f) = {x}
    BY DEF BurstInv, OneHand
  <2>2. CASE Hands(f) = {}
    BY <2>2, FS_EmptySet
  <2>3. ASSUME NEW x, Hands(f) = {x}
        PROVE  Cardinality(Hands(f)) <= 1
    <3>1. Cardinality({x}) = 1
      BY FS_Singleton
    <3>. QED
      BY <2>3, <3>1
  <2>. QED
    BY <2>1, <2>2, <2>3
<1>. QED
  BY InitBurst, <1>1, StepBurst, PTL DEF BurstSpec
-----------------------------------------------------------------------------
(* Whose request is in a slot, in a worker's hand and behind a reply.      *)

\* What slot record s holds is connection c's, if it holds anything.
Own(s, c) ==
  /\ s.from \in {NoConn, c}
  /\ s.whole => s.from = c
  /\ s.bytes_to_send > 0 => s.answers = c

\* So is every slot of a connection, once init() has swept it.
SlotsOwn ==
  \A f \in ClientFds, c \in Conns :
    fdTable[f] = c => (mpc = "init" /\ client_fd = f) \/ Own(users[f], c)

\* A worker answers the connection that is at its descriptor.
JobsOwn == \A w \in Workers : job[w].stage = "request" => job[w].of = fdTable[job[w].fd]

ReplyInv == BurstInv /\ SlotsOwn /\ JobsOwn /\ OwnRepliesOnly

\* A slot that init() has swept is anybody's.
LEMMA SweptOwn == \A c : Own(Swept, c)
BY DEF Own, Swept

\* A slot that recv has drained c into is c's.
LEMMA DrainedOwn ==
  ASSUME TypeOK, NEW f \in ClientFds, NEW c \in Conns, Own(users[f], c)
  PROVE  Own(Drained(f, c), c)
<1>1. users[f] \in Slot
  BY DEF TypeOK
<1>. QED
  BY <1>1 DEF Own, Drained, Slot

\* A held slot is its connection's, unless the main reactor is about to sweep it.
LEMMA HeldOwn ==
  ASSUME ReplyInv, NEW f \in ClientFds, NEW x, IsHand(f, x), x # <<"main", "init">>
  PROVE  fdTable[f] \in Conns /\ Own(users[f], fdTable[f])
<1>1. OneHand(f)
  BY DEF ReplyInv, BurstInv
<1>2. ~(mpc = "init" /\ client_fd = f)
  <2>1. ASSUME mpc = "init" /\ client_fd = f
        PROVE  FALSE
    <3>1. IsHand(f, <<"main", "init">>)
      BY <2>1 DEF IsHand
    <3>. QED
      BY <1>1, <3>1, Members DEF OneHand
  <2>. QED
    BY <2>1
<1>3. fdTable[f] \in Conns
  BY <1>1, HeldIsConn
<1>. QED
  BY <1>2, <1>3 DEF ReplyInv, SlotsOwn

\* A worker's descriptor is its own.
LEMMA JobIsHand ==
  ASSUME TypeOK, NEW w \in Workers, job[w].stage # "idle"
  PROVE  job[w].fd \in ClientFds /\ IsHand(job[w].fd, <<"job", w>>)
BY DEF TypeOK, Job, Idle, IsHand

\* Steps that close the file and perhaps the descriptor they have in hand.
LEMMA OwnAfterClose ==
  ASSUME ReplyInv, NEW f \in ClientFds, NEW x, IsHand(f, x), \A w \in Workers : x # <<"job", w>>,
         NEW fds \in SUBSET (FileFd(f) \cup {f}), Close(fds), job' = job,
         UNCHANGED <<mpc, client_fd>> \/ (mpc' # "init" /\ client_fd = f),
         \A h \in ClientFds \ {f} : users'[h] = users[h],
         f \in fds \/ Own(users'[f], fdTable[f])
  PROVE  SlotsOwn' /\ JobsOwn'
<1>0. TypeOK /\ FilesAreOwn /\ fds \in SUBSET Fds /\ ClientFds \subseteq Fds
      /\ \A g \in ClientFds : OneHand(g)
  BY FileFds, Bounds DEF ReplyInv, BurstInv, Base
<1>1. SlotsOwn'
  <2>. SUFFICES ASSUME NEW g \in ClientFds, NEW c \in Conns, fdTable'[g] = c
                PROVE  (mpc' = "init" /\ client_fd' = g) \/ Own(users'[g], c)
    BY DEF SlotsOwn
  <2>1. fdTable[g] = c /\ g \notin fds
    BY <1>0, CloseFacts
  <2>2. CASE g = f
    BY <2>1, <2>2
  <2>3. CASE g # f
    BY <2>1, <2>3 DEF ReplyInv, SlotsOwn
  <2>. QED
    BY <2>2, <2>3
<1>2. JobsOwn'
  <2>. SUFFICES ASSUME NEW w \in Workers, job[w].stage = "request"
                PROVE  job[w].of = fdTable'[job[w].fd]
    BY DEF JobsOwn
  <2>. DEFINE g == job[w].fd
  <2>1. g \in ClientFds /\ IsHand(g, <<"job", w>>)
    BY <1>0, JobIsHand
  <2>2. g # f
    BY <1>0, <2>1, Members DEF OneHand
  <2>3. fdTable'[g] = fdTable[g]
    BY <1>0, <2>1, <2>2, ClosedWith
  <2>. QED
    BY <2>3 DEF ReplyInv, JobsOwn
<1>. QED
  BY <1>1, <1>2

\* Steps that touch neither slots nor descriptors.
LEMMA OwnUntouched ==
  ASSUME ReplyInv, UNCHANGED <<users, fdTable>>, mpc = "init" => mpc' = "init",
         UNCHANGED client_fd \/ mpc # "init",
         \A w \in Workers : job'[w].stage = "request" => job'[w] = job[w]
  PROVE  SlotsOwn' /\ JobsOwn'
BY DEF ReplyInv, SlotsOwn, JobsOwn

\* The reply that goes out of f's slot is its connection's.
LEMMA DeliveredOwn ==
  ASSUME ReplyInv, NEW f \in ClientFds, fdTable[f] \in Conns, Own(users[f], fdTable[f]),
         users[f].bytes_to_send > 0, got' = Replied(f)
  PROVE  OwnRepliesOnly'
<1>1. users[f].answers = fdTable[f]
  BY DEF Own
<1>2. got \in [Conns -> SUBSET (Conns \cup {NoConn})]
  BY DEF ReplyInv, BurstInv, Base, TypeOK
<1>. QED
  BY <1>1, <1>2 DEF Replied, ReplyInv, OwnRepliesOnly

\* A sub-reactor handles an event at f.
LEMMA HandledOwn ==
  ASSUME ReplyInv, TypeOK', NEW r \in Reactors, NEW f \in ClientFds,
         OnHangUp(r, f) \/ OnReadable(r, f) \/ OnWritable(r, f)
  PROVE  SlotsOwn' /\ JobsOwn' /\ OwnRepliesOnly'
<1>. DEFINE c == fdTable[f]
<1>0. /\ TypeOK /\ users \in [ClientFds -> Slot] /\ users[f] \in Slot
      /\ f \in Fds /\ f \in ClientFds
  BY Bounds DEF ReplyInv, BurstInv, Base, TypeOK
<1>1. PICK ev \in {"hup", "in", "out"} : Handling(r, f, ev)
  BY DEF OnHangUp, OnReadable, OnWritable, OnWritableIdle, OnWritablePart, OnWritableLast,
         OnWritableError
<1>2. IsHand(f, <<"event", r>>) /\ \A w \in Workers : <<"event", r>> # <<"job", w>>
  BY <1>1 DEF Handling, IsHand
<1>3. c \in Conns /\ Own(users[f], c)
  BY <1>2, HeldOwn
<1>4. mpc' = mpc /\ client_fd' = client_fd
  BY <1>1 DEF Handling, mainVars
<1>5. job' = job
  BY DEF OnHangUp, OnReadable, OnWritable, OnWritableIdle, OnWritablePart, OnWritableLast,
         OnWritableError, poolVars
<1>6. ASSUME NEW s, users' = [users EXCEPT ![f] = s], Own(s, c),
             NEW fds \in SUBSET (FileFd(f) \cup {f}), Close(fds)
      PROVE  SlotsOwn' /\ JobsOwn'
  <2>1. users'[f] = s /\ \A h \in ClientFds \ {f} : users'[h] = users[h]
    BY <1>0, <1>6
  <2>2. f \in fds \/ Own(users'[f], fdTable[f])
    BY <1>6, <2>1
  <2>. QED
    BY <1>2, <1>4, <1>5, <1>6, <2>1, <2>2, OwnAfterClose
<1>7. CASE OnHangUp(r, f)
  <2>1. Close({f}) /\ {f} \in SUBSET (FileFd(f) \cup {f}) /\ users' = users /\ got' = got
    BY <1>7 DEF OnHangUp
  <2>2. SlotsOwn' /\ JobsOwn'
    BY <1>2, <1>4, <1>5, <2>1, OwnAfterClose
  <2>. QED
    BY <2>1, <2>2 DEF ReplyInv, OwnRepliesOnly
<1>8. CASE OnReadable(r, f)
  <2>1. users' = [users EXCEPT ![f] = Drained(f, c)] /\ Own(Drained(f, c), c) /\ got' = got
    BY <1>0, <1>3, <1>8, DrainedOwn DEF OnReadable, Receive
  <2>2. \E fds \in SUBSET (FileFd(f) \cup {f}) : Close(fds)
    <3>1. {} \in SUBSET (FileFd(f) \cup {f}) /\ {f} \in SUBSET (FileFd(f) \cup {f})
      OBVIOUS
    <3>2. UNCHANGED kernelVars => Close({})
      BY <1>0 DEF kernelVars, Close, ClosedBy, TypeOK
    <3>. QED
      BY <1>8, <3>1, <3>2 DEF OnReadable, ReadReturns
  <2>3. SlotsOwn' /\ JobsOwn'
    BY <1>6, <2>1, <2>2
  <2>. QED
    BY <2>1, <2>3 DEF ReplyInv, OwnRepliesOnly
<1>9. CASE OnWritable(r, f)
  <2>1. CASE OnWritableIdle(r, f)
    <3>1. got' = got /\ users' = [users EXCEPT ![f] = Swept] /\ Close(FileFd(f))
      BY <2>1 DEF OnWritableIdle
    <3>2. SlotsOwn' /\ JobsOwn'
      BY <1>6, <3>1, SweptOwn
    <3>. QED
      BY <3>1, <3>2 DEF ReplyInv, OwnRepliesOnly
  <2>2. CASE OnWritablePart(r, f)
    <3>1. PICK left \in 1 .. Chunks :
            Deliver(f, left) /\ users' = [users EXCEPT ![f].bytes_to_send = left]
      BY <2>2 DEF OnWritablePart
    <3>2. users[f].bytes_to_send > 0 /\ got' = Replied(f)
      BY <1>0, <3>1, Bounds DEF Deliver, Slot
    <3>3. users[f].answers = c /\ Own([users[f] EXCEPT !.bytes_to_send = left], c)
      BY <1>0, <1>3, <3>2 DEF Own, Slot
    <3>4. users' = [users EXCEPT ![f] = [users[f] EXCEPT !.bytes_to_send = left]]
      BY <3>1
    <3>5. Close({}) /\ {} \in SUBSET (FileFd(f) \cup {f})
      BY <2>2 DEF OnWritablePart
    <3>6. SlotsOwn' /\ JobsOwn'
      BY <1>6, <3>3, <3>4, <3>5
    <3>. QED
      BY <1>3, <3>2, <3>6, DeliveredOwn
  <2>3. CASE OnWritableLast(r, f)
    <3>1. users[f].bytes_to_send > 0 /\ got' = Replied(f)
      BY <2>3 DEF OnWritableLast, Deliver
    <3>2. ASSUME Close(FileFd(f)), users' = [users EXCEPT ![f] = Swept]
          PROVE  SlotsOwn' /\ JobsOwn'
      BY <1>6, <3>2, SweptOwn
    <3>3. ASSUME Close(FileFd(f) \cup {f}),
                 users' = [users EXCEPT ![f].bytes_to_send = 0, ![f].m_file_fd = NoFd]
          PROVE  SlotsOwn' /\ JobsOwn'
      <4>1. \A h \in ClientFds \ {f} : users'[h] = users[h]
        BY <1>0, <3>3
      <4>. QED
        BY <1>2, <1>4, <1>5, <3>3, <4>1, OwnAfterClose
    <3>. QED
      BY <1>3, <2>3, <3>1, <3>2, <3>3, DeliveredOwn DEF OnWritableLast
  <2>4. CASE OnWritableError(r, f)
    <3>1. /\ users[f].bytes_to_send > 0
          /\ got' = got \/ got' = Replied(f)
          /\ Close(FileFd(f) \cup {f})
          /\ users' = [users EXCEPT ![f].m_file_fd = NoFd]
      BY <2>4 DEF OnWritableError
    <3>2. OwnRepliesOnly'
      BY <1>3, <3>1, DeliveredOwn DEF ReplyInv, OwnRepliesOnly
    <3>3. \A h \in ClientFds \ {f} : users'[h] = users[h]
      BY <1>0, <3>1
    <3>4. SlotsOwn' /\ JobsOwn'
      BY <1>2, <1>4, <1>5, <3>1, <3>3, OwnAfterClose
    <3>. QED
      BY <3>2, <3>4
  <2>. QED
    BY <1>9, <2>1, <2>2, <2>3, <2>4 DEF OnWritable
<1>. QED
  BY <1>7, <1>8, <1>9

\* A worker takes a task: the request it finds is that of the connection there.
LEMMA TakenOwn ==
  ASSUME ReplyInv, NEW w \in Workers, TakeTask(w)
  PROVE  SlotsOwn' /\ JobsOwn'
<1>0. TypeOK /\ users \in [ClientFds -> Slot] /\ job \in [Workers -> Job \cup {Idle}]
  BY DEF ReplyInv, BurstInv, Base, TypeOK
<1>. DEFINE f == Head(tasks)[1]
            at == Head(tasks)[2]
            c == fdTable[f]
            slot == IF c \in Conns THEN Drained(f, c) ELSE users[f]
            whole == Talking(f) /\ slot.whole
<1>1. tasks \in Seq(Task) /\ tasks # <<>> /\ UNCHANGED <<fdTable, mpc, client_fd>>
  BY <1>0 DEF TakeTask, TypeOK, kernelVars, mainVars
<1>2. 1 \in DOMAIN tasks /\ Head(tasks) = tasks[1] /\ Head(tasks) \in Task
  BY <1>1, HeadTailProperties, LenProperties, EmptySeq
<1>3. f \in ClientFds /\ IsHand(f, <<"task", 1>>)
  BY <1>2 DEF Task, IsHand
<1>4. c \in Conns /\ Own(users[f], c)
  BY <1>3, HeldOwn
<1>5. slot = Drained(f, c) /\ Own(slot, c) /\ slot \in Slot
  BY <1>0, <1>3, <1>4, DrainedOwn, DrainedTypes
<1>6. \E s : /\ users' = [users EXCEPT ![f] = s]
             /\ s = slot \/ s = [slot EXCEPT !.from = NoConn, !.whole = FALSE]
  BY DEF TakeTask
<1>7. job' = [job EXCEPT ![w] = [stage |-> IF whole THEN "request" ELSE "rearm", fd |-> f,
                                 at |-> at, of |-> IF whole THEN slot.from ELSE NoConn]]
  BY DEF TakeTask
<1>8. slot.whole => slot.from = c
  BY <1>5 DEF Own
<1>. HIDE DEF slot
<1>9. Own([slot EXCEPT !.from = NoConn, !.whole = FALSE], c)
  BY <1>5 DEF Own, Slot
<1>10. SlotsOwn'
  <2>1. PICK s : users' = [users EXCEPT ![f] = s] /\ Own(s, c)
    BY <1>5, <1>6, <1>9
  <2>2. users'[f] = s /\ \A h \in ClientFds \ {f} : users'[h] = users[h]
    BY <1>0, <1>3, <2>1
  <2>. QED
    BY <1>1, <2>1, <2>2 DEF ReplyInv, SlotsOwn
<1>. HIDE DEF f
<1>11. JobsOwn'
  <2>1. job'[w].stage = "request" => job'[w].fd = f /\ job'[w].of = c
    BY <1>0, <1>7, <1>8
  <2>2. \A v \in Workers \ {w} : job'[v] = job[v]
    BY <1>0, <1>7
  <2>. QED
    BY <1>1, <2>1, <2>2 DEF ReplyInv, JobsOwn
<1>. QED
  BY <1>10, <1>11

\* It answers the connection whose request it has taken, and opens no
\* descriptor that a connection has.
LEMMA ServedOwn ==
  ASSUME ReplyInv, NEW w \in Workers, DoRequest(w)
  PROVE  SlotsOwn' /\ JobsOwn'
<1>0. TypeOK /\ users \in [ClientFds -> Slot] /\ job \in [Workers -> Job \cup {Idle}]
      /\ ClientFds \subseteq Fds
  BY Bounds DEF ReplyInv, BurstInv, Base, TypeOK
<1>. DEFINE f == job[w].fd
            c == fdTable[f]
<1>1. /\ job[w].stage = "request" /\ job' = [job EXCEPT ![w].stage = "rearm"]
      /\ UNCHANGED <<mpc, client_fd>>
  BY DEF DoRequest, mainVars
<1>2. f \in ClientFds /\ IsHand(f, <<"job", w>>)
  BY <1>0, <1>1, JobIsHand
<1>3. c \in Conns /\ Own(users[f], c) /\ job[w].of = c
  BY <1>1, <1>2, HeldOwn DEF ReplyInv, JobsOwn
<1>4. \A g \in Fds : fdTable'[g] # fdTable[g] => fdTable[g] = Free /\ fdTable'[g] = File
  BY <1>0 DEF DoRequest, LowestFree, FreeFds, TypeOK
<1>5. \A g \in Fds, d \in Conns : fdTable'[g] = d <=> fdTable[g] = d
  BY <1>4, FreeFacts
<1>6. \A h \in ClientFds \ {f} : users'[h] = users[h]
  BY <1>0 DEF DoRequest
<1>7. Own(users'[f], c)
  <2>1. \A k : Own([users[f] EXCEPT !.answers = c, !.bytes_to_send = Chunks, !.m_file_fd = k], c)
    BY <1>0, <1>2, <1>3 DEF Own, Slot
  <2>2. Own([users[f] EXCEPT !.answers = c, !.bytes_to_send = Chunks], c)
    BY <1>0, <1>2, <1>3 DEF Own, Slot
  <2>3. Own([users[f] EXCEPT !.m_file_fd = NoFd], c)
    BY <1>0, <1>2, <1>3 DEF Own, Slot
  <2>4. \/ users'[f] = [users[f] EXCEPT !.answers = c, !.bytes_to_send = Chunks]
        \/ \E k : users'[f] = [users[f] EXCEPT !.answers = c, !.bytes_to_send = Chunks,
                                               !.m_file_fd = k]
        \/ users'[f] = [users[f] EXCEPT !.m_file_fd = NoFd]
    <3>1. job[w].of = c /\ f \in DOMAIN users
      BY <1>0, <1>2, <1>3
    <3>2. \/ users' = [users EXCEPT ![f].answers = c, ![f].bytes_to_send = Chunks]
          \/ \E k : users' = [users EXCEPT ![f].answers = c, ![f].bytes_to_send = Chunks,
                                           ![f].m_file_fd = k]
          \/ users' = [users EXCEPT ![f].m_file_fd = NoFd]
      BY <3>1 DEF DoRequest
    <3>3. ASSUME users' = [users EXCEPT ![f].answers = c, ![f].bytes_to_send = Chunks]
          PROVE  users'[f] = [users[f] EXCEPT !.answers = c, !.bytes_to_send = Chunks]
      BY <3>1, <3>3
    <3>4. ASSUME NEW k, users' = [users EXCEPT ![f].answers = c, ![f].bytes_to_send = Chunks,
                                               ![f].m_file_fd = k]
          PROVE  users'[f] = [users[f] EXCEPT !.answers = c, !.bytes_to_send = Chunks,
                                              !.m_file_fd = k]
      BY <3>1, <3>4
    <3>5. ASSUME users' = [users EXCEPT ![f].m_file_fd = NoFd]
          PROVE  users'[f] = [users[f] EXCEPT !.m_file_fd = NoFd]
      BY <3>1, <3>5
    <3>. QED
      BY <3>2, <3>3, <3>4, <3>5
  <2>. QED
    BY <2>1, <2>2, <2>3, <2>4
<1>8. SlotsOwn'
  BY <1>0, <1>1, <1>5, <1>6, <1>7 DEF ReplyInv, SlotsOwn
<1>9. JobsOwn'
  <2>. SUFFICES ASSUME NEW v \in Workers, job'[v].stage = "request"
                PROVE  job'[v].of = fdTable'[job'[v].fd]
    BY DEF JobsOwn
  <2>1. job'[v] = job[v]
    <3>1. v # w
      <4>1. job[w] \in Job
        BY <1>0, <1>1 DEF Idle
      <4>2. job'[w].stage = "rearm"
        BY <1>0, <1>1, <4>1 DEF Job
      <4>. QED
        BY <4>2
    <3>. QED
      BY <1>0, <1>1, <3>1
  <2>2. job[v].fd \in ClientFds /\ IsHand(job[v].fd, <<"job", v>>)
    BY <1>0, <2>1, JobIsHand
  <2>3. fdTable[job[v].fd] \in Conns /\ job[v].of = fdTable[job[v].fd]
    BY <2>1, <2>2, HeldOwn DEF ReplyInv, JobsOwn
  <2>. QED
    BY <1>0, <1>5, <2>1, <2>2, <2>3
<1>. QED
  BY <1>8, <1>9

\* A slot that a new connection gets is swept before it is used, and no
\* worker has the number that accept hands out.
LEMMA AcceptedOwn ==
  ASSUME ReplyInv, NEW c \in Conns, Accept(c)
  PROVE  SlotsOwn' /\ JobsOwn'
<1>0. TypeOK /\ ClientFds \subseteq Fds /\ 0 \notin ClientFds
      /\ \A g \in ClientFds : OneHand(g)
  BY Bounds DEF ReplyInv, BurstInv, Base
<1>1. PICK f \in LowestFree :
        /\ fdTable' = [fdTable EXCEPT ![f] = c]
        /\ IF f <= 0
             THEN mpc' = "gave_up" /\ UNCHANGED client_fd
             ELSE mpc' = "init" /\ client_fd' = f
  BY DEF Accept
<1>2. /\ f \in Fds /\ fdTable[f] = Free
      /\ \A g \in Fds \ {f} : fdTable'[g] = fdTable[g]
  BY <1>0, <1>1 DEF LowestFree, FreeFds, TypeOK
<1>3. users' = users /\ job' = job /\ mpc = "accept"
  BY DEF Accept, poolVars
<1>4. f \in ClientFds => mpc' = "init" /\ client_fd' = f
  BY <1>1 DEF ClientFds
<1>5. SlotsOwn'
  BY <1>0, <1>2, <1>3, <1>4 DEF ReplyInv, SlotsOwn
<1>6. JobsOwn'
  <2>. SUFFICES ASSUME NEW w \in Workers, job[w].stage = "request"
                PROVE  job[w].of = fdTable'[job[w].fd]
    BY <1>3 DEF JobsOwn
  <2>1. job[w].fd \in ClientFds /\ IsHand(job[w].fd, <<"job", w>>)
    BY <1>0, JobIsHand
  <2>2. job[w].fd # f
    BY <1>0, <1>2, <2>1, HeldIsConn, FreeFacts
  <2>. QED
    BY <1>0, <1>2, <2>1, <2>2 DEF ReplyInv, JobsOwn
<1>. QED
  BY <1>5, <1>6

\* init() leaves nothing of the connection before.
LEMMA SweptSlotOwn ==
  ASSUME ReplyInv, InitSlot
  PROVE  SlotsOwn' /\ JobsOwn'
<1>0. TypeOK /\ client_fd \in ClientFds /\ mpc = "init" /\ users \in [ClientFds -> Slot]
  BY DEF ReplyInv, BurstInv, Base, MainHolds, InitSlot, TypeOK
<1>1. IsHand(client_fd, <<"main", "init">>)
  BY <1>0 DEF IsHand
<1>2. /\ Close(FileFd(client_fd)) /\ FileFd(client_fd) \in SUBSET (FileFd(client_fd) \cup {client_fd})
      /\ job' = job /\ mpc' = "add" /\ client_fd' = client_fd
      /\ users'[client_fd] = Swept /\ \A h \in ClientFds \ {client_fd} : users'[h] = users[h]
  BY <1>0 DEF InitSlot, poolVars
<1>3. \A w \in Workers : <<"main", "init">> # <<"job", w>>
  OBVIOUS
<1>4. mpc' # "init" /\ (client_fd \in FileFd(client_fd) \/ Own(users'[client_fd], fdTable[client_fd]))
  BY <1>2, SweptOwn
<1>. QED
  BY <1>0, <1>1, <1>2, <1>3, <1>4, OwnAfterClose

\* Every step within a tick keeps requests and replies with their owners.
LEMMA StepReply == ReplyInv /\ [NextWithinTick]_vars => ReplyInv'
<1>. SUFFICES ASSUME ReplyInv, [NextWithinTick]_vars
              PROVE  ReplyInv'
  OBVIOUS
<1>. DEFINE Kept == SlotsOwn' /\ JobsOwn' /\ OwnRepliesOnly'
<1>0. /\ BurstInv /\ BurstInv' /\ TypeOK /\ TypeOK' /\ OwnRepliesOnly
      /\ job \in [Workers -> Job \cup {Idle}]
  BY StepBurst DEF ReplyInv, BurstInv, Base, TypeOK
<1>1. got' = got => OwnRepliesOnly'
  BY <1>0 DEF OwnRepliesOnly
<1>2. ASSUME \/ ClientStep \/ HearBell \/ AcceptNobody \/ AcceptFails \/ UNCHANGED vars
             \/ \E r \in Reactors : TickDone(r) \/ HandleDone(r) \/ EpollWait(r)
      PROVE  Kept
  <2>1. /\ UNCHANGED <<users, fdTable, client_fd, job>>
        /\ mpc' = mpc \/ mpc # "init"
    BY <1>2 DEF ClientStep, Connect, Send, HangUp, HearBell, AcceptNobody, AcceptFails, TickDone,
                HandleDone, EpollWait, vars, kernelVars, reactorVars, poolVars, mainVars
  <2>2. got' = got \/ \E c \in Conns : got' = [got EXCEPT ![c] = {}]
    BY <1>2 DEF ClientStep, Connect, Send, HangUp, HearBell, AcceptNobody, AcceptFails, TickDone,
                HandleDone, EpollWait, vars
  <2>3. OwnRepliesOnly'
    <3>1. got \in [Conns -> SUBSET (Conns \cup {NoConn})]
      BY <1>0 DEF TypeOK
    <3>. QED
      BY <1>0, <1>1, <2>2, <3>1 DEF OwnRepliesOnly
  <2>. QED
    BY <2>1, <2>3, OwnUntouched
<1>3. ASSUME NEW r \in Reactors, TickFire(r)
      PROVE  FALSE
  BY <1>0, <1>3 DEF TickFire, BurstInv, NothingDue
<1>4. ASSUME NEW r \in Reactors, NEW f \in ClientFds,
             OnHangUp(r, f) \/ OnReadable(r, f) \/ OnWritable(r, f)
      PROVE  Kept
  BY <1>0, <1>4, HandledOwn
<1>5. ASSUME NEW w \in Workers, TakeTask(w) \/ DoRequest(w)
      PROVE  Kept
  BY <1>1, <1>5, TakenOwn, ServedOwn DEF TakeTask, DoRequest
<1>6. ASSUME NEW w \in Workers, FinishTask(w)
      PROVE  Kept
  <2>1. /\ UNCHANGED <<users, client_fd, mpc, got>>
        /\ job' = [job EXCEPT ![w] = Idle]
        /\ Close({})
    BY <1>6 DEF FinishTask, mainVars
  <2>2. fdTable' = fdTable
    BY <1>0, <2>1 DEF Close, TypeOK
  <2>3. \A v \in Workers : job'[v].stage = "request" => job'[v] = job[v]
    BY <1>0, <2>1 DEF Idle
  <2>. QED
    BY <1>1, <2>1, <2>2, <2>3, OwnUntouched
<1>7. ASSUME NEW c \in Conns, Accept(c)
      PROVE  Kept
  BY <1>1, <1>7, AcceptedOwn DEF Accept
<1>8. ASSUME InitSlot
      PROVE  Kept
  BY <1>1, <1>8, SweptSlotOwn DEF InitSlot
<1>9. ASSUME AddToEpoll
      PROVE  Kept
  <2>1. /\ UNCHANGED <<users, fdTable, job, got>> /\ mpc = "add" /\ client_fd' = NoFd
    BY <1>9 DEF AddToEpoll, poolVars
  <2>. QED
    BY <1>1, <2>1, OwnUntouched
<1>10. Kept
  BY <1>0, <1>2, <1>3, <1>4, <1>5, <1>6, <1>7, <1>8, <1>9, NoRecv
  DEF NextWithinTick, SubReactorStep, WorkerStep, MainStep
<1>. QED
  BY <1>0, <1>10 DEF ReplyInv

(* Within one tick, whatever is closed and reused meanwhile, no client     *)
(* gets the reply to somebody else's request: slots are swept when their   *)
(* number changes hands, and a worker's request stays with the connection  *)
(* it came from (main.cpp 105-117, 246; http_conn.cpp 11-55, 133-143).     *)
THEOREM RepliesAreOwn == BurstSpec => []OwnRepliesOnly
<1>1. Init => ReplyInv
  <2>. SUFFICES ASSUME Init
                PROVE  ReplyInv
    OBVIOUS
  <2>1. BurstInv
    BY InitBurst
  <2>2. SlotsOwn
    BY SweptOwn, FreeFacts, ConnsAssumption, Bounds DEF Init, SlotsOwn
  <2>3. JobsOwn /\ OwnRepliesOnly
    BY DEF Init, JobsOwn, Idle, OwnRepliesOnly
  <2>. QED
    BY <2>1, <2>2, <2>3 DEF ReplyInv
<1>2. ReplyInv => OwnRepliesOnly
  BY DEF ReplyInv
<1>. QED
  BY <1>1, <1>2, StepReply, PTL DEF BurstSpec

-----------------------------------------------------------------------------
(* Who closes the files that are opened.                                   *)

\* The next that happens to slot f is that bytes are read into it or that a
\* request is taken from it, and no EPOLLOUT comes before.
Reading(f) ==
  \/ mpc = "add" /\ client_fd = f
  \/ \E c \in Conns : fdTable[f] = c /\ mask[c] = "in"
  \/ \E r \in Reactors : events[r][f] = "in"
  \/ \E i \in DOMAIN tasks : tasks[i][1] = f
  \/ \E w \in Workers : job[w].fd = f /\ (job[w].stage = "rearm" => users[f].bytes_to_send = 0)

\* A slot that may be asked for another file has none open.
NothingOpen == \A f \in ClientFds : Reading(f) => users[f].m_file_fd = NoFd

\* Every open file is some slot's.
FilesAreHeld ==
  \A g \in Fds : fdTable[g] = File => \E f \in ClientFds : users[f].m_file_fd = g

FileInv == BurstInv /\ NothingOpen /\ FilesAreHeld

\* NoFd is no descriptor.
LEMMA NoFdIsNone == NoFd \notin Fds /\ NoFd \notin ClientFds
BY Bounds DEF NoFd, Fds, ClientFds

\* No file is lost when each slot keeps its own, or lets go of one that is closed.
LEMMA StillHeld ==
  ASSUME FilesAreHeld, \A g \in Fds : fdTable'[g] = File => fdTable[g] = File,
         \A f \in ClientFds : \/ users'[f].m_file_fd = users[f].m_file_fd
                              \/ users[f].m_file_fd \notin Fds
                              \/ fdTable'[users[f].m_file_fd] # File
  PROVE  FilesAreHeld'
BY DEF FilesAreHeld

\* No file is opened by a step that closes descriptors.
LEMMA NoneOpened ==
  ASSUME TypeOK, NEW fds \in SUBSET Fds, Close(fds)
  PROVE  /\ \A g \in Fds : fdTable'[g] = File => fdTable[g] = File
         /\ \A g \in fds : fdTable'[g] # File
BY CloseFacts, FreeFacts

\* A descriptor in one hand has no other.
LEMMA OnlyHand ==
  ASSUME BurstInv, NEW f \in ClientFds, NEW a, IsHand(f, a), NEW b, IsHand(f, b)
  PROVE  a = b
BY Members DEF BurstInv, OneHand

\* Who may read into a slot, or take a request from it, has it in hand.
LEMMA ReadersHold ==
  ASSUME NEW f \in ClientFds, NEW a, \A x : IsHand(f, x) => x = a
  PROVE  /\ (\A m : a # <<"main", m>>) => ~(mpc = "add" /\ client_fd = f)
         /\ \A c \in Conns : a # <<"armed", c>> => ~(fdTable[f] = c /\ mask[c] = "in")
         /\ \A r \in Reactors : a # <<"event", r>> => events[r][f] # "in"
         /\ (\A i : a # <<"task", i>>) => \A i \in DOMAIN tasks : tasks[i][1] # f
         /\ \A w \in Workers : a # <<"job", w>> => job[w].fd # f
<1>1. /\ mpc = "add" /\ client_fd = f => IsHand(f, <<"main", mpc>>)
      /\ \A c \in Conns : fdTable[f] = c /\ mask[c] = "in" => IsHand(f, <<"armed", c>>)
      /\ \A r \in Reactors : events[r][f] = "in" => IsHand(f, <<"event", r>>)
      /\ \A i \in DOMAIN tasks : tasks[i][1] = f => IsHand(f, <<"task", i>>)
      /\ \A w \in Workers : job[w].fd = f => IsHand(f, <<"job", w>>)
  BY DEF IsHand
<1>. QED
  BY <1>1

\* The handling of one event at f: it ends with f's file closed, or with
\* nothing to be read from f unless the event was to read.
LEMMA HandledHeld ==
  ASSUME FileInv, NEW r \in Reactors, NEW f \in ClientFds,
         NEW ev \in {"hup", "in", "out"}, Handling(r, f, ev),
         NEW fds \in SUBSET (FileFd(f) \cup {f}), Close(fds),
         KeepArmed \/ \E e : Rearm(r, f, e),
         \A h \in ClientFds \ {f} : users'[h] = users[h],
         \/ users'[f].m_file_fd = NoFd /\ FileFd(f) \subseteq fds
         \/ /\ users'[f].m_file_fd = users[f].m_file_fd
            /\ ev = "in" \/ f \in fds \/ Rearm(r, f, "out"),
         tasks' = tasks, job' = job
  PROVE  NothingOpen' /\ FilesAreHeld'
<1>0. TypeOK /\ Placed /\ fds \in SUBSET Fds /\ f \in Fds
  BY FileFds, Bounds DEF FileInv, BurstInv, Base
<1>1. /\ IsHand(f, <<"event", r>>)
      /\ \A x : IsHand(f, x) => x = <<"event", r>>
  <2>1. IsHand(f, <<"event", r>>)
    BY DEF Handling, IsHand
  <2>. QED
    BY <2>1, OnlyHand DEF FileInv
<1>2. /\ events'[r][f] = "none" /\ events[r][f] = ev
      /\ \A q \in Reactors, g \in ClientFds : q # r \/ g # f => events'[q][g] = events[q][g]
      /\ mpc' = mpc /\ client_fd' = client_fd
  BY <1>0 DEF Handling, TypeOK, mainVars
<1>3. FilesAreHeld'
  <2>1. users'[f].m_file_fd = users[f].m_file_fd
          \/ users[f].m_file_fd = NoFd \/ fdTable'[users[f].m_file_fd] # File
    BY <1>0, NoneOpened DEF FileFd
  <2>. QED
    BY <1>0, <2>1, NoFdIsNone, NoneOpened, StillHeld DEF FileInv
<1>4. ASSUME NEW g \in ClientFds, g # f, Reading(g)'
      PROVE  users'[g].m_file_fd = NoFd
  <2>1. ASSUME NEW c \in Conns, fdTable'[g] = c, mask'[c] = "in"
        PROVE  fdTable[g] = c /\ mask[c] = "in"
    <3>1. fdTable[g] = c /\ fdTable'[f] # c
      BY <1>0, <1>4, <2>1, CloseFacts, Bounds DEF Placed
    <3>. QED
      BY <2>1, <3>1 DEF KeepArmed, Rearm
  <2>2. Reading(g)
    BY <1>2, <1>4, <2>1 DEF Reading
  <2>. QED
    BY <1>4, <2>2 DEF FileInv, NothingOpen
<1>5. ASSUME Reading(f)'
      PROVE  users'[f].m_file_fd = NoFd
  <2>1. /\ ~(mpc = "add" /\ client_fd = f)
        /\ \A q \in Reactors : q # r => events[q][f] # "in"
        /\ \A i \in DOMAIN tasks : tasks[i][1] # f
        /\ \A w \in Workers : job[w].fd # f
        /\ \A c \in Conns : ~(fdTable[f] = c /\ mask[c] = "in")
    BY <1>1, ReadersHold
  <2>2. PICK c \in Conns : fdTable'[f] = c /\ mask'[c] = "in"
    <3>1. \A q \in Reactors : events'[q][f] # "in"
      BY <1>2, <2>1
    <3>. QED
      BY <1>2, <1>5, <2>1, <3>1 DEF Reading
  <2>3. fdTable[f] = c /\ f \notin fds
    BY <1>0, <2>2, CloseFacts
  <2>4. ~Rearm(r, f, "out")
    BY <2>1, <2>2, <2>3 DEF Rearm
  <2>5. ev = "in" => users[f].m_file_fd = NoFd
    BY <1>2 DEF FileInv, NothingOpen, Reading
  <2>. QED
    BY <2>3, <2>4, <2>5
<1>. QED
  BY <1>3, <1>4, <1>5 DEF NothingOpen

\* What opens and closes nothing, and gives nobody something to read.
LEMMA OthersHeld ==
  ASSUME FileInv, UNCHANGED <<fdTable, users>>,
         \A g \in ClientFds : Reading(g)' => Reading(g)
  PROVE  NothingOpen' /\ FilesAreHeld'
BY DEF FileInv, NothingOpen, FilesAreHeld

\* A sub-reactor handles an event at f.
LEMMA EventHeld ==
  ASSUME FileInv, NEW r \in Reactors, NEW f \in ClientFds,
         OnHangUp(r, f) \/ OnReadable(r, f) \/ OnWritable(r, f)
  PROVE  NothingOpen' /\ FilesAreHeld'
<1>0. TypeOK /\ users \in [ClientFds -> Slot] /\ users[f] \in Slot /\ Swept.m_file_fd = NoFd
  BY DEF FileInv, BurstInv, Base, TypeOK, Swept
<1>1. CASE OnHangUp(r, f)
  BY <1>1, HandledHeld DEF OnHangUp, poolVars
<1>2. CASE OnReadable(r, f)
  <2>1. /\ users'[f].m_file_fd = users[f].m_file_fd
        /\ \A h \in ClientFds \ {f} : users'[h] = users[h]
    <3>1. fdTable[f] \in Conns => Drained(f, fdTable[f]).m_file_fd = users[f].m_file_fd
      BY <1>0 DEF Drained, Slot
    <3>2. CASE fdTable[f] \in Conns
      <4>1. users' = [users EXCEPT ![f] = Drained(f, fdTable[f])]
        BY <1>2, <3>2 DEF OnReadable, Receive
      <4>. QED
        BY <1>0, <3>1, <3>2, <4>1
    <3>. QED
      BY <1>2, <3>2 DEF OnReadable, Receive
  <2>2. Handling(r, f, "in") /\ job' = job
    BY <1>2 DEF OnReadable
  <2>3. CASE Close({f}) /\ KeepArmed /\ UNCHANGED tasks
    BY <2>1, <2>2, <2>3, HandledHeld
  <2>4. CASE tasks' = Append(tasks, <<f, r>>) /\ UNCHANGED kernelVars
    <3>1. /\ events' = [events EXCEPT ![r][f] = "none"] /\ events[r][f] = "in"
          /\ UNCHANGED <<fdTable, mask, mpc, client_fd>>
      BY <2>2, <2>4 DEF Handling, mainVars, kernelVars
    <3>2. \A i \in DOMAIN tasks' : tasks'[i][1] = f \/ (i \in DOMAIN tasks /\ tasks'[i] = tasks[i])
      <4>1. <<f, r>> \in Task /\ tasks \in Seq(Task)
        BY <1>0 DEF Task, TypeOK
      <4>2. /\ tasks' \in Seq(Task) /\ Len(tasks') = Len(tasks) + 1
            /\ \A i \in 1 .. Len(tasks) : tasks'[i] = tasks[i]
            /\ tasks'[Len(tasks) + 1] = <<f, r>>
        BY <2>4, <4>1, AppendProperties
      <4>3. Len(tasks) \in Nat /\ DOMAIN tasks = 1 .. Len(tasks)
            /\ DOMAIN tasks' = 1 .. (Len(tasks) + 1)
        BY <4>1, <4>2, LenProperties
      <4>. QED
        BY <4>2, <4>3
    <3>3. ASSUME NEW g \in ClientFds, Reading(g)'
          PROVE  Reading(g) /\ users'[g].m_file_fd = users[g].m_file_fd
      <4>1. CASE g = f
        BY <2>1, <3>1, <4>1 DEF Reading
      <4>2. CASE g # f
        <5>1. \A q \in Reactors : events'[q][g] = events[q][g]
          BY <1>0, <3>1, <4>2 DEF TypeOK
        <5>. QED
          BY <2>1, <2>2, <3>1, <3>2, <3>3, <4>2, <5>1 DEF Reading
      <4>. QED
        BY <4>1, <4>2
    <3>4. NothingOpen'
      BY <3>3 DEF FileInv, NothingOpen
    <3>5. \A h \in ClientFds : users'[h].m_file_fd = users[h].m_file_fd
      BY <2>1
    <3>6. FilesAreHeld'
      BY <3>1, <3>5 DEF FileInv, FilesAreHeld
    <3>. QED
      BY <3>4, <3>6
  <2>. QED
    BY <1>2, <2>3, <2>4 DEF OnReadable, ReadReturns
<1>3. CASE OnWritable(r, f)
  <2>1. Handling(r, f, "out") /\ tasks' = tasks /\ job' = job
    BY <1>3 DEF OnWritable, OnWritableIdle, OnWritablePart, OnWritableLast, OnWritableError,
                poolVars
  <2>2. ASSUME NEW s, users' = [users EXCEPT ![f] = s], s.m_file_fd = NoFd,
               NEW fds \in SUBSET (FileFd(f) \cup {f}), FileFd(f) \subseteq fds, Close(fds),
               KeepArmed \/ \E e : Rearm(r, f, e)
        PROVE  NothingOpen' /\ FilesAreHeld'
    <3>1. users'[f].m_file_fd = NoFd /\ \A h \in ClientFds \ {f} : users'[h] = users[h]
      BY <1>0, <2>2
    <3>. QED
      BY <2>1, <2>2, <3>1, HandledHeld
  <2>3. CASE OnWritableIdle(r, f)
    BY <1>0, <2>2, <2>3 DEF OnWritableIdle
  <2>4. CASE OnWritablePart(r, f)
    <3>1. PICK left : users' = [users EXCEPT ![f].bytes_to_send = left]
      BY <2>4 DEF OnWritablePart
    <3>2. /\ users'[f].m_file_fd = users[f].m_file_fd
          /\ \A h \in ClientFds \ {f} : users'[h] = users[h]
      BY <1>0, <3>1 DEF Slot
    <3>3. Close({}) /\ Rearm(r, f, "out")
      BY <2>4 DEF OnWritablePart
    <3>. QED
      BY <2>1, <3>2, <3>3, HandledHeld
  <2>5. CASE OnWritableLast(r, f)
    <3>1. [users[f] EXCEPT !.bytes_to_send = 0, !.m_file_fd = NoFd].m_file_fd = NoFd
      BY <1>0 DEF Slot
    <3>2. [users EXCEPT ![f].bytes_to_send = 0, ![f].m_file_fd = NoFd]
            = [users EXCEPT ![f] = [users[f] EXCEPT !.bytes_to_send = 0, !.m_file_fd = NoFd]]
      BY <1>0 DEF Slot
    <3>. QED
      BY <1>0, <2>2, <2>5, <3>1, <3>2 DEF OnWritableLast
  <2>6. CASE OnWritableError(r, f)
    <3>1. [users[f] EXCEPT !.m_file_fd = NoFd].m_file_fd = NoFd
      BY <1>0 DEF Slot
    <3>2. [users EXCEPT ![f].m_file_fd = NoFd]
            = [users EXCEPT ![f] = [users[f] EXCEPT !.m_file_fd = NoFd]]
      BY <1>0
    <3>. QED
      BY <2>2, <2>6, <3>1, <3>2 DEF OnWritableError
  <2>. QED
    BY <1>3, <2>3, <2>4, <2>5, <2>6 DEF OnWritable
<1>. QED
  BY <1>1, <1>2, <1>3

\* epoll_wait reports as readable what was armed to be read.
LEMMA ReportedHeld ==
  ASSUME FileInv, NEW r \in Reactors, EpollWait(r)
  PROVE  NothingOpen' /\ FilesAreHeld'
<1>0. TypeOK
  BY DEF FileInv, BurstInv, Base
<1>1. PICK ready \in SUBSET {f \in ArmedAt(r) : MayReport(f)} :
        /\ events' = [events EXCEPT ![r] =
                       [f \in ClientFds |-> IF f \in ready THEN EventAt(f) ELSE "none"]]
        /\ mask' = [c \in Conns |-> IF \E f \in ready : fdTable[f] = c THEN "off" ELSE mask[c]]
  BY DEF EpollWait
<1>2. UNCHANGED <<fdTable, users, tasks, job, mpc, client_fd>>
  BY DEF EpollWait, poolVars, mainVars
<1>3. ASSUME NEW q \in Reactors, NEW g \in ClientFds, events'[q][g] = "in"
      PROVE  events[q][g] = "in" \/ \E c \in Conns : fdTable[g] = c /\ mask[c] = "in"
  <2>1. CASE q = r /\ g \in ready
    <3>1. EventAt(g) = "in" /\ fdTable[g] \in Conns
      BY <1>0, <1>1, <1>3, <2>1 DEF TypeOK, ArmedAt
    <3>. QED
      BY <3>1 DEF EventAt
  <2>2. CASE ~(q = r /\ g \in ready)
    BY <1>0, <1>1, <1>3, <2>2 DEF TypeOK
  <2>. QED
    BY <2>1, <2>2
<1>4. \A c \in Conns : mask'[c] = "in" => mask[c] = "in"
  BY <1>1
<1>5. ASSUME NEW g \in ClientFds, Reading(g)'
      PROVE  Reading(g)
  BY <1>2, <1>3, <1>4, <1>5 DEF Reading
<1>. QED
  BY <1>2, <1>5, OthersHeld

\* A worker takes a task: its slot was and is one to be read.
LEMMA TakenHeld ==
  ASSUME FileInv, NEW w \in Workers, TakeTask(w)
  PROVE  NothingOpen' /\ FilesAreHeld'
<1>0. TypeOK /\ users \in [ClientFds -> Slot]
  BY DEF FileInv, BurstInv, Base, TypeOK
<1>. DEFINE f == Head(tasks)[1]
            slot == IF fdTable[f] \in Conns THEN Drained(f, fdTable[f]) ELSE users[f]
<1>1. /\ tasks \in Seq(Task) /\ tasks # <<>> /\ tasks' = Tail(tasks)
      /\ UNCHANGED <<fdTable, mask, events, mpc, client_fd>>
  BY <1>0 DEF TakeTask, TypeOK, kernelVars, reactorVars, mainVars
<1>2. /\ 1 \in DOMAIN tasks /\ Head(tasks) = tasks[1] /\ tasks[1] \in Task
      /\ \A i \in DOMAIN tasks' : i + 1 \in DOMAIN tasks /\ tasks'[i] = tasks[i + 1]
  <2>1. /\ tasks' \in Seq(Task) /\ Len(tasks') = Len(tasks) - 1
        /\ \A j \in 1 .. Len(tasks') : tasks'[j] = tasks[j + 1]
    BY <1>1, HeadTailProperties
  <2>2. DOMAIN tasks = 1 .. Len(tasks) /\ DOMAIN tasks' = 1 .. Len(tasks') /\ Len(tasks) \in Nat
    BY <1>1, <2>1, LenProperties
  <2>3. Head(tasks) = tasks[1] /\ Len(tasks) # 0
    BY <1>1, EmptySeq
  <2>4. 1 \in DOMAIN tasks /\ tasks[1] \in Task
    BY <1>1, <2>2, <2>3
  <2>. QED
    BY <2>1, <2>2, <2>3, <2>4
<1>3. f \in ClientFds /\ Reading(f)
  BY <1>2 DEF Task, Reading
<1>4. slot \in Slot /\ slot.m_file_fd = users[f].m_file_fd
  <2>1. users[f] \in Slot
    BY <1>0, <1>3
  <2>2. fdTable[f] \in Conns =>
          Drained(f, fdTable[f]) \in Slot /\ Drained(f, fdTable[f]).m_file_fd = users[f].m_file_fd
    BY <1>0, <1>3, <2>1, DrainedTypes DEF Drained, Slot
  <2>. QED
    BY <2>1, <2>2
<1>5. \E s : /\ users' = [users EXCEPT ![f] = s]
             /\ s = slot \/ s = [slot EXCEPT !.from = NoConn, !.whole = FALSE]
  BY DEF TakeTask
<1>6. \E s, at, of : job' = [job EXCEPT ![w] = [stage |-> s, fd |-> f, at |-> at, of |-> of]]
  BY DEF TakeTask
<1>. HIDE DEF slot
<1>7. /\ users'[f].m_file_fd = users[f].m_file_fd
      /\ \A h \in ClientFds \ {f} : users'[h] = users[h]
  <2>1. PICK s : users' = [users EXCEPT ![f] = s] /\ s.m_file_fd = users[f].m_file_fd
    <3>1. [slot EXCEPT !.from = NoConn, !.whole = FALSE].m_file_fd = slot.m_file_fd
      BY <1>4 DEF Slot
    <3>. QED
      BY <1>4, <1>5, <3>1
  <2>. QED
    BY <1>0, <1>3, <2>1
<1>. HIDE DEF f
<1>8. job'[w].fd = f /\ \A v \in Workers \ {w} : job'[v] = job[v]
  BY <1>0, <1>6 DEF TypeOK
<1>9. ASSUME NEW g \in ClientFds, Reading(g)'
      PROVE  users'[g].m_file_fd = NoFd
  <2>1. CASE g = f
    BY <1>3, <1>7, <2>1 DEF FileInv, NothingOpen
  <2>2. CASE g # f
    <3>1. \A i \in DOMAIN tasks' : tasks'[i][1] = g => \E j \in DOMAIN tasks : tasks[j][1] = g
      BY <1>2
    <3>2. Reading(g)
      BY <1>1, <1>7, <1>8, <1>9, <2>2, <3>1 DEF Reading
    <3>. QED
      BY <1>7, <2>2, <3>2 DEF FileInv, NothingOpen
  <2>. QED
    BY <2>1, <2>2
<1>10. \A h \in ClientFds : users'[h].m_file_fd = users[h].m_file_fd
  BY <1>7
<1>11. FilesAreHeld'
  BY <1>1, <1>10 DEF FileInv, FilesAreHeld
<1>. QED
  BY <1>9, <1>11 DEF NothingOpen

\* do_request: the slot had no file, and if it gets one there is a response
\* to send, so that EPOLLOUT comes next.
LEMMA ServedHeld ==
  ASSUME FileInv, NEW w \in Workers, DoRequest(w)
  PROVE  NothingOpen' /\ FilesAreHeld'
<1>0. TypeOK /\ users \in [ClientFds -> Slot] /\ job \in [Workers -> Job \cup {Idle}]
      /\ ClientFds \subseteq Fds /\ Chunks > 0 /\ Chunks \in Nat
  BY Bounds DEF FileInv, BurstInv, Base, TypeOK
<1>. DEFINE f == job[w].fd
            One == [users[f] EXCEPT !.answers = job[w].of, !.bytes_to_send = Chunks]
            Two(k) == [users[f] EXCEPT !.answers = job[w].of, !.bytes_to_send = Chunks,
                                       !.m_file_fd = k]
            Three == [users[f] EXCEPT !.m_file_fd = NoFd]
<1>1. /\ job[w].stage = "request" /\ job' = [job EXCEPT ![w].stage = "rearm"]
      /\ UNCHANGED <<mpc, client_fd, mask, events, tasks>>
  BY DEF DoRequest, mainVars, reactorVars
<1>2. f \in ClientFds /\ IsHand(f, <<"job", w>>) /\ users[f] \in Slot /\ job[w] \in Job
  <2>1. f \in ClientFds /\ IsHand(f, <<"job", w>>)
    BY <1>0, <1>1, JobIsHand
  <2>2. job[w] \in Job
    BY <1>0, <1>1 DEF Idle
  <2>. QED
    BY <1>0, <2>1, <2>2
<1>3. users[f].m_file_fd = NoFd
  BY <1>1, <1>2 DEF FileInv, NothingOpen, Reading
<1>4. \/ users' = [users EXCEPT ![f] = One] /\ UNCHANGED fdTable
      \/ \E k \in LowestFree : /\ fdTable' = [fdTable EXCEPT ![k] = File]
                               /\ users' = [users EXCEPT ![f] = Two(k)]
      \/ users' = [users EXCEPT ![f] = Three] /\ UNCHANGED fdTable
  <2>1. \/ /\ users' = [users EXCEPT ![f].answers = job[w].of, ![f].bytes_to_send = Chunks]
           /\ UNCHANGED fdTable
        \/ \E k \in LowestFree :
             /\ fdTable' = [fdTable EXCEPT ![k] = File]
             /\ users' = [users EXCEPT ![f].answers = job[w].of, ![f].bytes_to_send = Chunks,
                                       ![f].m_file_fd = k]
        \/ users' = [users EXCEPT ![f].m_file_fd = NoFd] /\ UNCHANGED fdTable
    BY DEF DoRequest
  <2>. QED
    BY <1>0, <1>2, <2>1
<1>5. /\ One.m_file_fd = NoFd /\ Three.m_file_fd = NoFd
      /\ \A k : Two(k).m_file_fd = k /\ Two(k).bytes_to_send = Chunks
  BY <1>2, <1>3 DEF Slot
<1>. HIDE DEF One, Two, Three
<1>6. \A h \in ClientFds \ {f} : users'[h] = users[h]
  BY <1>0, <1>4
<1>7. /\ job'[w].stage = "rearm" /\ job'[w].fd = f
      /\ \A v \in Workers \ {w} : job'[v] = job[v]
  BY <1>0, <1>1, <1>2 DEF Job
<1>8. \/ users'[f].m_file_fd = NoFd /\ UNCHANGED fdTable
      \/ /\ users'[f].bytes_to_send = Chunks
         /\ \E k \in Fds : /\ fdTable[k] = Free /\ fdTable' = [fdTable EXCEPT ![k] = File]
                           /\ users'[f].m_file_fd = k
  BY <1>0, <1>2, <1>4, <1>5 DEF LowestFree, FreeFds
<1>. HIDE DEF f
<1>9. FilesAreHeld'
  <2>. SUFFICES ASSUME NEW g \in Fds, fdTable'[g] = File
                PROVE  \E h \in ClientFds : users'[h].m_file_fd = g
    BY DEF FilesAreHeld
  <2>1. CASE fdTable[g] = File
    <3>1. PICK h \in ClientFds : users[h].m_file_fd = g
      BY <2>1 DEF FileInv, FilesAreHeld
    <3>2. h # f
      BY <1>3, <3>1, NoFdIsNone
    <3>. QED
      BY <1>6, <3>1, <3>2
  <2>2. CASE fdTable[g] # File
    BY <1>0, <1>2, <1>8, <2>2 DEF TypeOK
  <2>. QED
    BY <2>1, <2>2
<1>10. \A g \in Fds, c \in Conns : fdTable'[g] = c => fdTable[g] = c
  BY <1>0, <1>8, FreeFacts DEF TypeOK
<1>11. ASSUME NEW g \in ClientFds, g # f, Reading(g)'
       PROVE  users'[g].m_file_fd = NoFd
  <2>1. Reading(g)
    BY <1>0, <1>1, <1>6, <1>7, <1>10, <1>11 DEF Reading
  <2>. QED
    BY <1>6, <1>11, <2>1 DEF FileInv, NothingOpen
<1>12. ASSUME NEW g \in ClientFds, g = f, Reading(g)', users'[g].bytes_to_send = Chunks
       PROVE  FALSE
  <2>1. \A x : IsHand(g, x) => x = <<"job", w>>
    BY <1>2, <1>12, OnlyHand DEF FileInv
  <2>2. /\ ~(mpc = "add" /\ client_fd = g)
        /\ \A c \in Conns : ~(fdTable[g] = c /\ mask[c] = "in")
        /\ \A r \in Reactors : events[r][g] # "in"
        /\ \A i \in DOMAIN tasks : tasks[i][1] # g
        /\ \A v \in Workers : v # w => job[v].fd # g
    <3>1. \A p : /\ <<"job", w>> # <<"main", p>> /\ <<"job", w>> # <<"armed", p>>
                 /\ <<"job", w>> # <<"event", p>> /\ <<"job", w>> # <<"task", p>>
                 /\ p # w => <<"job", w>> # <<"job", p>>
      OBVIOUS
    <3>. QED
      BY <1>12, <2>1, <3>1, ReadersHold
  <2>3. \A v \in Workers : job'[v].fd = g => job'[v].stage = "rearm"
    BY <1>7, <1>12, <2>2
  <2>4. ~\E v \in Workers : job'[v].fd = g /\ (job'[v].stage = "rearm" => users'[g].bytes_to_send = 0)
    BY <1>0, <1>12, <2>3
  <2>5. \A c \in Conns : fdTable'[g] = c => fdTable[g] = c
    BY <1>0, <1>2, <1>10
  <2>. QED
    BY <1>1, <1>12, <2>2, <2>4, <2>5 DEF Reading
<1>13. ASSUME NEW g \in ClientFds, g = f, Reading(g)'
       PROVE  users'[g].m_file_fd = NoFd
  BY <1>8, <1>12, <1>13
<1>. QED
  BY <1>9, <1>11, <1>13 DEF NothingOpen

\* A worker arms for EPOLLIN only a slot with nothing to send.
LEMMA ArmedHeld ==
  ASSUME FileInv, NEW w \in Workers, FinishTask(w)
  PROVE  NothingOpen' /\ FilesAreHeld'
<1>0. TypeOK /\ Placed /\ 0 \notin ClientFds
  BY Bounds DEF FileInv, BurstInv, Base
<1>. PICK f : f = job[w].fd
  OBVIOUS
<1>1. /\ f \in ClientFds /\ f \in Fds /\ IsHand(f, <<"job", w>>)
      /\ job[w].stage = "rearm"
      /\ job'[w] = Idle /\ \A v \in Workers \ {w} : job'[v] = job[v]
      /\ UNCHANGED <<tasks, events, users, mpc, client_fd>>
  BY <1>0, Bounds DEF FinishTask, TypeOK, Job, Idle, reactorVars, mainVars, IsHand
<1>2. /\ Close({}) /\ {} \in SUBSET Fds
      /\ Rearm(job[w].at, f, IF users[f].bytes_to_send > 0 THEN "out" ELSE "in")
  BY DEF FinishTask
<1>3. fdTable' = fdTable
  BY <1>0, <1>2 DEF Close, TypeOK
<1>4. ASSUME NEW g \in ClientFds, g # f, Reading(g)'
      PROVE  Reading(g)
  <2>1. ASSUME NEW c \in Conns, fdTable[g] = c, mask'[c] = "in"
        PROVE  mask[c] = "in"
    <3>1. fdTable[f] # c
      BY <1>0, <1>1, <1>4, <2>1, Bounds DEF Placed
    <3>. QED
      BY <1>2, <1>3, <2>1, <3>1 DEF Rearm
  <2>. QED
    BY <1>0, <1>1, <1>3, <1>4, <2>1 DEF Reading, Idle
<1>5. ASSUME Reading(f)'
      PROVE  Reading(f)
  <2>1. \A x : IsHand(f, x) => x = <<"job", w>>
    BY <1>1, OnlyHand DEF FileInv
  <2>2. /\ ~(mpc = "add" /\ client_fd = f)
        /\ \A c \in Conns : ~(fdTable[f] = c /\ mask[c] = "in")
        /\ \A r \in Reactors : events[r][f] # "in"
        /\ \A i \in DOMAIN tasks : tasks[i][1] # f
        /\ \A v \in Workers : v # w => job[v].fd # f
    <3>1. \A p : /\ <<"job", w>> # <<"main", p>> /\ <<"job", w>> # <<"armed", p>>
                 /\ <<"job", w>> # <<"event", p>> /\ <<"job", w>> # <<"task", p>>
                 /\ p # w => <<"job", w>> # <<"job", p>>
      OBVIOUS
    <3>. QED
      BY <1>1, <2>1, <3>1, ReadersHold
  <2>3. \A v \in Workers : job'[v].fd # f
    BY <1>0, <1>1, <2>2 DEF Idle
  <2>4. PICK c \in Conns : fdTable[f] = c /\ mask'[c] = "in"
    BY <1>1, <1>3, <1>5, <2>2, <2>3 DEF Reading
  <2>5. ~(users[f].bytes_to_send > 0)
    BY <1>2, <2>2, <2>4 DEF Rearm
  <2>6. users[f].bytes_to_send = 0
    <3>1. users[f].bytes_to_send \in 0 .. Chunks
      BY <1>0, <1>1 DEF TypeOK, Slot
    <3>. QED
      BY <2>5, <3>1, Bounds
  <2>. QED
    BY <1>1, <2>6 DEF Reading
<1>. QED
  BY <1>1, <1>3, <1>4, <1>5, OthersHeld

\* The main reactor takes a number that stands for no file; init() closes the
\* file its slot still has; and what it registers has been swept.
LEMMA MainHeld ==
  ASSUME FileInv, MainStep
  PROVE  NothingOpen' /\ FilesAreHeld'
<1>0. TypeOK /\ Placed /\ Registered /\ OffOutside /\ ClientFds \subseteq Fds
  BY Bounds DEF FileInv, BurstInv, Base
<1>1. UNCHANGED poolVars /\ UNCHANGED reactorVars
  BY DEF MainStep, HearBell, AcceptNobody, AcceptFails, Accept, InitSlot, AddToEpoll
<1>2. CASE HearBell \/ AcceptNobody \/ AcceptFails
  <2>1. UNCHANGED <<fdTable, users, mask>> /\ mpc' # "add"
    BY <1>2 DEF HearBell, AcceptNobody, AcceptFails, kernelVars
  <2>2. \A g \in ClientFds : Reading(g)' => Reading(g)
    BY <1>1, <2>1 DEF Reading, poolVars, reactorVars
  <2>. QED
    BY <2>1, <2>2, OthersHeld
<1>3. ASSUME NEW c \in Conns, Accept(c)
      PROVE  NothingOpen' /\ FilesAreHeld'
  <2>1. PICK f \in Fds : fdTable' = [fdTable EXCEPT ![f] = c]
    BY <1>3 DEF Accept, LowestFree, FreeFds
  <2>2. mask[c] = "off" /\ UNCHANGED <<mask, users>> /\ mpc' # "add"
    BY <1>0, <1>3 DEF Accept, Backlog, Registered, OffOutside
  <2>3. \A g \in Fds : fdTable'[g] = fdTable[g] \/ fdTable'[g] = c
    BY <1>0, <2>1 DEF TypeOK
  <2>4. \A g \in ClientFds : Reading(g)' => Reading(g)
    BY <1>0, <1>1, <2>2, <2>3 DEF Reading, poolVars, reactorVars
  <2>5. NothingOpen'
    BY <2>2, <2>4 DEF FileInv, NothingOpen
  <2>6. FilesAreHeld'
    BY <2>2, <2>3, FreeFacts DEF FileInv, FilesAreHeld
  <2>. QED
    BY <2>5, <2>6
<1>4. CASE InitSlot
  <2>1. client_fd \in ClientFds /\ FileFd(client_fd) \in SUBSET Fds
    BY <1>0, <1>4, FileFds DEF FileInv, BurstInv, Base, MainHolds, InitSlot
  <2>2. /\ Close(FileFd(client_fd)) /\ KeepArmed /\ client_fd' = client_fd
        /\ users'[client_fd].m_file_fd = NoFd
        /\ \A h \in ClientFds \ {client_fd} : users'[h] = users[h]
    BY <1>0, <1>4, <2>1 DEF InitSlot, Swept, TypeOK
  <2>3. users[client_fd].m_file_fd = NoFd \/ fdTable'[users[client_fd].m_file_fd] # File
    BY <1>0, <2>1, <2>2, NoneOpened DEF FileFd
  <2>4. FilesAreHeld'
    BY <1>0, <2>1, <2>2, <2>3, NoFdIsNone, NoneOpened, StillHeld DEF FileInv
  <2>5. \A g \in Fds, c \in Conns : fdTable'[g] = c /\ mask'[c] = "in" => fdTable[g] = c /\ mask[c] = "in"
    BY <1>0, <2>1, <2>2, CloseFacts DEF KeepArmed
  <2>6. ASSUME NEW g \in ClientFds, g # client_fd, Reading(g)'
        PROVE  Reading(g)
    BY <1>0, <1>1, <2>2, <2>5, <2>6 DEF Reading, poolVars, reactorVars
  <2>. QED
    BY <2>2, <2>4, <2>6 DEF FileInv, NothingOpen
<1>5. CASE AddToEpoll
  <2>1. client_fd \in ClientFds /\ mpc = "add" /\ mpc' # "add" /\ UNCHANGED <<fdTable, users>>
    BY <1>5 DEF FileInv, BurstInv, Base, MainHolds, AddToEpoll
  <2>2. \A d \in Conns \ {fdTable[client_fd]} : mask'[d] = mask[d]
    BY <1>0, <1>5 DEF AddToEpoll, TypeOK
  <2>3. ASSUME NEW g \in ClientFds, Reading(g)'
        PROVE  Reading(g)
    <3>1. CASE g = client_fd
      BY <2>1, <3>1 DEF Reading
    <3>2. CASE g # client_fd
      <4>1. \A d \in Conns : fdTable[g] = d => d # fdTable[client_fd]
        BY <1>0, <2>1, <3>2 DEF Placed
      <4>. QED
        BY <1>1, <2>1, <2>2, <2>3, <4>1 DEF Reading, poolVars, reactorVars
    <3>. QED
      BY <3>1, <3>2
  <2>. QED
    BY <2>1, <2>3, OthersHeld
<1>. QED
  BY <1>2, <1>3, <1>4, <1>5 DEF MainStep

\* Every step within a tick keeps each open file with a slot that closes it.
LEMMA StepFiles == FileInv /\ [NextWithinTick]_vars => FileInv'
<1>. SUFFICES ASSUME FileInv, [NextWithinTick]_vars
              PROVE  FileInv'
  OBVIOUS
<1>. DEFINE Kept == NothingOpen' /\ FilesAreHeld'
<1>1. BurstInv'
  BY StepBurst DEF FileInv
<1>2. ASSUME ClientStep \/ UNCHANGED vars \/ \E r \in Reactors : TickDone(r) \/ HandleDone(r)
      PROVE  Kept
  <2>1. UNCHANGED <<fdTable, users, mask, mpc, client_fd, events, tasks, job>>
    BY <1>2 DEF ClientStep, Connect, Send, HangUp, TickDone, HandleDone,
                vars, kernelVars, reactorVars, poolVars, mainVars
  <2>2. \A g \in ClientFds : Reading(g)' => Reading(g)
    BY <2>1 DEF Reading
  <2>. QED
    BY <2>1, <2>2, OthersHeld
<1>3. ASSUME NEW r \in Reactors, TickFire(r)
      PROVE  FALSE
  BY <1>3 DEF TickFire, FileInv, BurstInv, NothingDue
<1>4. Kept
  BY <1>2, <1>3, NoRecv, EventHeld, ReportedHeld, TakenHeld, ServedHeld, ArmedHeld, MainHeld
  DEF NextWithinTick, SubReactorStep, WorkerStep, FileInv
<1>. QED
  BY <1>1, <1>4 DEF FileInv

(* Within one tick no file that do_request opens is left open without a    *)
(* slot to close it, and none is closed by anybody but its owner, through  *)
(* hang-ups, errors and every reuse of a number (http_conn.cpp 17-21,      *)
(* 47-51, 358, 397-409; main.cpp 82-86, 246).                              *)
THEOREM FilesAreClosed == BurstSpec => []FilesHaveOneOwner
<1>1. Init => FileInv
  <2>. SUFFICES ASSUME Init
                PROVE  FileInv
    OBVIOUS
  <2>1. NothingOpen
    BY Bounds DEF Init, NothingOpen, Reading, Idle
  <2>2. \A g \in Fds : fdTable[g] # File
    <3>1. Stdin # File
      <4>. SUFFICES ASSUME Stdin = File
                    PROVE  FALSE
        OBVIOUS
      <4>1. {Free, Stdin, File} = {Free} \cup {Stdin}
        OBVIOUS
      <4>2. IsFiniteSet({Free}) /\ Cardinality({Free}) = 1
        BY FS_Singleton
      <4>3. Cardinality({Free} \cup {Stdin})
              = IF Stdin \in {Free} THEN Cardinality({Free}) ELSE Cardinality({Free}) + 1
        BY <4>2, FS_AddElement
      <4>. QED
        BY <4>1, <4>2, <4>3, ConnsAssumption
    <3>. QED
      BY <3>1, FreeFacts DEF Init
  <2>. QED
    BY <2>1, <2>2, InitBurst DEF FileInv, FilesAreHeld
<1>2. FileInv => FilesHaveOneOwner
  <2>. SUFFICES ASSUME FileInv
                PROVE  FilesHaveOneOwner
    OBVIOUS
  <2>. DEFINE owners(g) == {f \in ClientFds : users[f].m_file_fd = g}
  <2>1. \A g \in Fds : fdTable[g] = File => owners(g) # {}
    BY DEF FileInv, FilesAreHeld
  <2>2. ASSUME NEW g \in ClientFds, NEW f \in owners(g)
        PROVE  fdTable[g] = File /\ owners(g) = {f}
    BY <2>2 DEF FileInv, BurstInv, FilesAreOwn
  <2>. QED
    BY <2>1, <2>2 DEF FilesHaveOneOwner
<1>. QED
  BY <1>1, <1>2, StepFiles, PTL DEF BurstSpec
-----------------------------------------------------------------------------
(* The same with timers: each hand that holds a slot passes it on once.    *)

NoMore(f) == Cardinality(Hands(f))' <= Cardinality(Hands(f))

\* Of main reactor, masks, events, tasks and workers there are finitely many.
LEMMA HandsFinite == TypeOK => \A f : IsFiniteSet(Hands(f))
<1>. SUFFICES ASSUME TypeOK, NEW f
              PROVE  IsFiniteSet(Hands(f))
  OBVIOUS
<1>. DEFINE M == {m \in {mpc} : m \in {"init", "add"} /\ client_fd = f}
            A == {c \in Conns : fdTable[f] = c /\ mask[c] # "off"}
            E == {r \in Reactors : events[r][f] # "none"}
            T == {i \in DOMAIN tasks : tasks[i][1] = f}
            J == {w \in Workers : job[w].fd = f}
<1>1. IsFiniteSet(M)
  BY FS_Singleton, FS_Subset
<1>2. IsFiniteSet(A)
  <2>1. A \in SUBSET {fdTable[f]} /\ IsFiniteSet({fdTable[f]})
    BY FS_Singleton
  <2>. QED
    BY <2>1, FS_Subset
<1>3. IsFiniteSet(E)
  <2>1. IsFiniteSet(Reactors)
    BY ReactorsAssumption, FS_Interval DEF Reactors
  <2>. QED
    BY <2>1, FS_Subset
<1>4. IsFiniteSet(T)
  <2>1. DOMAIN tasks = 1 .. Len(tasks) /\ Len(tasks) \in Nat
    BY LenProperties DEF TypeOK
  <2>2. IsFiniteSet(DOMAIN tasks)
    BY <2>1, FS_Interval
  <2>. QED
    BY <2>2, FS_Subset
<1>5. IsFiniteSet(J)
  BY WorkersAssumption, FS_Subset
<1>6. Hands(f) = ({"main"} \X M) \cup ({"armed"} \X A) \cup ({"event"} \X E)
                   \cup ({"task"} \X T) \cup ({"job"} \X J)
  BY DEF Hands
<1>. HIDE DEF M, A, E, T, J
<1>7. /\ IsFiniteSet({"main"} \X M) /\ IsFiniteSet({"armed"} \X A)
      /\ IsFiniteSet({"event"} \X E) /\ IsFiniteSet({"task"} \X T) /\ IsFiniteSet({"job"} \X J)
  <2>1. \A s : IsFiniteSet({s})
    BY FS_Singleton
  <2>. QED
    BY <1>1, <1>2, <1>3, <1>4, <1>5, <2>1, FS_Product
<1>8. /\ IsFiniteSet(({"main"} \X M) \cup ({"armed"} \X A))
      /\ IsFiniteSet(({"task"} \X T) \cup ({"job"} \X J))
  BY <1>7, FS_Union
<1>9. IsFiniteSet((({"main"} \X M) \cup ({"armed"} \X A)) \cup ({"event"} \X E))
  BY <1>7, <1>8, FS_Union
<1>10. IsFiniteSet(((({"main"} \X M) \cup ({"armed"} \X A)) \cup ({"event"} \X E))
                     \cup (({"task"} \X T) \cup ({"job"} \X J)))
  BY <1>8, <1>9, FS_Union
<1>11. Hands(f) = ((({"main"} \X M) \cup ({"armed"} \X A)) \cup ({"event"} \X E))
                    \cup (({"task"} \X T) \cup ({"job"} \X J))
  BY <1>6
<1>. QED
  BY <1>10, <1>11

\* A descriptor that is in no hand it was not in before.
LEMMA NotMore ==
  ASSUME TypeOK, NEW f, \A x : IsHand(f, x)' => IsHand(f, x)
  PROVE  NoMore(f)
<1>1. Hands(f)' \in SUBSET Hands(f)
  BY Members, MembersNext
<1>. QED
  BY <1>1, HandsFinite, FS_Subset DEF NoMore

\* A descriptor that one hand, a, has passed to another, b.
LEMMA OnePassed ==
  ASSUME TypeOK, NEW f, NEW a, NEW b, IsHand(f, a),
         \A x : IsHand(f, x)' => x = b \/ (x # a /\ IsHand(f, x))
  PROVE  NoMore(f)
<1>. DEFINE H == Hands(f)
<1>1. Hands(f)' \in SUBSET ((H \ {a}) \cup {b}) /\ a \in H
  BY Members, MembersNext
<1>2. IsFiniteSet(H) /\ Cardinality(H) \in Nat
  BY HandsFinite, FS_CardinalityType
<1>3. IsFiniteSet(H \ {a}) /\ Cardinality(H \ {a}) = Cardinality(H) - 1
  BY <1>1, <1>2, FS_RemoveElement
<1>. HIDE DEF H
<1>4. /\ IsFiniteSet((H \ {a}) \cup {b})
      /\ Cardinality((H \ {a}) \cup {b}) <= Cardinality(H)
  <2>1. /\ IsFiniteSet((H \ {a}) \cup {b})
        /\ Cardinality((H \ {a}) \cup {b})
             = IF b \in H \ {a} THEN Cardinality(H \ {a}) ELSE Cardinality(H \ {a}) + 1
    BY <1>3, FS_AddElement
  <2>. QED
    BY <1>2, <1>3, <2>1
<1>5. /\ Cardinality(Hands(f)') <= Cardinality((H \ {a}) \cup {b})
      /\ Cardinality(Hands(f)') \in Nat
      /\ Cardinality((H \ {a}) \cup {b}) \in Nat
  BY <1>1, <1>4, FS_Subset, FS_CardinalityType
<1>. QED
  BY <1>2, <1>4, <1>5 DEF NoMore, H

\* Reactor r lets go of what it held f for.
LetsGo(r, f) ==
  events[r][f] # "none" /\ events' = [events EXCEPT ![r][f] = "none"] /\ UNCHANGED mainVars

\* So it does when it has handled an event, and when a blocking recv is over.
LEMMA HandlingLetsGo ==
  ASSUME NEW r, NEW f, (\E ev \in {"hup", "in", "out"} : Handling(r, f, ev))
                       \/ (InRecv(r, f) /\ ReadOver(r, f))
  PROVE  LetsGo(r, f)
BY DEF LetsGo, Handling, InRecv, ReadOver, mainVars

\* An event is handled, and its descriptor armed again or not.
LEMMA HandledMoves ==
  ASSUME Base, NEW r \in Reactors, NEW f \in ClientFds, LetsGo(r, f),
         NEW fds \in SUBSET (FileFd(f) \cup {f}), Close(fds),
         KeepArmed \/ \E e : Rearm(r, f, e),
         tasks' = tasks, job' = job, NEW g \in ClientFds
  PROVE  NoMore(g)
<1>0. TypeOK /\ Placed /\ fds \in SUBSET Fds /\ f \in Fds
  BY FileFds, Bounds DEF Base
<1>1. IsHand(f, <<"event", r>>)
  BY DEF LetsGo, IsHand
<1>2. /\ events'[r][f] = "none"
      /\ \A q \in Reactors, h \in ClientFds : q # r \/ h # f => events'[q][h] = events[q][h]
      /\ mpc' = mpc /\ client_fd' = client_fd
  BY <1>0 DEF LetsGo, TypeOK, mainVars
<1>3. ASSUME NEW h \in ClientFds, NEW c \in Conns, fdTable'[h] = c, mask'[c] # "off"
      PROVE  fdTable[h] = c /\ h \notin fds /\ (h # f => mask[c] # "off")
  BY <1>0, <1>3, ArmedLess, ArmedAnew, Bounds
<1>4. CASE g # f
  <2>1. ASSUME NEW x, IsHand(g, x)'
        PROVE  IsHand(g, x)
    BY <1>2, <1>3, <1>4, <2>1 DEF IsHand
  <2>. QED
    BY <1>0, <2>1, NotMore
<1>5. CASE g = f
  <2>1. ASSUME NEW x, IsHand(f, x)'
        PROVE  x = <<"armed", fdTable[f]>> \/ (x # <<"event", r>> /\ IsHand(f, x))
    BY <1>2, <1>3, <2>1 DEF IsHand
  <2>. QED
    BY <1>0, <1>1, <1>5, <2>1, OnePassed
<1>. QED
  BY <1>4, <1>5

\* A readable event becomes a task.
LEMMA QueuedMoves ==
  ASSUME TypeOK, NEW r \in Reactors, NEW f \in ClientFds, LetsGo(r, f),
         tasks' = Append(tasks, <<f, r>>), UNCHANGED <<kernelVars, job>>,
         NEW g \in ClientFds
  PROVE  NoMore(g)
<1>1. IsHand(f, <<"event", r>>)
  BY DEF LetsGo, IsHand
<1>2. /\ events'[r][f] = "none"
      /\ \A q \in Reactors, h \in ClientFds : q # r \/ h # f => events'[q][h] = events[q][h]
      /\ mpc' = mpc /\ client_fd' = client_fd
      /\ fdTable' = fdTable /\ mask' = mask /\ job' = job
  BY DEF LetsGo, TypeOK, mainVars, kernelVars
<1>3. /\ \A i \in DOMAIN tasks' : i = Len(tasks) + 1 \/ (i \in DOMAIN tasks /\ tasks'[i] = tasks[i])
      /\ tasks'[Len(tasks) + 1] = <<f, r>>
  <2>1. <<f, r>> \in Task /\ tasks \in Seq(Task)
    BY DEF Task, TypeOK
  <2>2. /\ tasks' \in Seq(Task) /\ Len(tasks') = Len(tasks) + 1
        /\ \A i \in 1 .. Len(tasks) : tasks'[i] = tasks[i]
        /\ tasks'[Len(tasks) + 1] = <<f, r>>
    BY <2>1, AppendProperties
  <2>3. Len(tasks) \in Nat /\ DOMAIN tasks = 1 .. Len(tasks) /\ DOMAIN tasks' = 1 .. (Len(tasks) + 1)
    BY <2>1, <2>2, LenProperties
  <2>. QED
    BY <2>2, <2>3
<1>4. CASE g # f
  <2>1. \A x : IsHand(g, x)' => IsHand(g, x)
    BY <1>2, <1>3, <1>4 DEF IsHand
  <2>. QED
    BY <2>1, NotMore
<1>5. CASE g = f
  <2>1. \A x : IsHand(f, x)' =>
          x = <<"task", Len(tasks) + 1>> \/ (x # <<"event", r>> /\ IsHand(f, x))
    BY <1>2, <1>3 DEF IsHand
  <2>. QED
    BY <1>1, <1>5, <2>1, OnePassed
<1>. QED
  BY <1>4, <1>5

\* An armed connection becomes an event.
LEMMA ReportedMoves ==
  ASSUME TypeOK, NEW r \in Reactors, EpollWait(r), NEW g \in ClientFds
  PROVE  NoMore(g)
<1>1. PICK ready \in SUBSET {f \in ArmedAt(r) : MayReport(f)} :
        /\ events' = [events EXCEPT ![r] =
                       [f \in ClientFds |-> IF f \in ready THEN EventAt(f) ELSE "none"]]
        /\ mask' = [c \in Conns |-> IF \E f \in ready : fdTable[f] = c THEN "off" ELSE mask[c]]
  BY DEF EpollWait
<1>2. /\ fdTable' = fdTable /\ tasks' = tasks /\ job' = job
      /\ mpc' = mpc /\ client_fd' = client_fd
  BY DEF EpollWait, poolVars, mainVars
<1>3. \A q \in Reactors : events'[q][g] # "none" => events[q][g] # "none" \/ (q = r /\ g \in ready)
  BY <1>1 DEF TypeOK
<1>4. \A c \in Conns : mask'[c] # "off" => mask[c] # "off" /\ \A f \in ready : fdTable[f] # c
  BY <1>1
<1>5. CASE g \notin ready
  <2>1. \A x : IsHand(g, x)' => IsHand(g, x)
    BY <1>2, <1>3, <1>4, <1>5 DEF IsHand
  <2>. QED
    BY <2>1, NotMore
<1>6. CASE g \in ready
  <2>1. PICK c \in Conns : fdTable[g] = c /\ mask[c] # "off"
    BY <1>1, <1>6 DEF ArmedAt
  <2>2. IsHand(g, <<"armed", c>>)
    BY <2>1 DEF IsHand
  <2>3. \A x : IsHand(g, x)' => x = <<"event", r>> \/ (x # <<"armed", c>> /\ IsHand(g, x))
    BY <1>2, <1>3, <1>4, <1>6, <2>1 DEF IsHand
  <2>. QED
    BY <2>2, <2>3, OnePassed
<1>. QED
  BY <1>5, <1>6

\* The oldest task becomes a worker's, and the others move up.
LEMMA TakenMoves ==
  ASSUME TypeOK, NEW w \in Workers, TakeTask(w), NEW g \in ClientFds
  PROVE  NoMore(g)
<1>1. /\ tasks \in Seq(Task) /\ tasks # <<>> /\ tasks' = Tail(tasks)
      /\ job[w] = Idle
      /\ fdTable' = fdTable /\ mask' = mask /\ events' = events
      /\ mpc' = mpc /\ client_fd' = client_fd
  BY DEF TakeTask, TypeOK, kernelVars, reactorVars, mainVars
<1>2. /\ Len(tasks) \in Nat /\ Len(tasks) >= 1 /\ DOMAIN tasks = 1 .. Len(tasks)
      /\ DOMAIN tasks' = 1 .. (Len(tasks) - 1)
      /\ \A i \in DOMAIN tasks' : tasks'[i] = tasks[i + 1]
      /\ Head(tasks) = tasks[1]
  <2>1. /\ tasks' \in Seq(Task) /\ Len(tasks') = Len(tasks) - 1
        /\ \A j \in 1 .. Len(tasks') : tasks'[j] = tasks[j + 1]
    BY <1>1, HeadTailProperties
  <2>2. DOMAIN tasks = 1 .. Len(tasks) /\ DOMAIN tasks' = 1 .. Len(tasks') /\ Len(tasks) \in Nat
    BY <1>1, <2>1, LenProperties
  <2>3. Head(tasks) = tasks[1] /\ Len(tasks) # 0
    BY <1>1, EmptySeq
  <2>. QED
    BY <2>1, <2>2, <2>3
<1>3. PICK f : f = tasks[1][1]
  OBVIOUS
<1>4. job'[w].fd = f /\ \A v \in Workers \ {w} : job'[v] = job[v]
  BY <1>2, <1>3 DEF TakeTask, TypeOK
<1>. DEFINE Moved(x) == \E i \in DOMAIN tasks' : x = <<"task", i>>
            F == [x \in Hands(g)' |-> IF x = <<"job", w>> /\ g = f THEN <<"task", 1>>
                                      ELSE IF Moved(x) THEN <<"task", x[2] + 1>>
                                      ELSE x]
<1>5. ASSUME NEW x \in Hands(g)'
      PROVE  \/ x = <<"job", w>> /\ F[x] = <<"task", 1>> /\ IsHand(g, <<"task", 1>>)
             \/ \E i \in DOMAIN tasks' :
                  x = <<"task", i>> /\ F[x] = <<"task", i + 1>> /\ IsHand(g, <<"task", i + 1>>)
             \/ F[x] = x /\ IsHand(g, x) /\ \A i : x # <<"task", i>>
  <2>1. \/ g = f /\ x = <<"job", w>>
        \/ IsHand(g, x) /\ (\A i : x # <<"task", i>>) /\ (g = f => x # <<"job", w>>)
        \/ \E i \in DOMAIN tasks' : x = <<"task", i>> /\ IsHand(g, <<"task", i + 1>>)
    BY <1>1, <1>2, <1>3, <1>4, MembersNext DEF IsHand
  <2>2. CASE g = f /\ x = <<"job", w>>
    <3>1. IsHand(g, <<"task", 1>>)
      BY <1>2, <1>3, <2>2 DEF IsHand
    <3>. QED
      BY <2>2, <3>1
  <2>3. CASE IsHand(g, x) /\ (\A i : x # <<"task", i>>) /\ (g = f => x # <<"job", w>>)
    BY <2>3
  <2>4. ASSUME NEW i \in DOMAIN tasks', x = <<"task", i>>, IsHand(g, <<"task", i + 1>>)
        PROVE  F[x] = <<"task", i + 1>>
    <3>1. x # <<"job", w>> /\ Moved(x) /\ x[2] = i
      BY <2>4
    <3>. QED
      BY <3>1
  <2>. QED
    BY <2>1, <2>2, <2>3, <2>4
<1>6. /\ <<"task", 1>> # <<"job", w>>
      /\ \A i \in DOMAIN tasks' : <<"task", i + 1>> # <<"task", 1>>
      /\ \A i, j \in DOMAIN tasks' : <<"task", i + 1>> = <<"task", j + 1>> => i = j
  BY <1>2
<1>7. F \in [Hands(g)' -> Hands(g)]
  <2>1. \A x \in Hands(g)' : F[x] \in Hands(g)
    BY <1>5, Members
  <2>2. F = [x \in Hands(g)' |-> F[x]]
    OBVIOUS
  <2>. QED
    BY <2>1, <2>2
<1>8. DOMAIN F = Hands(g)'
  OBVIOUS
<1>. HIDE DEF F
<1>9. ASSUME NEW x \in Hands(g)', NEW y \in Hands(g)', F[x] = F[y]
      PROVE  x = y
  <2>. DEFINE Job1(z) == z = <<"job", w>> /\ F[z] = <<"task", 1>>
              Up(z) == \E i \in DOMAIN tasks' : z = <<"task", i>> /\ F[z] = <<"task", i + 1>>
              Same(z) == F[z] = z /\ \A i : z # <<"task", i>>
  <2>1. (Job1(x) \/ Up(x) \/ Same(x)) /\ (Job1(y) \/ Up(y) \/ Same(y))
    BY <1>5
  <2>2. ASSUME NEW z, Up(z)
        PROVE  ~Job1(z) /\ F[z] # <<"task", 1>> /\ \E i : F[z] = <<"task", i>>
    BY <1>6, <2>2
  <2>3. Up(x) /\ Up(y) => x = y
    BY <1>6, <1>9
  <2>4. \A z : Same(z) => ~Up(z) /\ \A i : F[z] # <<"task", i>>
    OBVIOUS
  <2>. HIDE DEF Up
  <2>. QED
    BY <1>9, <2>1, <2>2, <2>3, <2>4
<1>10. F \in Injection(Hands(g)', Hands(g))
  BY <1>7, <1>8, <1>9 DEF Injection, IsInjective
<1>. QED
  BY <1>10, HandsFinite, FS_Injection DEF NoMore

\* A file takes a number that no connection has.
LEMMA OpenedMoves ==
  ASSUME TypeOK, NEW w \in Workers, DoRequest(w), NEW g \in ClientFds
  PROVE  NoMore(g)
<1>1. job[w] \in Job
  BY DEF DoRequest, TypeOK, Idle
<1>2. /\ \A v \in Workers : job'[v].fd = job[v].fd
      /\ tasks' = tasks /\ events' = events /\ mask' = mask
      /\ mpc' = mpc /\ client_fd' = client_fd
  BY <1>1 DEF DoRequest, Job, TypeOK, reactorVars, mainVars
<1>3. fdTable' = fdTable \/ \E k \in Fds : fdTable' = [fdTable EXCEPT ![k] = File]
  BY DEF DoRequest, LowestFree, FreeFds
<1>4. \A c \in Conns : fdTable'[g] = c => fdTable[g] = c
  BY <1>3, FreeFacts, Bounds DEF TypeOK
<1>5. \A x : IsHand(g, x)' => IsHand(g, x)
  BY <1>2, <1>4 DEF IsHand
<1>. QED
  BY <1>5, NotMore

\* A worker's descriptor becomes an armed connection, or nobody's.
LEMMA ArmedMoves ==
  ASSUME Base, NEW w \in Workers, FinishTask(w), NEW g \in ClientFds
  PROVE  NoMore(g)
<1>0. TypeOK /\ Placed
  BY DEF Base
<1>1. PICK f : f = job[w].fd
  OBVIOUS
<1>2. /\ f \in ClientFds /\ f \in Fds
      /\ job'[w] = Idle /\ \A v \in Workers \ {w} : job'[v] = job[v]
      /\ tasks' = tasks /\ events' = events
      /\ mpc' = mpc /\ client_fd' = client_fd
  BY <1>0, <1>1, Bounds DEF FinishTask, TypeOK, Job, Idle, reactorVars, mainVars
<1>3. Close({}) /\ \E ev : Rearm(job[w].at, f, ev)
  BY <1>1 DEF FinishTask
<1>4. {} \in SUBSET Fds /\ 0 \notin ClientFds
  BY Bounds
<1>5. ASSUME NEW h \in ClientFds, NEW c \in Conns, fdTable'[h] = c, mask'[c] # "off"
      PROVE  fdTable[h] = c /\ (h # f => mask[c] # "off")
  BY <1>0, <1>2, <1>3, <1>4, <1>5, ArmedAnew, Bounds
<1>6. CASE g # f
  <2>1. \A x : IsHand(g, x)' => IsHand(g, x)
    BY <1>2, <1>4, <1>5, <1>6 DEF IsHand, Idle
  <2>. QED
    BY <1>0, <2>1, NotMore
<1>7. CASE g = f
  <2>1. IsHand(g, <<"job", w>>)
    BY <1>1, <1>7 DEF IsHand
  <2>2. \A x : IsHand(g, x)' => x = <<"armed", fdTable[g]>> \/ (x # <<"job", w>> /\ IsHand(g, x))
    BY <1>2, <1>4, <1>5, <1>7 DEF IsHand, Idle
  <2>. QED
    BY <1>0, <2>1, <2>2, OnePassed
<1>. QED
  BY <1>6, <1>7

\* The main reactor closes the slot's file and keeps the slot.
LEMMA SweptMoves ==
  ASSUME Base, InitSlot, NEW g \in ClientFds
  PROVE  NoMore(g)
<1>0. TypeOK /\ client_fd \in ClientFds /\ mpc = "init"
  BY DEF Base, MainHolds, InitSlot
<1>1. /\ tasks' = tasks /\ job' = job /\ events' = events
      /\ mpc' = "add" /\ client_fd' = client_fd
      /\ Close(FileFd(client_fd)) /\ KeepArmed
  BY DEF InitSlot, poolVars, reactorVars
<1>2. \A h \in ClientFds, c \in Conns :
        fdTable'[h] = c /\ mask'[c] # "off" => fdTable[h] = c /\ mask[c] # "off"
  BY <1>0, <1>1, FileFds, ArmedLess, Bounds
<1>3. CASE g # client_fd
  <2>1. \A x : IsHand(g, x)' => IsHand(g, x)
    BY <1>1, <1>2, <1>3 DEF IsHand
  <2>. QED
    BY <1>0, <2>1, NotMore
<1>4. CASE g = client_fd
  <2>1. IsHand(g, <<"main", "init">>)
    BY <1>0, <1>4 DEF IsHand
  <2>2. \A x : IsHand(g, x)' => x = <<"main", "add">> \/ (x # <<"main", "init">> /\ IsHand(g, x))
    BY <1>1, <1>2, <1>4 DEF IsHand
  <2>. QED
    BY <1>0, <2>1, <2>2, OnePassed
<1>. QED
  BY <1>3, <1>4

\* And arms it.
LEMMA AddedMoves ==
  ASSUME Base, AddToEpoll, NEW g \in ClientFds
  PROVE  NoMore(g)
<1>0. TypeOK /\ Placed /\ client_fd \in ClientFds /\ client_fd \in Fds /\ mpc = "add"
  BY Bounds DEF Base, MainHolds, AddToEpoll
<1>1. PICK f : f = client_fd
  OBVIOUS
<1>2. PICK c : c = fdTable[f]
  OBVIOUS
<1>3. /\ tasks' = tasks /\ job' = job /\ events' = events
      /\ fdTable' = fdTable /\ mpc' = "accept"
  BY DEF AddToEpoll, poolVars, reactorVars
<1>4. \A d \in Conns \ {c} : mask'[d] = mask[d]
  BY <1>0, <1>1, <1>2 DEF AddToEpoll, TypeOK
<1>5. CASE g # f
  <2>1. \A d \in Conns : fdTable[g] = d => d # c
    BY <1>0, <1>1, <1>2, <1>5, Bounds DEF Placed
  <2>2. \A x : IsHand(g, x)' => IsHand(g, x)
    BY <1>3, <1>4, <2>1 DEF IsHand
  <2>. QED
    BY <1>0, <2>2, NotMore
<1>6. CASE g = f
  <2>1. IsHand(g, <<"main", "add">>)
    BY <1>0, <1>1, <1>6 DEF IsHand
  <2>2. \A x : IsHand(g, x)' => x = <<"armed", c>> \/ (x # <<"main", "add">> /\ IsHand(g, x))
    BY <1>2, <1>3, <1>4, <1>6 DEF IsHand
  <2>. QED
    BY <1>0, <2>1, <2>2, OnePassed
<1>. QED
  BY <1>5, <1>6

\* accept takes up no slot but the one whose number it returns.
LEMMA AcceptedMoves ==
  ASSUME TypeOK, NEW c \in Conns, Accept(c), NEW g \in ClientFds, client_fd' # g
  PROVE  NoMore(g)
<1>1. PICK f \in LowestFree :
        /\ fdTable' = [fdTable EXCEPT ![f] = c]
        /\ IF f <= 0
             THEN mpc' = "gave_up" /\ UNCHANGED client_fd
             ELSE mpc' = "init" /\ client_fd' = f
  BY DEF Accept
<1>2. f # g /\ g \in Fds /\ f \in Fds
  BY <1>1, Bounds DEF ClientFds, Fds, LowestFree, FreeFds
<1>3. fdTable'[g] = fdTable[g]
  BY <1>1, <1>2 DEF TypeOK
<1>4. tasks' = tasks /\ job' = job /\ events' = events /\ mask' = mask
  BY DEF Accept, poolVars, reactorVars
<1>5. \A x : IsHand(g, x)' => IsHand(g, x)
  BY <1>1, <1>3, <1>4 DEF IsHand
<1>. QED
  BY <1>5, NotMore

\* What neither touches a descriptor nor who holds it, and what closes one.
LEMMA OthersMove ==
  ASSUME TypeOK, UNCHANGED <<events, poolVars>>,
         mpc' \in {"init", "add"} => UNCHANGED <<mpc, client_fd>>,
         UNCHANGED <<fdTable, mask>> \/ \E fds \in SUBSET Fds : Close(fds) /\ KeepArmed,
         NEW g \in ClientFds
  PROVE  NoMore(g)
<1>1. \A c \in Conns : fdTable'[g] = c /\ mask'[c] # "off" => fdTable[g] = c /\ mask[c] # "off"
  BY ArmedLess, Bounds
<1>2. \A x : IsHand(g, x)' => IsHand(g, x)
  BY <1>1 DEF IsHand, poolVars
<1>. QED
  BY <1>2, NotMore

(* EPOLLONESHOT and the hand-overs never multiply the hands that hold a    *)
(* slot, not even when timers close numbers that are held: only accept,    *)
(* which gives such a number out again, puts a slot into a second hand     *)
(* (main.cpp 52, 78-143, 246-254).                                         *)
THEOREM HandsArePassed == SafeSpec => HandsArePassedOn
<1>1. ASSUME Base, [Next]_vars, NEW g \in ClientFds,
             ~ \E c \in Conns : Accept(c) /\ client_fd' = g
      PROVE  NoMore(g)
  <2>. USE DEF vars, clientVars, kernelVars, reactorVars, poolVars, mainVars
  <2>0. TypeOK
    BY <1>1 DEF Base
  <2>1. CASE \/ ClientStep \/ HearBell \/ AcceptNobody \/ AcceptFails \/ Advance
             \/ UNCHANGED vars \/ \E r \in Reactors : TickDone(r) \/ HandleDone(r)
    BY <1>1, <2>0, <2>1, OthersMove
       DEF ClientStep, Connect, Send, HangUp, HearBell, AcceptNobody, AcceptFails, Advance,
           TickDone, HandleDone
  <2>2. ASSUME NEW r \in Reactors, TickFire(r)
        PROVE  NoMore(g)
    <3>1. \E fds \in SUBSET Fds : Close(fds) /\ KeepArmed
      <4>1. PICK f \in ClientFds : Close({f}) /\ KeepArmed
        BY <2>2 DEF TickFire
      <4>2. {f} \in SUBSET Fds
        BY Bounds
      <4>. QED
        BY <4>1, <4>2
    <3>. QED
      BY <1>1, <2>0, <2>2, <3>1, OthersMove DEF TickFire
  <2>3. ASSUME NEW r \in Reactors, NEW f \in ClientFds, OnHangUp(r, f)
        PROVE  NoMore(g)
    BY <1>1, <2>3, HandlingLetsGo, HandledMoves DEF OnHangUp
  <2>4. ASSUME NEW r \in Reactors, NEW f \in ClientFds, LetsGo(r, f), UNCHANGED job,
               ReadReturns(r, f) \/ (Close({f}) /\ KeepArmed /\ UNCHANGED tasks)
        PROVE  NoMore(g)
    <3>1. CASE tasks' = Append(tasks, <<f, r>>) /\ UNCHANGED kernelVars
      BY <1>1, <2>0, <2>4, <3>1, QueuedMoves
    <3>2. CASE Close({f}) /\ KeepArmed /\ UNCHANGED tasks
      BY <1>1, <2>4, <3>2, HandledMoves
    <3>. QED
      BY <2>4, <3>1, <3>2 DEF ReadReturns
  <2>7. ASSUME NEW r \in Reactors, NEW f \in ClientFds, OnReadable(r, f)
        PROVE  NoMore(g)
    BY <2>4, <2>7, HandlingLetsGo DEF OnReadable
  <2>8. ASSUME NEW r \in Reactors, NEW f \in ClientFds,
               RecvReturns(r, f) \/ RecvAgain(r, f)
        PROVE  NoMore(g)
    <3>1. CASE UNCHANGED <<events, kernelVars, tasks>>
      <4>1. UNCHANGED <<mpc, client_fd, job>>
        BY <2>8 DEF RecvReturns, RecvAgain, InRecv
      <4>2. \A x : IsHand(g, x)' => IsHand(g, x)
        BY <3>1, <4>1 DEF IsHand
      <4>. QED
        BY <2>0, <4>2, NotMore
    <3>2. CASE /\ ReadOver(r, f)
               /\ ReadReturns(r, f) \/ (Close({f}) /\ KeepArmed /\ UNCHANGED tasks)
      <4>1. InRecv(r, f) /\ UNCHANGED job
        BY <2>8 DEF RecvReturns, RecvAgain, InRecv
      <4>2. LetsGo(r, f)
        BY <3>2, <4>1, HandlingLetsGo
      <4>. QED
        BY <2>4, <3>2, <4>1, <4>2
    <3>. QED
      BY <2>8, <3>1, <3>2 DEF RecvReturns, RecvAgain
  <2>9. ASSUME NEW r \in Reactors, NEW f \in ClientFds, OnReadableBlocks(r, f)
        PROVE  NoMore(g)
    <3>1. \A q \in Reactors : events'[q][g] # "none" => events[q][g] # "none"
      BY <2>0, <2>9 DEF OnReadableBlocks, TypeOK
    <3>2. \A x : IsHand(g, x)' => IsHand(g, x)
      BY <2>9, <3>1 DEF OnReadableBlocks, IsHand
    <3>. QED
      BY <2>0, <3>2, NotMore
  <2>5. ASSUME NEW r \in Reactors, NEW f \in ClientFds, OnWritable(r, f)
        PROVE  NoMore(g)
    <3>1. Handling(r, f, "out") /\ tasks' = tasks /\ job' = job
      BY <2>5 DEF OnWritable, OnWritableIdle, OnWritablePart, OnWritableLast, OnWritableError
    <3>2. \E fds \in SUBSET (FileFd(f) \cup {f}) :
            Close(fds) /\ (KeepArmed \/ \E e : Rearm(r, f, e))
      <4>1. /\ {} \in SUBSET (FileFd(f) \cup {f})
            /\ FileFd(f) \in SUBSET (FileFd(f) \cup {f})
            /\ FileFd(f) \cup {f} \in SUBSET (FileFd(f) \cup {f})
        OBVIOUS
      <4>. QED
        BY <2>5, <4>1
           DEF OnWritable, OnWritableIdle, OnWritablePart, OnWritableLast, OnWritableError
    <3>. QED
      BY <1>1, <3>1, <3>2, HandlingLetsGo, HandledMoves
  <2>6. ASSUME NEW c \in Conns, Accept(c)
        PROVE  NoMore(g)
    BY <1>1, <2>0, <2>6, AcceptedMoves
  <2>. QED
    BY <1>1, <2>0, <2>1, <2>2, <2>3, <2>5, <2>6, <2>7, <2>8, <2>9, ReportedMoves, TakenMoves,
       OpenedMoves, ArmedMoves, SweptMoves, AddedMoves
    DEF Next, NextWithinTick, SubReactorStep, WorkerStep, MainStep
<1>2. ASSUME Base, [Next]_vars, NEW g \in ClientFds, NoMore(g)
      PROVE  ~(Cardinality(Hands(g))' > Cardinality(Hands(g)))
  <2>1. Cardinality(Hands(g)) \in Nat /\ Cardinality(Hands(g))' \in Nat
    <3>1. TypeOK /\ TypeOK'
      BY <1>2, StepBase DEF Base
    <3>2. Cardinality(Hands(g)) \in Nat
      BY <3>1, HandsFinite, FS_CardinalityType
    <3>3. (TypeOK => \A f : IsFiniteSet(Hands(f)))'
      BY HandsFinite, PTL
    <3>4. IsFiniteSet(Hands(g)')
      BY <3>1, <3>3
    <3>. QED
      BY <3>2, <3>4, FS_CardinalityType
  <2>. QED
    BY <1>2, <2>1 DEF NoMore
<1>3. Base /\ [Next]_vars =>
        [\A f \in ClientFds :
           Cardinality(Hands(f))' > Cardinality(Hands(f))
           => \E c \in Conns : Accept(c) /\ client_fd' = f]_vars
  BY <1>1, <1>2
<1>. QED
  BY <1>3, BaseKept, PTL DEF SafeSpec, HandsArePassedOn
=============================================================================
