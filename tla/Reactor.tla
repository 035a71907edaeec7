------------------------------ MODULE Reactor ------------------------------
(***************************************************************************)
(* The life of a client connection in src/src/main.cpp: the main reactor   *)
(* accepts it and hands it to a sub-reactor; the sub-reactor's epoll and   *)
(* timer, the tasks of the thread pool and the http_conn slot users[fd]    *)
(* serve it, under nothing but its file descriptor's number.               *)
(*                                                                         *)
(* Threads interleave between the system calls that matter to each other:  *)
(* accept / users[fd].init / epoll_ctl ADD in the main reactor, each       *)
(* expired timer and each event in a sub-reactor, and recv+parse /         *)
(* do_request / epoll_ctl MOD in a worker.  The kernel's part (lowest free *)
(* descriptor, close, epoll with EPOLLONESHOT) is modelled from how        *)
(* main.cpp uses it.  Request bytes are abstracted to whose they are and   *)
(* whether they make a whole request; a response to the number of sends it *)
(* takes; the timer list to what it promises, a deadline per descriptor.   *)
(***************************************************************************)
EXTENDS Integers, Sequences, FiniteSets

CONSTANTS
  Conns,            \* client connections, one per TCP connection ever made
  NoConn,
  Free, Stdin, File, \* what else a descriptor number may stand for
  Workers,          \* threads of global_pool
  SUB_REACTOR_NUM,
  MaxFd,            \* descriptors a client or a file can get are 1..MaxFd
  TIMEOUT_MS,       \* the idle timeout, in ticks of Advance
  MaxSends,         \* bound: pieces of requests a client sends
  Chunks,           \* send() calls that a response may take
  ServeFiles        \* whether clients ask for files, or for the API alone

Reactors == 0 .. SUB_REACTOR_NUM - 1
Fds == 0 .. MaxFd
ClientFds == 1 .. MaxFd
NoFd == -1
NoReactor == -1
NoDeadline == -1

ASSUME ReactorsAssumption == SUB_REACTOR_NUM \in Nat \ {0}
ASSUME FdsAssumption == MaxFd \in Nat \ {0}
ASSUME TimeoutAssumption == TIMEOUT_MS \in Nat \ {0}
ASSUME BoundsAssumption == MaxSends \in Nat /\ Chunks \in Nat \ {0} /\ ServeFiles \in BOOLEAN
ASSUME WorkersAssumption == IsFiniteSet(Workers)
ASSUME ConnsAssumption ==
  /\ NoConn \notin Conns
  /\ Conns \cap {Free, Stdin, File} = {}
  /\ Cardinality({Free, Stdin, File}) = 3

VARIABLES
  phase,            \* "new", "backlog" (not accepted), "open" or "closed"
  inbox,            \* what of a request is unread in the socket
  hup,              \* the client has closed its side
  sends,            \* how many pieces the client has sent
  got,              \* history: whose requests were answered to it since it last asked
  fdTable,          \* what each descriptor number stands for
  epollOf,          \* the sub-reactor whose epoll watches a connection
  mask,             \* the events armed for it: "in", "out" or "off"
  bell,             \* the listening socket's edge, not yet reported
  users,            \* the http_conn slots
  expires,          \* per sub-reactor: time left for each descriptor
  rpc,              \* where each sub-reactor is in its loop
  events,           \* what its last epoll_wait returned, by descriptor
  recvOf,           \* the connection whose bytes a blocking recv of it waits for
  watched,          \* history: connections a timer was set for
  tasks,            \* queue of global_pool: <<sockfd, sub-reactor>>
  job,              \* what each worker is doing
  mpc,              \* where the main reactor is
  client_fd,
  round_robin_idx

clientVars == <<inbox, hup, sends>>
kernelVars == <<phase, fdTable, epollOf, mask>>
reactorVars == <<expires, rpc, events, recvOf, watched>>
poolVars == <<tasks, job>>
mainVars == <<mpc, client_fd, round_robin_idx, bell>>
vars == <<clientVars, got, kernelVars, users, reactorVars, poolVars, mainVars>>

\* users[fd] after init(): nothing read, nothing to send, no file.
Swept == [from |-> NoConn, whole |-> FALSE, answers |-> NoConn,
          bytes_to_send |-> 0, m_file_fd |-> NoFd]

\* http_conn() leaves m_file_fd uninitialised; new http_conn[65536] is served
\* from fresh zero pages, so that every slot starts with the number of stdin.
Unborn == [Swept EXCEPT !.m_file_fd = 0]

Idle == [stage |-> "idle", fd |-> 0, at |-> 0, of |-> NoConn]

Init ==
  /\ phase = [c \in Conns |-> "new"]
  /\ inbox = [c \in Conns |-> "none"]
  /\ hup = [c \in Conns |-> FALSE]
  /\ sends = [c \in Conns |-> 0]
  /\ got = [c \in Conns |-> {}]
  /\ fdTable = [f \in Fds |-> IF f = 0 THEN Stdin ELSE Free]
  /\ epollOf = [c \in Conns |-> NoReactor]
  /\ mask = [c \in Conns |-> "off"]
  /\ bell = FALSE
  /\ users = [f \in ClientFds |-> Unborn]
  /\ expires = [r \in Reactors |-> [f \in ClientFds |-> NoDeadline]]
  /\ rpc = [r \in Reactors |-> "wait"]
  /\ events = [r \in Reactors |-> [f \in ClientFds |-> "none"]]
  /\ recvOf = [r \in Reactors |-> NoConn]
  /\ watched = {}
  /\ tasks = <<>>
  /\ job = [w \in Workers |-> Idle]
  /\ mpc = "wait"
  /\ client_fd = NoFd
  /\ round_robin_idx = 0

-----------------------------------------------------------------------------
(* The clients.  A request is sent whole, or in pieces the last of which   *)
(* makes it whole; the next one is sent when the reply to it has come.     *)

\* c has asked and the reply is not out yet.
Outstanding(c) ==
  \/ inbox[c] = "whole"
  \/ \E f \in ClientFds : users[f].from = c /\ users[f].whole
  \/ \E f \in ClientFds : users[f].answers = c /\ users[f].bytes_to_send > 0
  \/ \E w \in Workers : job[w].stage = "request" /\ job[w].of = c

\* The socket exists: a recv holds it, even if its number has been closed.
Connected(c) == phase[c] \in {"backlog", "open"} \/ \E r \in Reactors : recvOf[r] = c

Connect(c) ==
  /\ phase[c] = "new"
  /\ phase' = [phase EXCEPT ![c] = "backlog"]
  /\ bell' = TRUE
  /\ UNCHANGED <<clientVars, got, fdTable, epollOf, mask, users, reactorVars, poolVars,
                 mpc, client_fd, round_robin_idx>>

Send(c, piece) ==
  /\ Connected(c)
  /\ ~hup[c]
  /\ sends[c] < MaxSends
  /\ ~Outstanding(c)
  /\ inbox[c] = "none" \/ (inbox[c] = "part" /\ piece = "whole")
  /\ inbox' = [inbox EXCEPT ![c] = piece]
  /\ sends' = [sends EXCEPT ![c] = @ + 1]
  /\ got' = IF piece = "whole" THEN [got EXCEPT ![c] = {}] ELSE got
  /\ UNCHANGED <<hup, kernelVars, users, reactorVars, poolVars, mainVars>>

HangUp(c) ==
  /\ Connected(c)
  /\ ~hup[c]
  /\ hup' = [hup EXCEPT ![c] = TRUE]
  /\ UNCHANGED <<inbox, sends, got, kernelVars, users, reactorVars, poolVars, mainVars>>

-----------------------------------------------------------------------------
(* The kernel.  close(fd) drops whatever the number stands for at that     *)
(* moment, and with a socket its place in the epoll that watched it; on a  *)
(* number that is free it fails and does nothing.                          *)

ClosedBy(fds) == {c \in Conns : \E f \in fds : fdTable[f] = c}

Close(fds) ==
  /\ fdTable' = [f \in Fds |-> IF f \in fds THEN Free ELSE fdTable[f]]
  /\ phase' = [c \in Conns |-> IF c \in ClosedBy(fds) THEN "closed" ELSE phase[c]]
  /\ epollOf' = [c \in Conns |-> IF c \in ClosedBy(fds) THEN NoReactor ELSE epollOf[c]]

\* The masks, after Close, of the registrations that are left.
KeepArmed == mask' = [c \in Conns |-> IF epollOf'[c] = NoReactor THEN "off" ELSE mask[c]]

\* The same, after r's epoll_ctl(MOD, f, ev): it arms the connection f stands
\* for if that is one of r's, and otherwise fails.
Rearm(r, f, ev) ==
  mask' = [c \in Conns |-> IF epollOf'[c] = NoReactor THEN "off"
                           ELSE IF epollOf'[c] = r /\ fdTable'[f] = c THEN ev
                           ELSE mask[c]]

FreeFds == {f \in Fds : fdTable[f] = Free}
LowestFree == {f \in FreeFds : \A g \in FreeFds : f <= g}    \* at most one

\* What recv finds at descriptor f: an open connection that still talks.
Talking(f) == fdTable[f] \in Conns /\ ~hup[fdTable[f]]

\* Between accept and set_non_blocking (AddToEpoll) a socket blocks: with the
\* inbox empty, recv waits for its client to send more or to hang up.
Blocks(f) == Talking(f) /\ mpc \in {"init", "add"} /\ client_fd = f

\* The slot of f once recv has drained connection c into it.
Drained(f, c) ==
  IF inbox[c] = "none" THEN users[f]
  ELSE [users[f] EXCEPT !.from = c, !.whole = @ \/ inbox[c] = "whole"]

-----------------------------------------------------------------------------
(* ListTimer, reduced to the deadlines it keeps.  Each expired entry       *)
(* closes the descriptor it was set for, whatever that stands for by then. *)
(* tick() runs in getNextTick(), before epoll_wait, and again after it; an *)
(* entry that expires in between makes epoll_wait time out.  So "wait" is  *)
(* everything from getNextTick() to the return of epoll_wait.              *)

\* Seeded bug: the callback takes the descriptor out of epoll and forgets close.
TickFireNoClose(r) ==
  /\ rpc[r] \in {"wait", "tick"}
  /\ \E f \in ClientFds :
       /\ expires[r][f] = 0
       /\ expires' = [expires EXCEPT ![r][f] = NoDeadline]
       /\ epollOf' = [c \in Conns |-> IF fdTable[f] = c THEN NoReactor ELSE epollOf[c]]
       /\ KeepArmed
  /\ UNCHANGED <<clientVars, got, phase, fdTable, users, rpc, events, recvOf, watched,
                 poolVars, mainVars>>

TickFire(r) ==
  /\ rpc[r] \in {"wait", "tick"}
  /\ \E f \in ClientFds :
       /\ expires[r][f] = 0
       /\ expires' = [expires EXCEPT ![r][f] = NoDeadline]
       /\ Close({f})
       /\ KeepArmed
  /\ UNCHANGED <<clientVars, got, users, rpc, events, recvOf, watched, poolVars, mainVars>>

TickDone(r) ==
  /\ rpc[r] = "tick"
  /\ \A f \in ClientFds : expires[r][f] # 0
  /\ rpc' = [rpc EXCEPT ![r] = "handle"]
  /\ UNCHANGED <<clientVars, got, kernelVars, users, expires, events, recvOf, watched,
                 poolVars, mainVars>>

Advance ==
  /\ \E r \in Reactors, f \in ClientFds : expires[r][f] > 0
  /\ expires' = [r \in Reactors |-> [f \in ClientFds |->
                  IF expires[r][f] > 0 THEN expires[r][f] - 1 ELSE expires[r][f]]]
  /\ UNCHANGED <<clientVars, got, kernelVars, users, rpc, events, recvOf, watched,
                 poolVars, mainVars>>

\* Seeded bug: adding a descriptor that has an entry loses the entry.
WatchLosesEntry(r, f) ==
  /\ expires' = [expires EXCEPT ![r][f] = IF @ = NoDeadline THEN TIMEOUT_MS ELSE NoDeadline]
  /\ watched' = watched \cup {c \in Conns : fdTable[f] = c /\ epollOf[c] = r}

\* local_timer.add(f, TIMEOUT_MS, ...)
Watch(r, f) ==
  /\ expires' = [expires EXCEPT ![r][f] = TIMEOUT_MS]
  /\ watched' = watched \cup {c \in Conns : fdTable[f] = c /\ epollOf[c] = r}

-----------------------------------------------------------------------------
(* sub_reactor_loop.  epoll_wait reports every connection that is armed    *)
(* and ready and, EPOLLONESHOT, disarms it.  Whether a socket armed for    *)
(* EPOLLOUT has room depends on how fast its client reads.                 *)

ArmedAt(r) == {f \in ClientFds : \E c \in Conns :
                 fdTable[f] = c /\ epollOf[c] = r /\ mask[c] # "off"}

MustReport(f) ==
  LET c == fdTable[f] IN hup[c] \/ (mask[c] = "in" /\ inbox[c] # "none")
MayReport(f) == MustReport(f) \/ mask[fdTable[f]] = "out"

EventAt(f) == IF hup[fdTable[f]] THEN "hup" ELSE mask[fdTable[f]]

\* Seeded bug: registered without EPOLLONESHOT.
EpollWaitStaysArmed(r) == \E ready \in SUBSET {f \in ArmedAt(r) : MayReport(f)} :
  /\ rpc[r] = "wait"
  /\ ready # {}
  /\ events' = [events EXCEPT ![r] =
                 [f \in ClientFds |-> IF f \in ready THEN EventAt(f) ELSE "none"]]
  /\ rpc' = [rpc EXCEPT ![r] = "tick"]
  /\ UNCHANGED <<clientVars, got, kernelVars, users, expires, recvOf, watched, poolVars, mainVars>>

EpollWait(r) == \E ready \in SUBSET {f \in ArmedAt(r) : MayReport(f)} :
  /\ rpc[r] = "wait"
  /\ {f \in ArmedAt(r) : MustReport(f)} \subseteq ready
  /\ ready # {} \/ \E f \in ClientFds : expires[r][f] = 0
  /\ events' = [events EXCEPT ![r] =
                 [f \in ClientFds |-> IF f \in ready THEN EventAt(f) ELSE "none"]]
  /\ mask' = [c \in Conns |-> IF \E f \in ready : fdTable[f] = c THEN "off" ELSE mask[c]]
  /\ rpc' = [rpc EXCEPT ![r] = "tick"]
  /\ UNCHANGED <<clientVars, got, phase, fdTable, epollOf, users, expires, recvOf, watched,
                 poolVars, mainVars>>

Handling(r, f, ev) ==
  /\ rpc[r] = "handle"
  /\ events[r][f] = ev
  /\ events' = [events EXCEPT ![r][f] = "none"]
  /\ UNCHANGED <<rpc, recvOf, mainVars>>

\* EPOLLRDHUP, EPOLLHUP, EPOLLERR: no farewell to the timer.
OnHangUp(r, f) ==
  /\ Handling(r, f, "hup")
  /\ Close({f})
  /\ KeepArmed
  /\ UNCHANGED <<clientVars, got, users, expires, watched, poolVars>>

\* read(): recv takes what has come, whoever has the number.
Receive(f) ==
  IF fdTable[f] \in Conns
    THEN /\ users' = [users EXCEPT ![f] = Drained(f, fdTable[f])]
         /\ inbox' = [inbox EXCEPT ![fdTable[f]] = "none"]
    ELSE UNCHANGED <<users, inbox>>

\* Then it returns: true on EAGAIN, which a socket that blocks never gives,
\* and a task is queued; false if there is nobody to read from or the request
\* does not fit the buffer, and the connection is closed.
ReadReturns(r, f) ==
  \/ /\ Talking(f) /\ ~Blocks(f)
     /\ tasks' = Append(tasks, <<f, r>>)
     /\ UNCHANGED kernelVars
  \/ /\ Talking(f) => inbox[fdTable[f]] # "none"
     /\ Close({f})
     /\ KeepArmed
     /\ UNCHANGED tasks

\* EPOLLIN: reset the timer and read().
OnReadable(r, f) ==
  /\ Handling(r, f, "in")
  /\ Watch(r, f)
  /\ Receive(f)
  /\ ReadReturns(r, f)
  /\ UNCHANGED <<hup, sends, got, job>>

\* The event is a stale one, and the number has just been given to a client
\* that main has not made non-blocking: recv keeps the whole thread waiting.
OnReadableBlocks(r, f) ==
  /\ rpc[r] = "handle" /\ events[r][f] = "in"
  /\ Blocks(f)
  /\ Watch(r, f)
  /\ Receive(f)
  /\ events' = [events EXCEPT ![r][f] = "recv"]
  /\ rpc' = [rpc EXCEPT ![r] = "recv"]
  /\ recvOf' = [recvOf EXCEPT ![r] = fdTable[f]]
  /\ UNCHANGED <<hup, sends, got, kernelVars, poolVars, mainVars>>

\* read() is over, in a thread that had to wait in it.
ReadOver(r, f) ==
  /\ events' = [events EXCEPT ![r][f] = "none"]
  /\ rpc' = [rpc EXCEPT ![r] = "handle"]
  /\ recvOf' = [recvOf EXCEPT ![r] = NoConn]

InRecv(r, f) ==
  /\ rpc[r] = "recv" /\ events[r][f] = "recv"
  /\ UNCHANGED <<hup, sends, got, expires, watched, job, mainVars>>

\* The client that recv waits for has sent more, and read() goes round its
\* loop; or recv returns 0, or the buffer is full, and read() is over.
RecvReturns(r, f) == LET c == recvOf[r] IN
  /\ InRecv(r, f)
  /\ c # NoConn
  /\ inbox[c] # "none" \/ hup[c]
  /\ users' = [users EXCEPT ![f] = Drained(f, c)]
  /\ inbox' = [inbox EXCEPT ![c] = "none"]
  /\ \/ /\ inbox[c] # "none"
        /\ recvOf' = [recvOf EXCEPT ![r] = NoConn]
        /\ UNCHANGED <<events, rpc, kernelVars>>
     \/ ReadOver(r, f) /\ Close({f}) /\ KeepArmed
  /\ UNCHANGED tasks

\* recv is called again, for the socket that the number stands for by now.
RecvAgain(r, f) ==
  /\ InRecv(r, f)
  /\ recvOf[r] = NoConn
  /\ Receive(f)
  /\ \/ /\ Blocks(f)
        /\ recvOf' = [recvOf EXCEPT ![r] = fdTable[f]]
        /\ UNCHANGED <<events, rpc, kernelVars, tasks>>
     \/ ReadOver(r, f) /\ ReadReturns(r, f)

\* The file users[f] has open, if any, and whether it is one no more.
FileFd(f) == {users[f].m_file_fd} \ {NoFd}
SourceGone(f) == \E g \in FileFd(f) : fdTable[g] # File

\* EPOLLOUT with nothing to send: write() returns at once; start over.
OnWritableIdle(r, f) ==
  /\ Handling(r, f, "out")
  /\ users[f].bytes_to_send = 0
  /\ Watch(r, f)
  /\ Close(FileFd(f))
  /\ users' = [users EXCEPT ![f] = Swept]
  /\ Rearm(r, f, "in")
  /\ UNCHANGED <<clientVars, got, poolVars>>

\* write() sends to whoever is at f now, until left sends remain.
Replied(f) == [got EXCEPT ![fdTable[f]] = @ \cup {users[f].answers}]

Deliver(f, left) ==
  /\ fdTable[f] \in Conns
  /\ users[f].bytes_to_send > left
  /\ got' = Replied(f)

\* The socket is full before the response is out: wait for the next EPOLLOUT.
OnWritablePart(r, f) ==
  /\ Handling(r, f, "out")
  /\ ~Blocks(f)
  /\ Watch(r, f)
  /\ \E left \in 1 .. Chunks :
       /\ Deliver(f, left)
       /\ users' = [users EXCEPT ![f].bytes_to_send = left]
  /\ Close({})
  /\ Rearm(r, f, "out")
  /\ UNCHANGED <<clientVars, poolVars>>

\* The response is out: keep-alive starts over, anything else closes.
OnWritableLast(r, f) ==
  /\ Handling(r, f, "out")
  /\ Watch(r, f)
  /\ Deliver(f, 0)
  /\ ~SourceGone(f)
  /\ \/ /\ Close(FileFd(f))
        /\ users' = [users EXCEPT ![f] = Swept]
        /\ Rearm(r, f, "in")
     \/ /\ Close(FileFd(f) \cup {f})
        /\ users' = [users EXCEPT ![f].bytes_to_send = 0, ![f].m_file_fd = NoFd]
        /\ KeepArmed
  /\ UNCHANGED <<clientVars, poolVars>>

\* send or sendfile fails, perhaps after a first part has gone out: close the
\* file and the connection.
OnWritableError(r, f) ==
  /\ Handling(r, f, "out")
  /\ users[f].bytes_to_send > 0
  /\ ~Talking(f) \/ SourceGone(f)
  /\ Watch(r, f)
  /\ got' = got \/ (fdTable[f] \in Conns /\ got' = Replied(f))
  /\ Close(FileFd(f) \cup {f})
  /\ users' = [users EXCEPT ![f].m_file_fd = NoFd]
  /\ KeepArmed
  /\ UNCHANGED <<clientVars, poolVars>>

OnWritable(r, f) ==
  OnWritableIdle(r, f) \/ OnWritablePart(r, f) \/ OnWritableLast(r, f) \/ OnWritableError(r, f)

HandleDone(r) ==
  /\ rpc[r] = "handle"
  /\ \A f \in ClientFds : events[r][f] = "none"
  /\ rpc' = [rpc EXCEPT ![r] = "wait"]
  /\ UNCHANGED <<clientVars, got, kernelVars, users, expires, events, recvOf, watched,
                 poolVars, mainVars>>

-----------------------------------------------------------------------------
(* The task of the thread pool: users[sockfd].process(), then epoll_ctl    *)
(* MOD for EPOLLOUT if there is something to send and EPOLLIN if not.      *)

\* process() up to do_request: drain the socket and, unless recv reports an
\* error or the end, take the request if it is whole.
TakeTask(w) ==
  /\ job[w] = Idle
  /\ tasks # <<>>
  /\ tasks' = Tail(tasks)
  /\ LET f == Head(tasks)[1]
         at == Head(tasks)[2]
         c == fdTable[f]
         slot == IF c \in Conns THEN Drained(f, c) ELSE users[f]
         whole == Talking(f) /\ slot.whole
     IN
     /\ users' = [users EXCEPT ![f] =
                   IF whole THEN [slot EXCEPT !.from = NoConn, !.whole = FALSE] ELSE slot]
     /\ inbox' = [d \in Conns |-> IF d = c THEN "none" ELSE inbox[d]]
     /\ job' = [job EXCEPT ![w] =
                 [stage |-> IF whole THEN "request" ELSE "rearm", fd |-> f, at |-> at,
                  of |-> IF whole THEN slot.from ELSE NoConn]]
  /\ UNCHANGED <<hup, sends, got, kernelVars, reactorVars, mainVars>>

\* do_request(): a response of its own, or a file under a new descriptor; no
\* response at all if the file cannot be opened.
DoRequest(w) ==
  LET f == job[w].fd IN
  /\ job[w].stage = "request"
  /\ \/ /\ users' = [users EXCEPT ![f].answers = job[w].of, ![f].bytes_to_send = Chunks]
        /\ UNCHANGED fdTable
     \/ /\ ServeFiles
        /\ \E g \in LowestFree :
             /\ fdTable' = [fdTable EXCEPT ![g] = File]
             /\ users' = [users EXCEPT ![f].answers = job[w].of, ![f].bytes_to_send = Chunks,
                                       ![f].m_file_fd = g]
     \/ /\ ServeFiles
        /\ users' = [users EXCEPT ![f].m_file_fd = NoFd]
        /\ UNCHANGED fdTable
  /\ job' = [job EXCEPT ![w].stage = "rearm"]
  /\ UNCHANGED <<clientVars, got, phase, epollOf, mask, reactorVars, tasks, mainVars>>

\* Seeded bug: nothing to send is taken for nothing left to wait for.
FinishTaskUnarmed(w) ==
  LET f == job[w].fd IN
  /\ job[w].stage = "rearm"
  /\ Close({})
  /\ IF users[f].bytes_to_send > 0 THEN Rearm(job[w].at, f, "out") ELSE UNCHANGED mask
  /\ job' = [job EXCEPT ![w] = Idle]
  /\ UNCHANGED <<clientVars, got, users, reactorVars, tasks, mainVars>>

\* Seeded bug: armed for EPOLLIN whether or not there is a response to send.
FinishTaskArmsIn(w) ==
  /\ job[w].stage = "rearm"
  /\ Close({})
  /\ Rearm(job[w].at, job[w].fd, "in")
  /\ job' = [job EXCEPT ![w] = Idle]
  /\ UNCHANGED <<clientVars, got, users, reactorVars, tasks, mainVars>>

FinishTask(w) ==
  LET f == job[w].fd IN
  /\ job[w].stage = "rearm"
  /\ Close({})
  /\ Rearm(job[w].at, f, IF users[f].bytes_to_send > 0 THEN "out" ELSE "in")
  /\ job' = [job EXCEPT ![w] = Idle]
  /\ UNCHANGED <<clientVars, got, users, reactorVars, tasks, mainVars>>

-----------------------------------------------------------------------------
(* The main reactor: the accept loop of main().                            *)

HearBell ==
  /\ mpc \in {"wait", "gave_up"}
  /\ bell
  /\ bell' = FALSE
  /\ mpc' = "accept"
  /\ UNCHANGED <<clientVars, got, kernelVars, users, reactorVars, poolVars,
                 client_fd, round_robin_idx>>

Backlog == {c \in Conns : phase[c] = "backlog"}

\* accept() returns -1 with EAGAIN: nobody is waiting any more.
AcceptNobody ==
  /\ mpc = "accept"
  /\ Backlog = {}
  /\ mpc' = "wait"
  /\ UNCHANGED <<clientVars, got, kernelVars, users, reactorVars, poolVars,
                 client_fd, round_robin_idx, bell>>

\* Or with anything else: no descriptor is left, no memory, the client has
\* gone.  The loop ends just so, with clients waiting.
AcceptFails ==
  /\ mpc = "accept"
  /\ Backlog # {}
  /\ mpc' = "gave_up"
  /\ UNCHANGED <<clientVars, got, kernelVars, users, reactorVars, poolVars,
                 client_fd, round_robin_idx, bell>>

\* client_fd <= 0 ends the loop as -1 does, and descriptor 0 is one of them.
Accept(c) ==
  /\ mpc = "accept"
  /\ c \in Backlog
  /\ phase' = [phase EXCEPT ![c] = "open"]
  /\ \E f \in LowestFree :
       /\ fdTable' = [fdTable EXCEPT ![f] = c]
       /\ IF f <= 0
            THEN mpc' = "gave_up" /\ UNCHANGED client_fd
            ELSE mpc' = "init" /\ client_fd' = f
  /\ UNCHANGED <<clientVars, got, epollOf, mask, users, reactorVars, poolVars,
                 round_robin_idx, bell>>

\* Seeded bug: init(fd) closes the old file and forgets to call init().
InitSlotUnswept ==
  /\ mpc = "init"
  /\ Close(FileFd(client_fd))
  /\ KeepArmed
  /\ users' = [users EXCEPT ![client_fd].m_file_fd = NoFd]
  /\ mpc' = "add"
  /\ UNCHANGED <<clientVars, got, reactorVars, poolVars, client_fd, round_robin_idx, bell>>

\* Seeded bug: init(fd) resets m_file_fd without closing what it stands for.
InitSlotNoClose ==
  /\ mpc = "init"
  /\ Close({})
  /\ KeepArmed
  /\ users' = [users EXCEPT ![client_fd] = Swept]
  /\ mpc' = "add"
  /\ UNCHANGED <<clientVars, got, reactorVars, poolVars, client_fd, round_robin_idx, bell>>

\* users[client_fd].init(client_fd)
InitSlot ==
  /\ mpc = "init"
  /\ Close(FileFd(client_fd))
  /\ KeepArmed
  /\ users' = [users EXCEPT ![client_fd] = Swept]
  /\ mpc' = "add"
  /\ UNCHANGED <<clientVars, got, reactorVars, poolVars, client_fd, round_robin_idx, bell>>

\* Seeded bug: the round robin does not wrap.
NextReactorNoWrap == round_robin_idx + 1

NextReactor == (round_robin_idx + 1) % SUB_REACTOR_NUM

\* Seeded bug: accept is called once for each edge.
AddToEpollOnce ==
  LET c == fdTable[client_fd] IN
  /\ mpc = "add"
  /\ IF c \in Conns
       THEN /\ epollOf' = [epollOf EXCEPT ![c] = round_robin_idx]
            /\ mask' = [mask EXCEPT ![c] = "in"]
       ELSE UNCHANGED <<epollOf, mask>>
  /\ round_robin_idx' = NextReactor
  /\ mpc' = "wait"
  /\ client_fd' = NoFd
  /\ UNCHANGED <<clientVars, got, phase, fdTable, users, reactorVars, poolVars, bell>>

\* set_non_blocking, which ends Blocks, and epoll_ctl(ADD), which fails if the
\* number no longer stands for a socket.
AddToEpoll ==
  LET c == fdTable[client_fd] IN
  /\ mpc = "add"
  /\ IF c \in Conns
       THEN /\ epollOf' = [epollOf EXCEPT ![c] = round_robin_idx]
            /\ mask' = [mask EXCEPT ![c] = "in"]
       ELSE UNCHANGED <<epollOf, mask>>
  /\ round_robin_idx' = NextReactor
  /\ mpc' = "accept"
  /\ client_fd' = NoFd
  /\ UNCHANGED <<clientVars, got, phase, fdTable, users, reactorVars, poolVars, bell>>

-----------------------------------------------------------------------------
ClientStep ==
  \E c \in Conns : Connect(c) \/ Send(c, "part") \/ Send(c, "whole") \/ HangUp(c)

SubReactorStep(r) ==
  \/ TickFire(r) \/ TickDone(r) \/ EpollWait(r) \/ HandleDone(r)
  \/ \E f \in ClientFds : OnHangUp(r, f) \/ OnReadable(r, f) \/ OnWritable(r, f)
  \/ \E f \in ClientFds : OnReadableBlocks(r, f) \/ RecvReturns(r, f) \/ RecvAgain(r, f)

WorkerStep(w) == TakeTask(w) \/ DoRequest(w) \/ FinishTask(w)

MainStep ==
  \/ HearBell \/ AcceptNobody \/ AcceptFails \/ (\E c \in Conns : Accept(c))
  \/ InitSlot \/ AddToEpoll

\* Everything but the passing of time: what happens within one tick.
NextWithinTick ==
  \/ ClientStep
  \/ \E r \in Reactors : SubReactorStep(r)
  \/ \E w \in Workers : WorkerStep(w)
  \/ MainStep

Next == NextWithinTick \/ Advance

SafeSpec == Init /\ [][Next]_vars
BurstSpec == Init /\ [][NextWithinTick]_vars

\* Every thread of the server is scheduled and time passes; a client does
\* what it likes, except that it reads on while a response is sent to it.
Fairness ==
  /\ \A r \in Reactors : WF_vars(SubReactorStep(r))
  /\ \A w \in Workers : WF_vars(WorkerStep(w))
  /\ WF_vars(MainStep)
  /\ WF_vars(Advance)

Spec == SafeSpec /\ Fairness

-----------------------------------------------------------------------------
Slot == [from : Conns \cup {NoConn}, whole : BOOLEAN, answers : Conns \cup {NoConn},
         bytes_to_send : 0 .. Chunks, m_file_fd : Fds \cup {NoFd}]
Task == ClientFds \X Reactors
Job == [stage : {"request", "rearm"}, fd : ClientFds, at : Reactors, of : Conns \cup {NoConn}]

TypeOK ==
  /\ phase \in [Conns -> {"new", "backlog", "open", "closed"}]
  /\ inbox \in [Conns -> {"none", "part", "whole"}]
  /\ hup \in [Conns -> BOOLEAN]
  /\ sends \in [Conns -> 0 .. MaxSends]
  /\ got \in [Conns -> SUBSET (Conns \cup {NoConn})]
  /\ fdTable \in [Fds -> Conns \cup {Free, Stdin, File}]
  /\ epollOf \in [Conns -> Reactors \cup {NoReactor}]
  /\ mask \in [Conns -> {"off", "in", "out"}]
  /\ bell \in BOOLEAN
  /\ users \in [ClientFds -> Slot]
  /\ expires \in [Reactors -> [ClientFds -> 0 .. TIMEOUT_MS \cup {NoDeadline}]]
  /\ rpc \in [Reactors -> {"wait", "tick", "handle", "recv"}]
  /\ events \in [Reactors -> [ClientFds -> {"none", "hup", "in", "out", "recv"}]]
  /\ recvOf \in [Reactors -> Conns \cup {NoConn}]
  /\ watched \in SUBSET Conns
  /\ tasks \in Seq(Task)
  /\ job \in [Workers -> Job \cup {Idle}]
  /\ mpc \in {"wait", "gave_up", "accept", "init", "add"}
  /\ client_fd \in ClientFds \cup {NoFd}
  /\ round_robin_idx \in Reactors

-----------------------------------------------------------------------------
\* Reactor r, or a worker on its behalf, holds descriptor f.
InHand(r, f) ==
  \/ events[r][f] # "none"
  \/ \E i \in DOMAIN tasks : tasks[i] = <<f, r>>
  \/ \E w \in Workers : job[w].fd = f /\ job[w].at = r

(* EPOLLONESHOT disarms a connection with each event, and nobody but the   *)
(* thread that handles it arms it again (main.cpp 78-143).  None of the    *)
(* paths through a sub-reactor and the pool, with the timer and other      *)
(* connections closing and reusing the number meanwhile, forgets to: a     *)
(* disarmed connection is in somebody's hand.                              *)
NoStranded ==
  \A c \in Conns, f \in ClientFds :
    /\ fdTable[f] = c
    /\ epollOf[c] # NoReactor
    /\ mask[c] = "off"
    => InHand(epollOf[c], f)

(* A connection whose timer was ever set has it set until it is closed:    *)
(* no handler, and no other connection under the same number, takes the    *)
(* deadline away (main.cpp 92, 123; lru_timer.cpp 27-58).                  *)
WatchedHasTimer ==
  \A c \in watched, f \in ClientFds :
    fdTable[f] = c /\ epollOf[c] # NoReactor => expires[epollOf[c]][f] # NoDeadline

\* Who may touch users[f] or report an event for it next.
Hands(f) ==
  ({"main"} \X {m \in {mpc} : m \in {"init", "add"} /\ client_fd = f})
    \cup ({"armed"} \X {c \in Conns : fdTable[f] = c /\ mask[c] # "off"})
    \cup ({"event"} \X {r \in Reactors : events[r][f] # "none"})
    \cup ({"task"} \X {i \in DOMAIN tasks : tasks[i][1] = f})
    \cup ({"job"} \X {w \in Workers : job[w].fd = f})

(* "必须加 EPOLLONESHOT 防踩踏！" (main.cpp 52): users[f] has no lock, so at   *)
(* most one thread may hold f or be about to be told of it.  As long as no *)
(* timer fires this is so, through every reuse of the number.              *)
ExclusiveSlot == \A f \in ClientFds : Cardinality(Hands(f)) <= 1

(* The same when timers fire, as far as it goes (main.cpp 52, 78-143, 246): *)
(* each hand that holds a slot passes it to one other at most, so that a    *)
(* slot comes into one hand more only when accept gives its number out,     *)
(* which a timer may have closed under somebody's hand.                     *)
HandsArePassedOn ==
  [][\A f \in ClientFds :
       Cardinality(Hands(f))' > Cardinality(Hands(f))
       => \E c \in Conns : Accept(c) /\ client_fd' = f]_vars

(* A client gets replies to its own requests only, although the slot and   *)
(* the number they go through were somebody else's before (main.cpp 246,   *)
(* http_conn.cpp 11-55, 133-143).                                          *)
OwnRepliesOnly == \A c \in Conns : got[c] \subseteq {c}

(* A file that do_request opens is closed by write(), by an error or, if   *)
(* the client hangs up first, by the init of the number's next client      *)
(* (http_conn.cpp 17-21, 47-51, 358, 397-409; main.cpp 82-86, 246): no     *)
(* open file is without a slot that will close it, and no slot has a       *)
(* number that another slot has too or that is a file no more (0 apart,    *)
(* which the first init of any slot closes).                               *)
FilesHaveOneOwner ==
  LET owners(g) == {f \in ClientFds : users[f].m_file_fd = g} IN
  /\ \A g \in Fds : fdTable[g] = File => owners(g) # {}
  /\ \A g \in ClientFds :
       owners(g) # {} => fdTable[g] = File /\ \E f \in ClientFds : owners(g) = {f}

\* do_request has returned without a response to c: its file is there, but
\* open fails.
NotOpened(c) == \E w \in Workers :
  job[w].stage = "rearm" /\ job[w].of = c /\ users[job[w].fd].bytes_to_send = 0

(* Each request that a client sends whole, on a connection that a          *)
(* sub-reactor watches, is answered or its connection closed, unless it is *)
(* for a file that cannot be opened: then the code says nothing and waits  *)
(* for another one (main.cpp 98-138; http_conn.cpp 98-143, 360-361).       *)
RequestAnswered ==
  \A c \in Conns :
    inbox[c] = "whole" /\ epollOf[c] # NoReactor
    ~> c \in got[c] \/ phase[c] = "closed" \/ NotOpened(c)

\* Nothing ends the recv that r is in unless its client goes on.
Stuck(r) == LET c == recvOf[r] IN c # NoConn /\ inbox[c] = "none" /\ ~hup[c]

(* "15秒无操作直接踢出" (main.cpp 22) as far as the code keeps it: clients    *)
(* that were heard of once and fall silent lose their connections, unless  *)
(* their sub-reactor is stuck in a recv of somebody else's silence.        *)
WatchedAreKicked ==
  (\E c \in watched : phase[c] = "open")
  ~> \A c \in watched : phase[c] = "closed" \/ \E r \in Reactors : epollOf[c] = r /\ Stuck(r)

(* "采用死循环榨干全连接队列" (README.md 12): whoever is in the queue of the     *)
(* listening socket is accepted, though its edge is reported once for many *)
(* and consumed before they are, unless an accept fails or returns 0,      *)
(* which ends the loop with clients waiting (main.cpp 220-258).            *)
BacklogIsDrained == Backlog # {} ~> Backlog = {} \/ mpc = "gave_up"

-----------------------------------------------------------------------------
(* What the documentation says and the code does not keep.                 *)

(* "彻底解决跨线程的 FD 数据竞态 (Double-Close)" (README.md 13): an expired     *)
(* timer closes no connection but one it was set for.                      *)
TimerHitsItsOwn ==
  [][\A r \in Reactors, c \in Conns :
       /\ phase[c] = "open"
       /\ TickFire(r)
       /\ phase'[c] = "closed"
       => epollOf[c] = r /\ c \in watched]_vars
=============================================================================
