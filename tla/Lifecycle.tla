----------------------------- MODULE Lifecycle -----------------------------
(***************************************************************************)
(* The server's start and its graceful shutdown (main.cpp 34-40, 68-76,    *)
(* 149-281, log.cpp 5-18): the flag that a signal clears, the loops that   *)
(* test it between waits that may have no end, the order in which what the *)
(* threads share is taken down, and the end of the log's writer thread,    *)
(* for which the destructor of the static Log waits after main.            *)
(* global_pool is the queue of tasks that ThreadPool has been shown to     *)
(* implement; of the connections a sub-reactor only needs to know whether  *)
(* it has any, and whether one has a timer.                                *)
(***************************************************************************)
EXTENDS Naturals, Sequences

CONSTANTS
  Reactors,           \* the sub-reactors' threads
  Tasks,              \* closures given to global_pool
  Handlers,           \* the threads that the kernel may give a signal to
  MaxSignals          \* bound: SIGINTs and SIGTERMs

ASSUME LifecycleAssumption == MaxSignals \in Nat /\ "main" \notin Reactors

VARIABLES
  server_is_running,
  signals,            \* how many have come
  mpc,                \* where main() is, see NextStep
  rpc,                \* where each sub-reactor is
  clients,            \* whether it watches a connection
  hasTimer,           \* whether a deadline is set in its local_timer
  users,              \* the slots: "none", "new" or "deleted"
  mysqlOpen,          \* SqlConnPool holds its connections
  pending, running, finished, destroyed,     \* global_pool
  writer              \* the log's writer thread, as ~Log finds it

vars == <<server_is_running, signals, mpc, rpc, clients, hasTimer, users, mysqlOpen,
          pending, running, finished, destroyed, writer>>
flagVars == <<server_is_running, signals>>
loopVars == <<rpc, clients, hasTimer>>
poolVars == <<pending, running, finished, destroyed>>

Pool == INSTANCE TaskQueue

Init ==
  /\ server_is_running = TRUE /\ signals = 0
  /\ mpc = "init"
  /\ rpc = [r \in Reactors |-> "unborn"]
  /\ clients = [r \in Reactors |-> FALSE]
  /\ hasTimer = [r \in Reactors |-> FALSE]
  /\ users = "none" /\ mysqlOpen = FALSE
  /\ Pool!Init
  /\ writer = "working"

-----------------------------------------------------------------------------
\* A signal is handled by main or by some other thread; epoll_wait returns
\* EINTR in the one, and nowhere else.
Signal(thread) ==
  /\ signals < MaxSignals /\ mpc # "crashed"
  /\ signals' = signals + 1
  /\ server_is_running' = FALSE
  /\ mpc' = IF thread = "main" /\ mpc = "wait" THEN "test" ELSE mpc
  /\ rpc' = [r \in Reactors |-> IF thread = r /\ rpc[r] = "wait" THEN "test" ELSE rpc[r]]
  /\ UNCHANGED <<clients, hasTimer, users, mysqlOpen, poolVars, writer>>

-----------------------------------------------------------------------------
(* A sub-reactor.                                                          *)

\* tick(): what is due is closed, if it is not closed already.
Tick(r) ==
  \/ UNCHANGED <<clients, hasTimer>>
  \/ /\ hasTimer[r]
     /\ \E b, c \in BOOLEAN :
          /\ c => clients[r]
          /\ hasTimer' = [hasTimer EXCEPT ![r] = b]
          /\ clients' = [clients EXCEPT ![r] = c]

TestFlag(r) ==
  /\ rpc[r] = "test"
  /\ IF server_is_running
     THEN rpc' = [rpc EXCEPT ![r] = "wait"] /\ Tick(r)
     ELSE rpc' = [rpc EXCEPT ![r] = "returned"] /\ UNCHANGED <<clients, hasTimer>>
  /\ UNCHANGED <<flagVars, mpc, users, mysqlOpen, poolVars, writer>>

\* Seeded bug: getNextTick always answers -1.
NoTimeout(r) == FALSE

\* epoll_wait is given the time to the first deadline, or -1.
Timeout(r) == hasTimer[r]

TimeIsUp(r) ==
  /\ rpc[r] = "wait" /\ Timeout(r)
  /\ rpc' = [rpc EXCEPT ![r] = "test"]
  /\ Tick(r)
  /\ UNCHANGED <<flagVars, mpc, users, mysqlOpen, poolVars, writer>>

Event(r) ==
  /\ rpc[r] = "wait" /\ clients[r]
  /\ rpc' = [rpc EXCEPT ![r] = "handle"]
  /\ Tick(r)
  /\ UNCHANGED <<flagVars, mpc, users, mysqlOpen, poolVars, writer>>

\* A request was read: its timer is set and a task added.
HandIn(r, t) ==
  /\ rpc[r] \in {"handle", "read"}
  /\ Pool!Submit(t)
  /\ rpc' = [rpc EXCEPT ![r] = "test"]
  /\ hasTimer' = [hasTimer EXCEPT ![r] = TRUE]
  /\ UNCHANGED <<flagVars, mpc, clients, users, mysqlOpen, writer>>

\* Anything else: a timer may be set, and a connection may be closed, which
\* leaves its timer.
HandleRest(r) ==
  /\ rpc[r] \in {"handle", "read"}
  /\ rpc' = [rpc EXCEPT ![r] = "test"]
  /\ \E b, c \in BOOLEAN :
       /\ hasTimer[r] => b
       /\ c => clients[r]
       /\ hasTimer' = [hasTimer EXCEPT ![r] = b]
       /\ clients' = [clients EXCEPT ![r] = c]
  /\ UNCHANGED <<flagVars, mpc, users, mysqlOpen, poolVars, writer>>

\* recv on a number that main has given out and not yet made non-blocking
\* (Reactor's OnReadableBlocks), until its client sends or hangs up; the
\* signals are set with SA_RESTART and do not end it.
RecvBlocks(r) ==
  /\ rpc[r] = "handle" /\ clients[r]
  /\ rpc' = [rpc EXCEPT ![r] = "recv"]
  /\ UNCHANGED <<flagVars, mpc, clients, hasTimer, users, mysqlOpen, poolVars, writer>>

RecvReturns(r) ==
  /\ rpc[r] = "recv"
  /\ rpc' = [rpc EXCEPT ![r] = "read"]
  /\ UNCHANGED <<flagVars, mpc, clients, hasTimer, users, mysqlOpen, poolVars, writer>>

-----------------------------------------------------------------------------
(* main(), and ~Log.                                                       *)

\* SqlConnPool::init, new ThreadPool and new http_conn[MAX_FD].
SetUp ==
  /\ mpc = "init"
  /\ mysqlOpen' = TRUE /\ users' = "new"
  /\ mpc' = "threads"
  /\ UNCHANGED <<flagVars, loopVars, poolVars, writer>>

StartReactor(r) ==
  /\ mpc = "threads" /\ rpc[r] = "unborn"
  /\ rpc' = [rpc EXCEPT ![r] = "test"]
  /\ UNCHANGED <<flagVars, mpc, clients, hasTimer, users, mysqlOpen, poolVars, writer>>

\* Seeded bugs: one thread will do.
OneStarted == \E r \in Reactors : rpc[r] # "unborn"
OneReturned == \E r \in Reactors : rpc[r] = "returned"

AllStarted == \A r \in Reactors : rpc[r] # "unborn"
AllReturned == \A r \in Reactors : rpc[r] = "returned"

\* Seeded bug: the connections to MySQL go before the tasks that use them.
SqlFirst(step) ==
  CASE step = "threads" -> "test"
    [] step = "join"    -> "users"
    [] step = "users"   -> "mysql"
    [] step = "mysql"   -> "pool"
    [] step = "pool"    -> "log"
    [] step = "log"     -> "drain"
    [] step = "drain"   -> "leave"
    [] step = "leave"   -> "exited"

\* The order of main(), around its loop, and of ~Log.
NextStep(step) ==
  CASE step = "threads" -> "test"
    [] step = "join"    -> "users"
    [] step = "users"   -> "pool"
    [] step = "pool"    -> "mysql"
    [] step = "mysql"   -> "log"
    [] step = "log"     -> "drain"
    [] step = "drain"   -> "leave"
    [] step = "leave"   -> "exited"

Goes(step) == mpc = step /\ mpc' = NextStep(step) /\ UNCHANGED <<flagVars, loopVars>>

Started ==
  Goes("threads") /\ AllStarted /\ UNCHANGED <<users, mysqlOpen, poolVars, writer>>

MainTest ==
  /\ mpc = "test"
  /\ mpc' = IF server_is_running THEN "wait" ELSE "join"
  /\ UNCHANGED <<flagVars, loopVars, users, mysqlOpen, poolVars, writer>>

\* epoll_wait(-1) returns: somebody has connected and goes to a sub-reactor.
Accept(r) ==
  /\ mpc = "wait"
  /\ mpc' = "test"
  /\ clients' = [clients EXCEPT ![r] = TRUE]
  /\ UNCHANGED <<flagVars, rpc, hasTimer, users, mysqlOpen, poolVars, writer>>

Join == Goes("join") /\ AllReturned /\ UNCHANGED <<users, mysqlOpen, poolVars, writer>>

DeleteUsers ==
  Goes("users") /\ users' = "deleted" /\ UNCHANGED <<mysqlOpen, poolVars, writer>>

DeletePool == Goes("pool") /\ Pool!Destroy /\ UNCHANGED <<users, mysqlOpen, writer>>

ClosePool == Goes("mysql") /\ mysqlOpen' = FALSE /\ UNCHANGED <<users, poolVars, writer>>

\* The last lines are logged, if log_level lets them, and main returns: the
\* writer has lines to write, is writing the last one or waits for more.
Farewell ==
  /\ Goes("log")
  /\ writer' \in {"behind", "writing", "asleep"}
  /\ UNCHANGED <<users, mysqlOpen, poolVars>>

\* ~Log waits for the queue to be empty, closes it and wakes whoever sleeps.
CloseLog ==
  /\ Goes("drain")
  /\ writer # "behind"
  /\ writer' = IF writer = "asleep" THEN "returned" ELSE writer
  /\ UNCHANGED <<users, mysqlOpen, poolVars>>

JoinWriter ==
  Goes("leave") /\ writer = "returned" /\ UNCHANGED <<users, mysqlOpen, poolVars, writer>>

\* AsyncWrite_: pop tests the queue and not whether it is closed before it
\* sleeps, so that a writer that was busy goes to sleep on a closed queue.
WriterStep ==
  /\ \/ writer = "behind" /\ writer' = "writing"
     \/ writer = "writing" /\ writer' = "asleep"
  /\ UNCHANGED <<flagVars, mpc, loopVars, users, mysqlOpen, poolVars>>

\* A wake-up that nobody asked for ends that sleep too.
WriterWakes ==
  /\ mpc = "leave" /\ writer = "asleep"
  /\ writer' = "returned"
  /\ UNCHANGED <<flagVars, mpc, loopVars, users, mysqlOpen, poolVars>>

\* A task runs users[sockfd].process() on a slot that delete[] has freed:
\* anything may happen, and the likeliest is that the process dies.
Crash ==
  /\ mpc # "crashed" /\ users = "deleted" /\ running # {}
  /\ mpc' = "crashed"
  /\ UNCHANGED <<flagVars, loopVars, users, mysqlOpen, poolVars, writer>>

-----------------------------------------------------------------------------
MainStep ==
  \/ SetUp \/ (\E r \in Reactors : StartReactor(r)) \/ Started \/ MainTest
  \/ Join \/ DeleteUsers \/ DeletePool \/ ClosePool \/ Farewell \/ CloseLog \/ JoinWriter

ReactorStep(r) == TestFlag(r) \/ TimeIsUp(r) \/ HandleRest(r) \/ \E t \in Tasks : HandIn(r, t)

\* The workers, which may find their slots gone and go on all the same.
PoolStep ==
  /\ mpc # "crashed"
  /\ Pool!Start \/ \E t \in Tasks : Pool!Finish(t)
  /\ UNCHANGED <<flagVars, mpc, loopVars, users, mysqlOpen, writer>>

Environment ==
  \/ \E thread \in Handlers : Signal(thread)
  \/ \E r \in Reactors : Event(r) \/ Accept(r) \/ RecvBlocks(r) \/ RecvReturns(r)
  \/ WriterWakes \/ Crash

Next ==
  MainStep \/ (\E r \in Reactors : ReactorStep(r)) \/ PoolStep \/ WriterStep \/ Environment

\* Threads are scheduled; nobody has to connect, to send or to signal.
Spec ==
  /\ Init /\ [][Next]_vars
  /\ WF_vars(MainStep) /\ WF_vars(PoolStep) /\ WF_vars(WriterStep)
  /\ \A r \in Reactors : WF_vars(ReactorStep(r))

-----------------------------------------------------------------------------
TypeOK ==
  /\ server_is_running \in BOOLEAN /\ signals \in 0 .. MaxSignals
  /\ mpc \in {"init", "threads", "test", "wait", "join", "users", "pool", "mysql",
              "log", "drain", "leave", "exited", "crashed"}
  /\ rpc \in [Reactors -> {"unborn", "test", "wait", "handle", "recv", "read", "returned"}]
  /\ mpc \notin {"init", "threads"} => \A r \in Reactors : rpc[r] # "unborn"
  /\ clients \in [Reactors -> BOOLEAN] /\ hasTimer \in [Reactors -> BOOLEAN]
  /\ users \in {"none", "new", "deleted"} /\ mysqlOpen \in BOOLEAN
  /\ pending \in Seq(Tasks) /\ running \subseteq Tasks /\ finished \subseteq Tasks
  /\ destroyed \in BOOLEAN
  /\ writer \in {"working", "behind", "writing", "asleep", "returned"}

(* No sub-reactor touches a slot that is deleted, or adds a task to a pool *)
(* that refuses it: all of them are out of their loops before (main.cpp    *)
(* 266-271).  Tasks are another matter, see Crash.                         *)
ReactorsGoFirst ==
  users = "deleted" \/ destroyed => \A r \in Reactors : rpc[r] = "returned"

(* Whatever was added before has run to its end, or to a crash, with the   *)
(* connections to MySQL still there to be borrowed and given back          *)
(* (main.cpp 271, 272).                                                    *)
TasksHaveMySQL ==
  pending # <<>> \/ running # {} => mysqlOpen

\* A thread that the shutdown waits for sleeps, and no timeout ends its sleep:
\* in epoll_wait, in a recv that blocks or, the log's writer, in pop.
Asleep ==
  \/ mpc = "wait"
  \/ \E r \in Reactors : (rpc[r] = "wait" /\ ~hasTimer[r]) \/ rpc[r] = "recv"
  \/ mpc = "leave" /\ writer = "asleep"

(* After a signal the process ends, ~Log included, whatever clients,       *)
(* timers and tasks do meanwhile, unless a thread that it waits for is     *)
(* asleep for good; how it ends is another matter, see Crash (main.cpp     *)
(* 212-281, log.cpp 5-18).                                                 *)
StopsUnlessAsleep ==
  <>~server_is_running => <>(mpc \in {"exited", "crashed"}) \/ <>[]Asleep

-----------------------------------------------------------------------------
(* "优雅停机 (Graceful Shutdown)：拦截 SIGINT/SIGTERM 信号，确保缓存落盘与文件句 *)
(* 柄安全释放" (README.md 17): after a signal main gets as far as to release    *)
(* what it has and to say so (main.cpp 274), or else dies in the attempt.  *)
ShutdownCompletes ==
  <>~server_is_running => <>(mpc \in {"log", "exited", "crashed"})
=============================================================================
