# tiny_server, formally

TLA+ models of `tiny_server`, a multi-reactor HTTP server in C++ (`src/src/`,
about 1800 lines), the TLC configurations that check them on small instances,
and proofs that hold for instances of any size. `main.cpp:81` and the like name
lines of `src/src/main.cpp`; other files are named in the same way.

## 1. The system

| Part | Source | State it keeps | Operations |
|---|---|---|---|
| Thread pool | `threadpool/` | queue of closures, mutex, condition variable, `stop` | `addTask`, the worker loop, the destructor |
| Main reactor | `main.cpp:189-261` | listening socket (edge-triggered), `round_robin_idx` | accept until empty, `users[fd].init(fd)`, `epoll_ctl ADD` in the next sub-reactor |
| Sub-reactors (4 threads) | `main.cpp:60-148` | an epoll instance, a `ListTimer` each | `getNextTick`, `epoll_wait`, `tick`, one handler per event (hang-up, readable, writable) |
| Connection slots | `http/` | `users[65536]`, indexed by descriptor: read buffer, parser state, response, open file | `init(fd)`, `init()`, `read`, `process` (recv, parse, `do_request`), `write` |
| `ListTimer` | `timer/` | list of (fd, expiry, callback), index by fd | `add`, `tick`, `getNextTick` |
| Log | `log/` | bounded queue with two condition variables, writer thread, file | `init`, `write`, `AsyncWrite_`, destructor |
| MySQL pool | `mysql/` | queue of connections, mutex, condition variable | `init`, `GetConnection`, `FreeConnection`, `ClosePool`, the RAII guard |
| Login | `http_conn.cpp:453-536` | one Redis connection per thread, cached passwords with a time to live | `verify_login` |
| JWT | `utils/jwt_util.cpp` | none | Base64URL, sign, verify |
| Config | `utils/config.cpp` | a map, written once | `load`, getters |
| Start-up and shutdown | `main.cpp:150-218, 263-281` | `server_is_running` | signal handler, joins, destructors |

How they interact. The kernel wakes the main reactor when a client connects;
it accepts, clears the slot and registers the descriptor with a sub-reactor,
one after the other. From then on the descriptor's *number* is all that
connects the parts: it indexes the slot, names the timer entry, is captured by
the timer's callback and by the closure given to the pool, and is the argument
of every `epoll_ctl` and `close`. Slots have no lock. What keeps two threads
out of one is `EPOLLONESHOT`: an event disarms the connection, and the handler,
or the worker it hands the slot to, arms it again. Threads of all kinds log;
workers take database connections and call Redis.

### What is hard, and what correctness means

* **Numbers are reused.** The kernel gives the lowest free descriptor away
  again; timers, events and closures that still name it belong to somebody who
  has gone. Correct: no slot in two hands (`ExclusiveSlot`), and where a timer
  leaves it in several, none but `accept` adds one (`HandsArePassedOn`); no reply
  to somebody else's request (`OwnRepliesOnly`), no deadline that hits another
  connection (`TimerHitsItsOwn`).
* **One-shot arming.** Every path must arm again or close. Correct: no
  disarmed connection is forgotten (`NoStranded`), and a request is answered
  (`RequestAnswered`).
* **Deadlines.** Correct: who was heard of keeps a deadline
  (`WatchedHasTimer`) and is dropped when silent (`WatchedAreKicked`); list and
  index agree (`IndexAgrees`), and together they are one deadline per descriptor
  (`ImplementsDeadlines`), late by no more than a clock that was set back
  (`LateByStepsAlone`).
* **Edge-triggered accept.** The loop must not stop with somebody waiting
  (`BacklogIsDrained`).
* **One buffer, many requests.** Nothing of one request may be taken for part
  of the next (`AnsweredAsAsked`), and no limit may stand between a request and
  its reply (`RequestServed`), however TCP cuts it (`PiecesDoNotMatter`): whoever
  asks and waits is answered, or refused, once per request
  (`ImplementsExchange`).
* **Open files.** A slot's file is opened by one request and closed by whoever
  comes next: the reply's last send, a hang-up, the next `init`. Correct: none is
  forgotten and none has two owners (`FilesHaveOneOwner`).
* **Condition variables.** Wake-ups sent outside the mutex, or one at a time,
  or before the sleeper sleeps, in the pool, in the log and in the pool of MySQL
  connections (three `NoLostWakeup`, `NobodySleepsThroughJoin`,
  `DestructorReturns`, `SleeperIsReleased`, `LoginsEnd`).
* **Order and completeness** of tasks and of lines: pool and log are the same
  abstract queue (`ImplementsTaskQueue`, twice), which starts each task once and
  in its turn and is destroyed when it has nothing left, and the file holds the
  lines in that order (`WrittenInOrder`, `EveryLineWritten`).
* **Few connections, many workers.** Correct: none is shared or lost
  (`OneHolder`), even where a login ends half-way.
* **A cache in front of a table.** Correct: an old password fades
  (`OldOnesFade`) and does not come back (`OldOnesStayAway`).
* **Tokens.** Correct: a token names the user it was made for
  (`TokenNamesItsUser`).
* **Taking it all down.** Correct: threads go before what they use
  (`ReactorsGoFirst`, `TasksHaveMySQL`), and the process ends
  (`StopsUnlessAsleep`, `ShutdownCompletes`).

`PROJECT.json` lists each hazard at its line, with the ones that no property
covers and why.

## 2. The modules

| Module | What it is |
|---|---|
| `TaskQueue` | what a thread pool promises: tasks start in order, run once, and the pool goes when nothing is left |
| `ThreadPool` | the pool as it is written; implements `TaskQueue` |
| `ThreadPoolProofs` | its theorems |
| `Reactor` | a connection's life: main reactor, sub-reactors, timers, slots, workers and the kernel's descriptors |
| `ReactorProofs`, `ReactorSlotProofs` | theorems about it |
| `Deadlines` | what a timer promises: one deadline per descriptor, fired when due, never forgotten |
| `ListTimer` | the timer as it is written, in the loop of a sub-reactor; implements `Deadlines` |
| `Exchange` | what a connection promises: who waits for replies is answered or refused once per request, with what was asked last |
| `HttpConn` | the buffer and the parser of one connection; implements `Exchange` |
| `AsyncLog` | producers, writer thread, bounded queue and destructor of the log; implements `TaskQueue` |
| `JwtUtil` | Base64Url and tokens, as operators |
| `Login` | `verify_login` over Redis and the pool of MySQL connections; gives out `JwtUtil`'s tokens |
| `Lifecycle` | start, signals and shutdown, over `TaskQueue` |
| `ListTimerProofs`, `HttpConnProofs`, `AsyncLogProofs`, `LoginProofs`, `LifecycleProofs` | theorems about the modules they are named for |
| `MC...` | instances for TLC: symmetry, what clients ask, and for the reactor an initial state further on |

How they fit together. `Reactor` is the composition: it has slots, timers and
the pool in it, each as what a detailed module shows it to be. The pool is a
queue (`ThreadPool` implements `TaskQueue`), a timer is one deadline per
descriptor (`ListTimer` implements `Deadlines`), and a request is something that
becomes whole and is answered (`HttpConn` implements `Exchange`). `Lifecycle` uses
`TaskQueue` itself for the pool.

Operators with a comment "Seeded bug" are not part of any specification. Each
is a wrong version of the definition below it, and shows that the property
named for it in `PROJECT.json` would notice.

### ThreadPool

One critical section of `queue_mutex` is one action. A condition variable is
the set of threads asleep on it. `addTask` is `PushTask`, then `NotifyOne`,
because `notify_one` comes after the mutex is released (`threadpool.cpp:50-51`);
with `stop` raised it is `RefuseTask`, the exception. A worker is "ready" when
it is about to evaluate the wait's predicate: `TakeTask`, `Sleep` or `Return`;
the closure runs outside the mutex until `FinishTask`. The destructor is
`RaiseStop`, `NotifyAll`, `JoinAll`. `SpuriousWake` is what the standard allows.
`submitted`, `started` and `finished` are history variables.

### Reactor

| Code | Actions |
|---|---|
| accept loop, `main.cpp:220-261` | `HearBell`, `Accept`, `AcceptNobody` (`EAGAIN`), `AcceptFails` (any other error), `InitSlot`, `AddToEpoll` (`set_non_blocking`, `epoll_ctl ADD`, the next index) |
| `getNextTick`, `epoll_wait`, `tick`, `main.cpp:68-76` | `TickFire` (each callback), `EpollWait`, `TickDone` |
| the events, `main.cpp:78-146` | `OnHangUp`, `OnReadable`, `OnWritable` (four outcomes of `write()`), `HandleDone` |
| a `read()` that has to wait, `http_conn.cpp:419-451` | `OnReadableBlocks`, `RecvReturns`, `RecvAgain` |
| the closure, `main.cpp:99-113` | `TakeTask` (recv and parse), `DoRequest` (a reply, a file, or no response because `open` fails), `FinishTask` (`epoll_ctl MOD`) |
| clients and time | `Connect`, `Send`, `HangUp`, `Advance` |

The state is the kernel's (`fdTable`: what each number stands for; `epollOf` and
`mask`: registrations), the slots (`users`), the timers (`expires`), what each
`epoll_wait` returned and was not yet handled (`events`), the connection that a
`recv` of its waits for (`recvOf`), the pool's queue and workers (`tasks`, `job`),
and where the main reactor is. `got` is history: whose requests the replies were
for that a client has had since it last sent a whole one.

*Sockets that block.* `accept` returns a socket that blocks, and `main.cpp:249`
makes it non-blocking after `init`, a step later (`Blocks`). A sub-reactor may
still hold an `EPOLLIN` event for that number, from a connection that a timer has
closed since. `read()` then takes what is there and waits in `recv` for more,
and with it the whole thread (`OnReadableBlocks`, "recv"), until the client of
that one connection sends or hangs up (`RecvReturns`); `set_non_blocking` does
not end a `recv` that has begun. The thread reads on from whatever the number
stands for by then (`RecvAgain`). A worker's `recv` has `MSG_DONTWAIT`
(`http_conn.cpp:98`) and never waits.

Abstractions, and why they are safe:

* *Bytes* are whose they are and whether they complete a request; a response is
  the number of `send` calls it may take. The properties tell apart nothing
  else. Clients send a request in pieces and wait for the reply before the
  next: two requests in one buffer are in `HttpConn`.
* *The pool* is its queue; `ThreadPool` and its refinement justify that.
* *The timer* is one deadline per descriptor in ticks; `add` resets it.
  `wait` stands for `getNextTick` (which runs `tick`) up to the return of
  `epoll_wait`, so that an expired entry makes `epoll_wait` return.
* `epoll_ctl DEL` and `close` of the same number are one step: no other thread
  acts on that number in between in a way that `close` would not undo.
* While a `recv` waits, the socket outlives a `close` of its number by another
  thread (`Connected`); its registration with an epoll is taken to end with the
  number, as it does otherwise. A `write()` to a socket that still blocks does not
  return early (`OnWritablePart`) and is one step, as any `write()`: its client
  is taken to read on.
* *accept* may take any waiting client; the real queue is first come, first
  served, so this allows more. `MAX_EVENTS` (1024), `EINTR` and signals are
  left out. An `EPOLLOUT` event that sends nothing at all leaves the state as
  it is and is not an action.
* `http_conn()` leaves `m_file_fd` unset. `new http_conn[65536]` gets zero pages
  from the system, so it is 0 in every slot that was never used (`Unborn`),
  and `init(fd)` then closes descriptor 0. This is how the build behaves; `Init`
  has it so.

`SafeSpec` is the server; `BurstSpec` is the server without `Advance`, that is,
as long as no timer becomes due.

*The aged server.* Each slot's first use closes descriptor 0. From `Init`, small
instances spend their few clients on that. `AgedInit` (in `MCReactor`) is a
state of the program later on: every slot was used and swept, and one client,
`Lost`, was accepted under descriptor 0, which `main.cpp:235` takes for an empty
queue; nobody will ever look at it. `YoungInit` (the run `burst`) is a state in
between: any of the slots may still be unused, whose first use closes `Lost`
and hands descriptor 0 to the next client, whose accept then ends the loop.
`ServingInit` (the run `server`) is the aged server with one client, `Served`, in
service under the last number; those who had the other numbers have left
deadlines that are due. `Served` may fall silent, but does not hang up
(`ServingSpec`), so that a recv stuck in somebody else's silence has a victim.
`TalkSpec` (the run `answered`) is the aged server without `Advance`, in which one
client, whichever, sends up to `MaxSends` pieces and the others one each
(`OneTalks`).

### ListTimer

`nodes` is the list, `ref` the descriptors with an iterator in the index (`PlaceOf` is where
it points to; `add` cuts that entry out and appends it). An
entry's `expires` is kept as what is left of it, because the code reads it only
as `expires - now()`. Every turn of `tick`'s loop (`Fire`), its end (`TickDone`)
and the rest of `getNextTick` (`GetNextTick`) read the clock once; between any two of them the clock
goes on (`Advance`) or is set (`SetClock`). `MS` units of the clock make a
millisecond, so that cutting off what is less than one shows. `Wake` is
`epoll_wait` with its timeout, an event or a signal, which skips `tick`
(`main.cpp:74`). Bounds: the clock is set back by `MaxStep` in all, and
the thread is given the processor before its head is late by `Lag`.

### HttpConn

| Code | Actions |
|---|---|
| `read()`, `http_conn.cpp:419-451` | `OnReadable` |
| `process()` up to the loop, `91-117` | `Drain` |
| one turn of the loop, `124-161` | `ParseRequestLine`, `ParseHeaders`, `DoRequest` |
| its end, `163-176` | `ParseDone` |
| `write()` and `init()`, `main.cpp:129-142` | `OnWritable` |

The stream is a sequence of lines and of units of bodies; a line cut in two
waits in the buffer as one that has not come. A pointer into the buffer
(`m_url`, `m_jwt_token`) becomes "lost" when `memmove` moves the buffer under it;
what a client is then answered is anything but what it asked. The NUL that
ends a body (137) falls on the first byte of what follows it, which is kept as a
"nul" mark, or on the buffer's end, which is left out. `do_request` with a null
URL ends the process (`strcmp`), which is "crashed". Hang-ups, timers and other
connections are `Reactor`'s. `recv` with length 0 returns 0 if bytes wait
and `EAGAIN` if none do, on Linux: a request of exactly 2048 bytes is served.
`do_request` returns without a response if a file that `stat` found cannot be
opened (`http_conn.cpp:360-361`): `NotOpened`, for any file at any time. The
connection is then armed for reading again and the client waits in vain, which
`unopened` notes. If a client pipelines, such a request leaves the response
before it in place, but with its file's descriptor overwritten (`Spoilt`): the
header goes out and `sendfile` fails ("broken").

`piped` and `cut` are history: whether the client went on without waiting for
a reply, and whether a request came in pieces of which the code keeps more than
flags. `AnsweredAsAsked` holds where neither is so: two requests in one buffer
get one reply, and a cut one may get the wrong one. `RequestServed` allows cut
requests, and needs that none was pipelined and no file failed to open.
Seen as an `Exchange`, a connection is open as long as `at` is neither "closed"
nor "crashed", and its client loose once it pipelined or cut; `asked` and `replies`
are the model's own.

### AsyncLog

`Log::write` asks `full()` (`AskFull`) and then pushes (`Push`, or `WaitForRoom`)
or writes itself (`WriteDirect`): two critical sections, two actions. The writer
thread is `Pop`, `WaitForLines`, `Return`, `WriteOut`. "woken" is where `pop` has
come back from its wait and tests `isClose_`: there and nowhere else. `~Log` is
`Destroy`, `Flush`, `Close`, `NotifyAll`, `Join`, when nobody logs any more. The
file may have failed to open (`fp`). The program gives the log a queue, so that
`isAsync_` is true. The text of a line and its copy on the terminal are left
out. Seen as a `TaskQueue`, a line is a task: pending in `deq`, running in the
writer thread's hand, finished when the thread is through with it, which is in
the file if there is one. Lines that bypass the full queue are not tasks of it.

### Login and JwtUtil

A worker in `verify_login` is at "redis" (`AskRedis`, with the reconnect before
it), "get" or "asleep" (`GetConnection`, in `SqlConnRAII`'s constructor), "query"
(`Query`, which may fail), "setex" (`SetEx`), "free" (`FreeConnection`, its
destructor). Redis goes and returns at any time; a connection to it that was cut
shows it at the next command. Passwords change in MySQL behind the cache's back.
Ticks stand for the half hour of `SETEX`. A connection to MySQL that has died is
one whose queries fail; the code keeps no other note of it.

In `JwtUtil` a string is a sequence of bytes and a character of Base64Url the six
bits it stands for; the two alphabets differ in two characters that are swapped
one for one. `Payload` is the text that `generate` signs, `Signed` its two parts
with the dot between them. The MAC is a constant operator of which
`JwtAssumption` says only that its value is a string without a dot.
`TokenNamesItsUser` compares encoding and decoding over 585 names of up to three
bytes, which together with the fixed text around them reach all three lengths of
a last group; the theorem is of all names.

### Lifecycle

`mpc` goes through `main()`: `SetUp`, `StartReactor` for each thread, `MainTest`
and the wait of its loop, `Join`, `DeleteUsers`, `DeletePool`, `ClosePool`, the
last lines of the log (`Farewell`); and from there through the destructor of the
static `Log`, which runs after `main` has returned: `CloseLog` waits for the queue
to be empty and closes it, `JoinWriter` waits for the writer thread. "exited" is
after that. `writer` is that thread as `~Log` finds it: behind, writing the last
line, asleep, or returned. If it was not asleep when the queue was closed, it
goes to sleep afterwards (`WriterStep`) and only a wake-up that nobody sent
(`WriterWakes`) ends that. `AsyncLog` has the same in detail. A
sub-reactor is at its test of the flag, in `epoll_wait`, handling what it
returned, or in a `recv` that blocks (`RecvBlocks`, as in `Reactor`), which ends
when its client wants. A signal interrupts the `epoll_wait` of the one thread that it is given
to. Of connections a sub-reactor knows whether it has any (`clients`) and whether
a timer is set (`hasTimer`), which decides whether `epoll_wait` ends by itself.
The pool is `TaskQueue`, its destructor the one step `Destroy`. A task that is
left over when `users` is deleted runs on freed memory (`main.cpp:270`): the
process may go on, or die there and then (`Crash`).

## 3. The runs

| Run | Instance | Distinct states | Shows |
|---|---|---|---|
| `pool` | 3 workers, 2 callers, 3 tasks | 34 547 | no lost wake-up, join is safe, the destructor returns, `TaskQueue` is implemented: order, nothing left behind, every task runs |
| `server` | 2 clients, `Served` and `Lost`, 1 sub-reactor, 1 worker, 2 descriptors, no files | 562 175 | `NoStranded` and `WatchedHasTimer` through reuse, `WatchedAreKicked`, `HandsArePassedOn` |
| `burst` | 2 clients and `Lost`, 2 sub-reactors, 2 workers, 2 descriptors, files, replies of 2 sends, slots used or not | about 1 980 000 | `ExclusiveSlot`, `OwnRepliesOnly`, `FilesHaveOneOwner` while no timer is due |
| `answered` | 2 clients and `Lost`, 1 sub-reactor, 1 worker, requests in 2 pieces or 2 requests in a row, files | 282 325 | `RequestAnswered` and `BacklogIsDrained` while no timer is due |
| `log` | 3 producers, 4 lines, queue of 2 | 21 730 | no lost wake-up, order in the file, the bound kept, every line reaches the file, a sleeping writer thread lets `~Log` return, `TaskQueue` is implemented: nothing lost |
| `timer` | 3 descriptors, 2 units to the millisecond, clock set by up to 2 | 25 470 | list and index agree, lateness is the clock's, `Deadlines` is implemented |
| `http` | 3 requests out of 5, buffer of 6 marks, one request filling it, one too long | 871 363 | each request is answered as asked, and is answered unless a file cannot be opened; `Exchange` is implemented |
| `login` | 3 workers, 1 connection, 2 passwords, 1 change, lifetime of 2 ticks | about 440 000 | connections are neither shared nor lost, logins end, old passwords fade |
| `lifecycle` | 2 sub-reactors, 3 tasks, 2 signals to any thread | 235 756 | the order of shutdown, and that the process ends, `~Log` included, unless a thread it waits for sleeps for good |

Deadlock is not checked: a server without clients, a pool destroyed, a log
closed and a process that has exited may rest. What must not rest is stated by
the liveness properties and, for safety, by `NoStranded` and `NoLostWakeup`.

Why the bounds suffice: two clients and two descriptors are enough for each
number to be reused by another client or by a file while a timer, an event, a
task or the main reactor still names it; the third party is the one that takes
the number. Two sub-reactors tell "another client" from "another client of
another epoll"; `server` has one, and the theorems have any number. A deadline of
one tick has the same cases (set, due, reset) as any; deadlines count down
together. For the pools and the log, more threads than sleepers that one
notification can wake, and more items than threads. For the timer, an entry can
be renewed from each place in the list, with others before and behind it. For
the parser, three requests in a row, two of which leave something behind; a
buffer of six marks is filled exactly by one request and overfilled by another.

### Where the code does not do what its documents say

Three runs expect a violation; the counterexamples are behaviours of the code.

* `stale_timer`, `TimerHitsItsOwn`: a connection closed by its handler leaves
  its timer entry behind, and `ListTimer` has no removal. Up to 15 s later the
  entry closes the number again, now somebody else's. README line 13 says that
  double closes are solved.
* `pieces`, `PiecesDoNotMatter`: a login whose body comes after its header, or a
  request cut between two headers, is not answered as it was asked. README
  line 16 says requests cut by TCP are put together.
* `shutdown`, `ShutdownCompletes`: after a signal a sub-reactor without timers
  stays in `epoll_wait(-1)`, and `main` in `join`. README line 17 says that the
  shutdown is graceful.

Others follow from the same causes, and the passing properties are worded so as
to exclude them and nothing else:

* Once timers fire, a slot may be in two hands (`main.cpp:52` relies on
  `EPOLLONESHOT` against it), and a task left over from an earlier connection
  under the same number may swallow the bytes of a new one: `ExclusiveSlot`,
  `OwnRepliesOnly` and `RequestAnswered` are of `BurstSpec`. With timers,
  `HandsArePassedOn` still holds: it is `accept` alone, giving out a number that a
  timer closed under somebody's hand, that puts a slot into one hand more.
* No timer is set on accept, so that a client that never sends is never dropped
  (`main.cpp:22`): `WatchedAreKicked` speaks of those that were heard of.
* Any error of `accept` but "nobody is there" ends the accept loop as well
  (`main.cpp:241-242`), with clients waiting and the edge consumed; so does
  descriptor 0, which a slot's first `init` closes and the next `accept` returns
  (`main.cpp:235`). `BacklogIsDrained` excepts a loop that ended in one of these
  ways ("gave_up"), until the next client rings.
* A sub-reactor stuck in `recv` kicks nobody (`main.cpp:249`, `http_conn.cpp:430`):
  `WatchedAreKicked` excepts the connections of a sub-reactor that is `Stuck`.
* A request for a file that is there and cannot be opened gets no reply, and the
  connection stays open (`http_conn.cpp:360-361`): `RequestAnswered` (`NotOpened`) and
  `RequestServed` (`unopened`) except it.
* A thread that saw room loses it and waits inside `push` (`log.cpp:101` says it
  never does): `EveryLineWritten` says that it does not wait for ever.
* `Close` may come while the writer thread is busy with a line; it then sleeps
  on an empty queue for ever and `join` never returns: `SleeperIsReleased` is of
  a writer thread that sleeps by the time it is notified, and `StopsUnlessAsleep`
  excepts a writer that went to sleep later (`Asleep`).
* `delete[] users` comes before the pool has run its last tasks (`main.cpp:270`),
  and the process may die of it (`Crash`): `TasksHaveMySQL` speaks of the
  connections to MySQL, `ReactorsGoFirst` of the sub-reactors, and
  `StopsUnlessAsleep` counts a crash as an end.

### Fairness

`Spec` of each module assumes weak fairness of each thread (the operating system
schedules it) and of the passing of time (`Advance`, `Tick`). Nothing is assumed of
clients, of callers of `addTask`, of threads that log, of spurious wake-ups, or of
who wins a mutex. A worker's fairness includes that a closure returns: it
does blocking calls to MySQL and Redis, which are taken to answer or fail.
A sub-reactor's fairness includes that a socket armed for `EPOLLOUT` becomes
writable some day, that is, that the client reads on; `answered` needs it, and
the deadlines do not. A sub-reactor in a `recv` that blocks goes on only once
its client has sent something or hung up, of which nothing is assumed.
`answered` uses the fairness of the threads within one tick. In `Login` nothing makes Redis come back or passwords change,
and `LoginsEnd` allows that workers who keep coming take the connection each
time: a condition variable is not fair. In `Lifecycle` nobody has to connect, to
send or to signal; `RecvReturns` and `WriterWakes` are of the environment, and the
log's writer thread is scheduled like the others.

## 4. The proofs

All are for any values of the constants that satisfy the modules' assumptions:
non-empty finite sets of threads, at least one sub-reactor and descriptor, a
queue with room for a line, a timeout of a millisecond or more,
special values that are not clients, tasks, lines, connections or passwords,
names that are strings of bytes, and a MAC that is a string of Base64Url.

`ThreadPoolProofs`:
* `TypeCorrect`, `OrderKept` (`StartsInOrder`), `JoinIsSafe`
  (`NobodySleepsThroughJoin`), `WakeupsKept` (`NoLostWakeup`), `Drained`
  (`DrainedWhenDestroyed`).
* `Refinement`: `SafeSpec => Queue!SafeSpec`, the safety part of "implements
  `TaskQueue`".

`StartsInOrder` and `DrainedWhenDestroyed` say of the pool's own variables what
`TaskQueue` says of its: the order of starts, and nothing left behind. The runs
check the refinement, which implies them; its proof rests on the same invariant.
`NothingLost` of the log is another of this kind.

`DrainedWhenDestroyed` is not inductive. The invariant adds that workers leave
only with `stop` raised and an empty queue (`GoneForGood`), that the destructor
ends only when all have left (`AllGone`), and an account of every started task:
finished, or held by exactly one running worker (`Accounted`, `Apart`,
`AddedOnce`). The wake-up proof counts: the sleepers' queue is no longer than
the threads on their way to it, so each step changes two cardinalities.

`ReactorProofs`:
* `TypeCorrect`.
* `NobodyIsStranded`: `SafeSpec => []NoStranded`, timers, reuse and all. The
  invariant (`Base`) adds that a connection has at most one number (`Placed`),
  that only open connections are registered (`Registered`), that a sub-reactor
  waits only with no event in its hands (`Quiet`), and that the unregistered
  are disarmed (`OffOutside`). `CloseFacts` and the lemmas after it state once
  what `Close` with `KeepArmed` or `Rearm` does to them.
* `DeadlinesKept`: `SafeSpec => []WatchedHasTimer`. It needs that a watched
  connection is registered or closed, and that the connection the main reactor
  is about to register is not registered yet.

`ReactorSlotProofs`:
* `SlotsAreExclusive`: `BurstSpec => []ExclusiveSlot`. The invariant says that of
  a descriptor's possible holders (main reactor, armed registration, event,
  task, worker) at most one holds it and that a free number has none
  (`OneHand`), that nothing is due (`NothingDue`), that the file a slot has
  open is its own (`FilesAreOwn`), so that closing it takes no client's number
  away, and that no sub-reactor is in a `recv` that blocks (`NobodyInRecv`): that
  takes an event for a number that `accept` has just given out, a second hand.

* `RepliesAreOwn`: `BurstSpec => []OwnRepliesOnly`.
  It adds to that invariant that what a slot holds in its buffer or as a reply
  is of the client its number now stands for (`SlotsOwn`), and so is the request
  a worker has parsed (`JobsOwn`).
* `FilesAreClosed`: `BurstSpec => []FilesHaveOneOwner`. `do_request` overwrites
  `m_file_fd` without looking at it, so a file would be lost if the slot had one
  open already. The invariant (`FileInv`) adds that it has none: a slot that is
  being initialised, armed for reading, in a readable event, in the pool's queue
  or with a worker that has yet to call `do_request` has no file open
  (`NothingOpen`), and each open file has a slot (`FilesAreHeld`). That no two
  slots share one is `FilesAreOwn` again. Descriptor 0 is apart, because it is
  what `m_file_fd` holds in a slot never used. Clients that pipeline, and so make
  a slot open a second file over the first, are not in `Reactor`
  (`http_conn.cpp:358` in the hazards).
* `HandsArePassed`: `SafeSpec => HandsArePassedOn`, timers and all, when a slot may
  have many holders. Each step either drops holders or puts one in the place of
  another (`OnePassed`), or, where the pool's queue moves up, maps the holders
  after it into those before it (`TakenMoves`); `accept` is the only one that
  does neither. Cardinalities compare because of each kind of holder there are
  finitely many (`HandsFinite`). It needs no invariant but `Base`.

`ListTimerProofs`:
* `TypeCorrect`, `IndexKept` (`IndexAgrees`), `HeadIsEarliest`
  (`LateByStepsAlone`). The invariant says that along the list deadlines grow,
  except for what the clock was ever set back (`Ordered`), and that none is
  further off than `add` allows and the clock went back (`Bounded`). `Kept` is
  the list without one descriptor's entry, whichever way it was cut out; `CutOff`
  is what whole milliseconds leave of a time.
* `Refinement`: `Spec => Abstract!SafeSpec`, the safety part of
  `ImplementsDeadlines`: `Add` is `Set`, `Fire` is `Fire`, a clock that goes on or
  is set is `Clock`, and every other step leaves `Left` alone.

`HttpConnProofs`:
* `TypeCorrect`, with clients that pipeline and cut as they like.
* `AnswersAreAsAsked` (`AnsweredAsAsked`). `IInv` says, of a client that waits for its
  replies, that there is at most one request to be answered. Until its blank line
  is parsed, the marks behind those already parsed are in the buffer, received
  or on their way, in their order (`Pending`), and the parser is what the parsed
  ones make of it (`Parsed`); from then on, only its body is left in the buffer
  (`Served`), and when the reply has gone, nothing (`Waiting`); or the request
  was left without a response and nothing more will come (`Unanswered`).
  `LinesFacts` says what the marks of a request are; every action then moves some
  of them.
* `Refinement`: `Spec => ImplementsExchange`. A client asks when the reply before
  has come, `OnWritable` is the reply, a full buffer the refusal, and every
  other step leaves the exchange as it is or is of a client gone loose. It needs
  from `IInv` that a reply is made of the request asked last, and besides that a
  connection closed without one is closed over a request that does not fit
  (`ClosedTooBig`).

`AsyncLogProofs`:
* `TypeCorrect`, `QueueIsFileOrder` (`WrittenInOrder`), `AllIsWritten`
  (`NothingLost`), `WakeupsKept` (`NoLostWakeup`). `NothingLost` is not inductive:
  `Shape` adds that nobody logs once `~Log` runs, that the queue is empty from
  `Close` on, and that the file is closed after the writer thread has returned;
  the rest follows from the order of the queue. `WakeupsKept` counts the
  producers on their way to push, as in the pool.
* `Refinement`: `SafeSpec => Queue!SafeSpec`, the safety part of
  `ImplementsTaskQueue`. `Push` is `Submit`, `Pop` is `Start`, `WriteOut` is `Finish`,
  `Join` is `Destroy`. It needs that no line is twice in the queue, in the writer
  thread's hand or with producers (`Fresh`, `Inside`, `Apart`): where there is no
  file, what is finished is only known as what is in none of these.

`LoginProofs`:
* `TypeCorrect`, `ConnectionsAreExclusive` (`OneHolder`). The invariant adds that
  a worker holds a connection exactly between `SqlConnRAII`'s constructor and its
  destructor (`Held`), so that what is put back is in no queue and no other hand.
* `WakeupsKept` (`NoLostWakeup`), and `OldPasswordsStayAway`, the action property
  `OldOnesStayAway`: what MySQL confirmed is the only thing that is ever cached.
* `DecodeEncode`: decoding what was encoded gives the bytes back, for strings of
  any length. `Base64UrlEncode` and `Base64UrlDecode` say what is at each place, so
  that no induction is needed: a byte lies in a group of three, and by its place
  in the group (`k % 3`) it is put together from two of the group's four
  characters (`Sextets`, `BitsComeBack`); and the lengths of a last group come
  back through `(4n + 2) / 3` and `3m / 4` (`LengthComesBack`).
* `TokensNameTheirUsers` (`TokenNamesItsUser`), for every name that has no quote
  in it. A token has two dots and no other (`Joined`, `PairHasTwo`), so `Verify`
  signs what was signed (`Believed`); in the payload the first `"user":"` is the
  one that was put there, and the first quote behind it ends the name
  (`UserFound`). Anything else may be in it.

`LifecycleProofs`:
* `TypeCorrect`, `OrderOfShutdown` (`ReactorsGoFirst`), `TasksAreServed`
  (`TasksHaveMySQL`). The invariant (`InOrder`) says what is set up and what is
  taken down at each place of `main()`.

Every invariant that a passing run checks is a theorem, and so are
`OldOnesStayAway`, `HandsArePassedOn`, `ImplementsExchange` and the safety part of
the other refinements. Only model-checked is what needs fairness, because
`ENABLED` and reasoning under fairness are out of the prover's reach:
`WatchedAreKicked`, `RequestAnswered`, `BacklogIsDrained`, `RequestServed`,
`DestructorReturns`, `EveryLineWritten`, `SleeperIsReleased`, `LoginsEnd`,
`OldOnesFade`, `StopsUnlessAsleep`, and the fairness of `TaskQueue` and
`Deadlines` in what implements them. `burst` also checks `ExclusiveSlot`, and `server`
`NoStranded` and `WatchedHasTimer`, from states of a running server that `Init`
does not give in small instances.

## 5. Not modelled, and the plan

Not modelled:

* `Config`: it is read once before any thread starts. Build files, the container
  set-up and the web pages have no behaviour of the server's own.
* The text of replies and of log lines, and with it the length of a line
  (`log.cpp:89`), `localtime`'s shared buffer (65) and `printf` in a signal handler
  (`main.cpp:36`): the models have no characters.
* The sizes of files (`http_conn.cpp:374`) and files that change while they are
  sent (394).
* Operations that the program has and does not use: the timed `pop`, `front`,
  `back`, `size`, `clear`, the synchronous mode of the log.
* A process that is killed. It keeps no state on disk but the log.

Left of the plan: the timers of `Reactor` as an instance of `Deadlines` for each
sub-reactor, to tie the composition to what `ListTimer` was shown to implement.
