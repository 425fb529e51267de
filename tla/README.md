# A TLA+ model of the coroutine library

The repository is a stackful coroutine library in C++. Fibers run on a few
threads, a reactor thread wakes them when descriptors become ready or timers
expire, and hooked system calls turn blocking calls into fiber switches. What is
hard in it is concurrency: almost all shared state is touched by several threads,
partly under a lock, partly with atomics and partly without either. On top of it
are a TCP server, an HTTP server and client and a pool of database connections,
where what is hard is reads that end anywhere, failures half way and descriptors
that are used again. This project models both, and checks them with TLC and
TLAPS.

## Inventory

| Component (source) | State | Operations | Talks to |
|---|---|---|---|
| Processer and work queue (`scheduler/Processer.*`, `WorkQueue.hpp`) | `m_que`, `m_payLoad`, `m_sem`, `m_stopping` | `run`, `addFiber`, `steal`, `store`, `stop`, `notify`, `waitForNotify` | fibers, scheduler, reactor's hold count |
| Fiber (`concurrent/fiber.*`) | `_state`, `_ctx`, `_stack`, `_cb` | `swapIn`, `YieldToReady`, `YieldToHold`, `run` | the processer it is on |
| Scheduler (`scheduler/Scheduler.*`) | `m_totalFibers`, `m_currentThread`, the processers | `addNewFiber`, `activateFiber`, `balance`, `stop`, the dispatcher thread | processers, reactor |
| Reactor (`scheduler/Reactor.*`) | `m_fdEvents`, `m_holdCount`, epoll, notify pipe | `addEvent`, `delEvent`, `cancelEvent`, `cancelAll`, `triggerEvent`, `run` | scheduler, timers, kernel |
| Timers (`scheduler/TimerManager.*`) | the ordered set of timers | `addTimer`, `cancel`, `getNextExpireInterval`, `getExpiredTasks` | reactor |
| Fiber semaphore and mutex (`latch/coLock.*`) | `_value`, `_holdQue` | `wait`, `tryWait`, `notify`, `lock`, `unlock` | scheduler, hold count |
| Hooked calls (`netio/Hook.cpp`, `FdManager.*`) | `TimerInfo`, `FdInfo` | `do_io`, `connect`, `close`, `sleep`, `fcntl`, `setsockopt` | reactor, timers |
| Logging thread (`LogThread.*`) | `m_que`, `m_close`, notify pipe | `start`, `sendLog`, `run`, `work`, `close` | loggers |
| ByteArray (`bytearray/ByteArray.*`) | chain of blocks, `m_cur`, `m_position`, `m_totalSize`, `m_capacity` | `allocate`, `write`, `read`, `setPosition`, `clear`, typed values | streams |
| Descriptors (`netio/FdManager.*`, `Hook.cpp`) | `_fds`, per descriptor the user's non-blocking flag and its timeouts | `socket`, `accept`, `fcntl`, `setsockopt`, `close`, `lookUp`, `del` | kernel, hooked calls |
| TCP server and sockets (`socket/TcpServer.*`, `Socket.*`) | `m_stop`, `m_socks`, `m_sockfd` | `bind`, `start`, `startAccept`, `handleClient`, `stop`, `Socket::init`, `accept`, `close` | scheduler, descriptors, sessions |
| Streams (`stream/*`) | the socket | `read`, `readFixSize`, `writeFixSize`, `close` | sockets |
| HTTP parsers (`http/*_parser.rl*`) | `cs`, marks into the buffer, `content_len`, `chunked`, `chunks_done` | `http_parser_execute`, `httpclient_parser_execute` | callbacks of `HttpParser.cpp` |
| HTTP server (`http/HttpServer.*`, `HttpSession.*`, `Servlet.*`, `Http.*`) | the buffer of a session, the request, `m_datas`, `m_globs` | `recvRequest`, `handleClient`, `getMatchServlet`, `add...`, `del...` | stream, parser, servlets |
| HTTP client (`http/HttpConnection.*`) | the buffer, the body so far | `recvResponse` | stream, parser |
| MySQL pool (`db/mysql.*`) | `m_conns`, per connection `m_name`, `m_mysql` | `getConn`, `addConn`, `connect`, `ping`, the destructors | database, users |
| Configuration, loggers, crypto, threads and locks | see *Not modelled* | | |

**How they interact.** `addNewFiber` puts a fiber in the queue of the processer
with the smallest payload and posts its semaphore. The processer fetches it and
jumps to its context. A fiber that must wait registers itself with a waker (an
event table entry, a timer, a semaphore's queue), counts a hold with the reactor
and jumps back, its `_state` still EXEC; the waker may hand it to another
processer *before* the jump has saved its context. When the work is over (stop
requested, no fibers, no holds) each of processers, reactor and dispatcher
decides by itself to leave, and `Scheduler::stop` joins them.

**What is hard.** Woken before suspended; push, count and post as separate steps
racing a processer on its way to sleep; four threads deciding on termination from
counters that change separately; edge-triggered reports that are stale by the
time they are handled; a timeout, an event and a close racing for one fiber; a
sleep computed before a nearer timer is added; the start and the end of the
logging thread; a descriptor closed, opened again under the same number and still
waited for; a request whose lines and body arrive in any pieces; a pool full of
dead connections. `PROJECT.json` lists these at their lines under `hazards`.

**What makes it correct.**

- Processer, Fiber, Scheduler: a fiber runs on one processer at a time, from a
  saved context only; it is always in exactly one place; no wake-up is lost;
  payload is what balancing believes it is; a thread leaves only when the fibers
  are done; a queued fiber runs; `stop` returns.
- Reactor: mask, tasks and epoll agree; each wait is ended by exactly one waker;
  no readiness is missed; holds equal waiters.
- Timers: `cancel` finds what it erases; a cancelled timer does not fire; the
  reactor does not oversleep; timers come in order; each fires.
- Semaphore: permits are conserved; waiters are served; it implements the
  abstract semaphore.
- Hooked calls: one wake-up per switch-out; no timer outlives its call; `connect`
  tells the truth; a call with a timeout ends; nobody waits on a closed descriptor.
- Logging thread: what is accepted is printed once and in order; senders and
  `close` return.
- ByteArray: bytes are found where they were written, values and strings come back,
  and no operation of a client that keeps to the block's edges throws.
- Descriptors: an entry belongs to what is open under its number and is
  non-blocking for the kernel.
- TCP server: no path leaks a descriptor; a stopped server closes its listeners; a
  pending connection is taken. Each with the exceptions listed under *Disagreements*.
- HTTP: the servlet and the caller get the message that was sent, wherever the
  reads end; a connection is closed only with a cause; nothing waits for bytes that
  are already there; the servlet is the one that stands for the path.
- MySQL pool: a connection has one user; retrying leads out of a failure.

## Modules

`Processer` is the core. One action is one access to shared state by one thread.
`pc[p]` is the line of `Processer::run` that thread `p` is at: `fetch`, the three
tests `isHold`, `isReady`, `isExec` of lines 175-184 (each reads `_state`
afresh), `setReady`, `swapIn`, `run` (the fiber executes), `jump` (it has set its
state or registered and not yet saved its context), `swapped`, the bookkeeping
`unload`, `uncount`, then `balance`, `steal`, `store`, the stop checks and
`wait`. `call[c]` is a hand-over in progress by thread `c` (a processer, the
owner or the reactor): count, push, load, post, in the order of
`Scheduler::addNewFiber` and `Processer::addFiber`. `saved` stands for what the
context switch has completed. What a fiber does is a choice: yield, finish, block
on a waker, sleep, create or wake another fiber.

`Scheduler` extends `Processer` with the owner's `stop`, the joins, the reactor's
decision to leave and the dispatcher's life.

`Semaphore` is the abstract counting semaphore; `CoSemaphore` is the code, with
`notify`'s two calls to the scheduler and reactor made under the lock, and the
refinement mapping `AbsSpec`: a permit passed on by `notify` has its holder from
the moment the waiter leaves `_holdQue`.

`TimerManager` models the timer set with the reactor's loop around it: read the
clock, compute the sleep, sleep, take the expired timers, hand them over, drain
the pipe; and users that make, add and cancel timers in between.

`Reactor` models the event table and an edge-triggered epoll (`kev`, `level`,
`hup`, `edge`, `batch`), whose behaviour is external: it reports a descriptor
when readiness arrives or an interest is (re)registered while it is ready.
`HookIO` extends it with `do_io`, `connect` and `close`; a timeout callback is a
fiber of its own with steps `armed`, `queued`, `locked`, `cancel`. A connection is
made (its type is in `level`), refused (`hup` without it), lost afterwards (`hup`
with it) or in progress, and `SoError` is what `getsockopt(SO_ERROR)` tells of each.

`LogThread` models the logging thread, its pipe and its senders, from the moment
`start()` has created the thread and not yet cleared `m_close`. `raced` remembers
that the thread tested the flag in between.

`ByteArray` models the chain of blocks byte by byte, `m_cur` and the position apart,
as the code keeps them; a client that writes values and strings (two writes, the
length and the bytes), reads them where they were written and moves to any place of
the data. `file` is what a plain array would hold. `due` says that the last write
ended inside a block, so that `m_cur` is one block too far; a client is `careful` as
long as it sets the position before the next access in that case, writes at the end
of the data or within it, and starts what is longer than a block at the edge of one.

`FdTable` is the kernel's table of descriptors and FdManager's beside it: what
`socket`, `accept_f`, `lookUp`, `setsockopt` for a timeout, `fcntl(F_SETFL)`, `del`
and `close_f` do to each. `TcpServer` extends it with the server: one record
`acc[l]` per accepting fiber (in `accept`: before its attempt, waiting, with a new
descriptor, handing it on), the fiber that calls `bind`, `start` and `stop`, the
fiber that `stop` queues, and one handler per connection. A close is three steps per
socket (`cancelAllEvent`, `del`, `close_f`), a fiber goes on with the number
it was called with, and `accept` fails for every reason the code tests. A Socket that
cannot be made for an accepted descriptor has failed before `m_sockfd` was set
(`EnterRefused`) or after it (`HandFails`), which decides whether its destructor
closes the descriptor. A timeout marks its call and cancels whoever waits under the
number (`Expire`); it ends its own call only if that call has registered and epoll
still knows the number.

`HttpRequestMachine` and `HttpResponseMachine` are the two generated machines: a
set of edges, each a state, a set of bytes, a next state and the actions in their
order, for all 349 and 123 states. Chains of states that differ in one letter or in
a count are generated by operators (`Version`, `IPv4`, `LeadingGroups`, ...), which
is why the modules are a fraction of the code. They are at the level of bytes because
what goes wrong is: a read may end at any byte, a machine's marks are offsets into what
it was given, and `RequestDelivered`, `ResponseDelivered` and the contract `ParsesByLine`
compare what the callbacks got with what was sent. `HttpMessage`, `HttpRequestParser`
and `HttpResponseParser` run a machine over the bytes of one read, with the
callbacks (header map, method, version, Content-Length, chunk sizes) and with what
`init`, `initParam` and `urlDecode` make of the result. `HttpServer` has the
session's read loop, the dispatch and the peer; `HttpConnection` the client's
`recvResponse`. In both a read returns any number of the bytes that have arrived.

`MySQLManager` has the pool and its users, by the steps of `getConn` (under the
lock, `connect`, `ping`), use with and without return, and a database that goes down
and comes up.

`SeqFacts` holds lemmas on sequences without duplicates and on parts of sequences;
the `...Proofs` modules hold the theorems (`QueueProofs` those of `CoSemaphore`,
`LogThread` and `ByteArray`, `ManagerProofs` those of `TimerManager` and `MySQLManager`). An `MC...`
module only names constants (`HttpText` turns the strings of their scripts into
bytes); `MCHttpServer` and `MCHttpConnection` also compute the parsers that may have
read a script up to a place, and where its head, size lines and chunks are, and
assume with `ParserAssumption` the contract of the parser that the proofs use: TLC
evaluates it for the scripts of the run.
A definition marked *Mutant* next to an operation is a plausible wrong version of
it, with which the property named in `PROJECT.json` fails.

Abstractions shared by all modules. `m_mx`-style critical sections that touch
nothing else are one step. A failed `ASSERT` is no step of its own: the macro
logs at level FATAL and the logging thread aborts the process, which `LogThread`
has as `aborted` and `Reactor`, for the assertion of `triggerEvent`, as `Crashed`. Allocation does not fail.

## Runs

| Run | Instance | Shows |
|---|---|---|
| `processer` | 2 processers, a fiber and a fiber made from a callback; overlapping hand-overs go to the same processer, the sleep happens while no other fiber is live and the stop after both have ended (`Bounded`, `DispatchLate` in `MCProcesser`) | `OneRunner`, `ResumeSaved`, `OnePlace`, `NoLostWakeup` while fibers block, are woken, requeued and rebalanced |
| `scheduler` | 2 processers stopped at any time, 1 fiber that sleeps, blocks, yields and throws, with `stop`, reactor and dispatcher | `NoEarlyExit`, `ReactorOutlivesFibers`: no thread leaves before the fibers are done; `QueuedRuns`; `StopJoinsWorkers`: `stop` gets past the processers and the reactor |
| `cosemaphore` | 4 fibers, value 1, 2 notifies by non-holders | permits are conserved, every waiter is served, refinement of `Semaphore` |
| `timers` | 3 timers, two of them equal, clock to 2 | `cancel` and expiry exclude each other, no oversleeping, `TimerFires` |
| `reactor` | 2 descriptors, 2 fibers, both types | holds equal waiters, no readiness missed, `ReadyWakes` |
| `hookio` | 1 descriptor closed at any time, one fiber that writes and one that connects, both with timeouts | `WokenOnce`, `NoTimerLeft`, `ConnectTruthful`, `TimeoutEnds` |
| `tcpserver` | 2 descriptor numbers, 2 listeners, 1 connection, 1 stop and a restart | `EntryIsOwn`, `NonBlockKept`, `NoLeak` while numbers change hands and accepts fail; `StopEnds` with timeouts that are lost, `PendingTaken` |
| `logthread` | 3 events, one FATAL, batches of 2, a pipe of 1, a thread that may run before `start` has ended | `EarlyPrinted` (once, in order, all that was pushed before `close`), `SendReturns` |
| `bytearray` | blocks of 2 bytes, values of up to 4, size 6 | `BytesAtPlace`, `ReadsBack`, for a careful client |
| `http_server` | a GET with a query and a cookie and a POST with a form, in both orders, 1 read inside a line, 3 changes of the servlet table | `RequestDelivered`, `NoSpuriousClose`, `MatchIsStanding`, `RequestEnds` |
| `http_client` | a response with a length and one in chunks, in both orders, buffers of 32 bytes, 2 reads inside a line | `ResponseDelivered`, `NoSpuriousFailure`, `ResponseEnds` |
| `mysql` | 2 users, 2 names, 6 connections, a limit of 1, a database that goes down twice | `ExclusiveUse`, `RetryServed` |

Why the bounds are enough. Every hazard of the processers is a race of two
threads over one fiber, or of one fiber with a second in the same queue: two
processers, the owner and the reactor as callers, and two fibers contain them
all; what `Bounded` and `DispatchLate` cut off (hand-overs to two processers at the
same time, a stop, the dispatcher or a sleep while two fibers are live) is in the
`scheduler` run for one fiber, and the theorems below, which cover all four
properties of `processer`, have no such bound. `SemCap`
saturates a processer's semaphore at 1: a loop that finds no work waits again, so
further posts only add turns. Four fibers give the semaphore two waiters behind a
holder and a notifier. Three timers give equal and different expiry times and one
cancelled while another is handed over; the clock passes the longest interval and
the longest sleep. `MaxIter` lets a timeout of an earlier attempt fire during a
later one; a fiber connects its socket once. A pipe of 1 is full after one
sender, and a batch of 2 leaves an event in the queue. Six bytes in
blocks of two have values that start and end inside a block and at its edge, values of
two whole blocks and a string behind or before them, and a spare block behind the last. Two numbers are fewer than the
three sockets of `tcpserver`, so that numbers run out and are used again; one stop
and restart lets the fiber it queued be late. The scripts of the HTTP runs have
every part that is read in a different way (lines ended by CR LF and by LF alone, a
body in the bytes left from the head and beyond it, line ends as data, chunks
smaller and larger than what is read, an extension, the last chunk) and two
messages on one connection, so that a byte left over or lost shows in the next;
`MaxCuts` lets the reads that the properties exclude happen and be followed by
others. A limit of 1, reached with two users, and two downs leave a dead connection
in the pool while a second one dies; with two users no more than 6 connections
exist. No run uses symmetry. Deadlock is checked except in `tcpserver`,
`http_server`, `http_client` and `mysql`, whose systems rest when the peers, the scripts or the bounds are used up:
there the liveness properties say what must not remain undone. Elsewhere, where the
system may stop (all threads gone, all fibers done, the clock at its bound) the
module has an explicit stuttering step with that condition as guard.

Fairness. Weak fairness on each thread's steps is the operating system's
scheduling. `SF(Finish(p))` in `Scheduler` says that a fiber which is resumed again
and again ends sooner or later: `stop` waits for the fibers by design, and
scheduling is cooperative; it is strong because a fiber may yield, sleep and call
`addFiber` first. Time passes and armed timers expire. A fiber between
`lock` and `unlock` unlocks (strong, since `m_mx` may be taken at times). Nothing
is assumed about data arriving, about `close` being called or about new fibers
being added. The timeout callbacks of `HookIO` share one fairness condition:
there are finitely many, of finitely many steps each. In `HttpServer` and
`HttpConnection` the calling fiber runs on, and a read returns when there are bytes
or an end of file; the timeout of a read is possible and not counted on. In
`TcpServer` fibers run, timers expire and a handler ends when its peer has left. In
`MySQLManager` users go on with what they have begun and the database comes up
again; it goes down finitely often.

### Disagreements

What a comment, an assertion, a name or a test says and the code does not do.
These are stated as properties of the modules and have no run of their own. Each
is reproduced by checking the property with the constants of the run named,
changed as shown.

| Property | From run | The code |
|---|---|---|
| `StealTakesFromOthers` | `processer` | `balance` picks the most loaded processer and steals from the idle processer's own queue (`Scheduler.cpp` 151; `Processer.cpp` 212 says it tries to steal) |
| `NoneLeftSuspended` | `scheduler`, `CbFibers = {f1}` | fibers made from callbacks are subtracted from `m_totalFibers` and were never added, so threads leave with fibers suspended (`Processer.cpp` 206; `fiber.cpp` 76 asserts the contrary) |
| `StopReturns` | `scheduler` | the first exit of `run` does not decrement `m_currentThread` (`Processer.cpp` 225; line 237 does), so the dispatcher never ends and `stop`, which `test_iomgr.cpp` 92 calls to end the program, waits for it for ever |
| `NoNullFiber` | `reactor` | a report of two types, one cancelled meanwhile, triggers both: a null fiber is handed over (`Reactor.cpp` 345; line 360 asserts the contrary) |
| `TimedCallEnds` | `hookio`, `Fibers = Timed = {f1}`, nothing connecting or closable | a timeout that fires between arming and registration is lost, and the call waits for ever (`Hook.cpp` 185) |
| `LoopOncePerInterval` | `timers`, `Loops = {2}` | a LOOP timer is put back with its old expiry time and fires at every turn (`TimerManager.cpp` 108) |
| `NoWaiterOnClosed` | `hookio` | a fiber can register between `cancelAll` and the real `close`, and nothing wakes it (`Hook.cpp` 502) |
| `AcceptedPrinted` | `logthread` | an event pushed after the thread's last look is not printed (`LogThread.cpp` 169, comment at 116) |
| `CloseReturns` | `logthread` | the pipe's write end blocks, and `close` with it (`LogThread.cpp` 151) |
| `StartedServes` | `logthread` | the new thread may see the old `m_close` and leave (`LogThread.cpp` 85; `LogThread.hpp` 25 says that it turns the thread on) |
| `AlwaysReadsBack` | `bytearray` | `newtag` starts at 1, so `m_cur` moves on after every write, and the next access after one that ended inside a block meets the wrong block (`ByteArray.cpp` 453; 479 says that a block is added once one is full); and `allocate` links its blocks behind `m_cur`, which cuts the chain for a write from inside the data past its end and for one longer than a block that starts inside one (763) |
| `ConnectSurvivesClose` | `hookio` | a `close` wakes the fiber in `connect` with no mark, and `SO_ERROR` of a connection in progress is 0: `connect` returns success (`Hook.cpp` 374-397) |
| `NothingLeaked` | `tcpserver` | the `FdInfo` of an accepted descriptor fails to initialise: `Socket::init` returns before `m_sockfd` is set, and `~Socket` has nothing to close (`Socket.cpp` 92-102) |
| `StopAlwaysEnds` | `tcpserver` | the timeout of `accept` runs between its arming and the registration, or after the number was closed, and ends nothing: the accepting fiber stays (`Hook.cpp` 185-199, `Reactor.cpp` 224-228) |
| `TakenByOwn` | `tcpserver` | a fiber that waits in `accept` under a number that was closed and opened again takes a connection of the other listener (`Hook.cpp` 506) |
| `ListenersStay` | `tcpserver` | the fiber that `stop` queues reads `m_socks` when it runs, which may be after the next `bind` and `start`: it closes the new listeners and not the old (`TcpServer.cpp` 175-181) |
| `AnyReadDelivered` | `http_server` | a read that ends inside a line: the marks of the parser are reset by the next call, so the part of the line that came before is not in what the callbacks get (`HttpSession.cpp` 24-33, whose comment keeps the unparsed bytes in the buffer) |
| `AnyReadReturned` | `http_client` | a size line cut between its digits is taken for a smaller chunk, and the body ends early or the call waits for more (`HttpConnection.cpp` 87-108) |
| `PoolWithinLimit` | `mysql` | the test is `size() > m_maxConns` before the push: a pool holds one connection more than the limit (`mysql.cpp` 901, comment at 900) |
| `ReturnsHome` | `mysql` | the first connection of each name keeps the name "root" and is given back under it (`mysql.cpp` 843-858) |

Read off the code without a property: `HttpResponse::dump` writes
`content-lentgh` (`Http.cpp` 391) and `HttpRequest::dump` `Content-length :` (221);
`handleClient` does not look at `isClose`; a response whose head ends in an empty
Connection, Transfer-Encoding or Content-Length line stops in states 121-123, which
are not final; a failed read of a chunk's data returns without closing
(`HttpConnection.cpp` 126); `uri_relaxed` is never initialised, so the model takes
either value; `setSendTimeout` returns the opposite of success; neither `close` nor
the destructor of a `MySQLConn` ends its session.

The passing runs exclude these situations by constants or state what holds in
spite of them: `NoEarlyExit` is about counted fibers, `EarlyPrinted` about events
pushed before `close` to a thread that has not seen the flag of the constructor,
`TimeoutEnds` about timeouts that find the registration on an open descriptor,
`StopEnds` about listeners whose fiber does not wait with its timeout already spent,
`NoLeak` about descriptors that have an open entry in FdManager or none, `HoldMatches`
about the time before the failed assertion of `NoNullFiber`,
`ConnectTruthful` about a socket that no other fiber uses or closes before its connect
returns, `BytesAtPlace` and `ReadsBack` about careful clients,
`RequestDelivered`, `ResponseDelivered` and the two about causes about connections on
which no read has ended inside a line. Their liveness counterpart `RequestEnds` holds
for all reads. In all of these the runs contain the excluded behaviour; the property
names it.

## Proofs

`ProcesserProofs`, for every `N >= 1`, every set of fibers and every choice of
the other constants that `ConstantsAssumption` allows: `TypeCorrect`,
`OneRunnerHolds`, `ResumeSavedHolds`, `OnePlaceHolds`, `NoLostWakeupHolds`.

None of these is inductive. `OneRunner` fails inductively when two processers
have the same fiber in hand, one executing it and one testing its state; what
excludes a second resume is *ownership*. The invariant `Inv` says:

- `CurInv`, `CallInv`: who has a fiber in hand, by program counter;
- `StateInv`: what `_state` is at each line between `setReady` and `swapped`;
- `SavedInv`: an unsaved context belongs to a fiber on some stack, and EXEC lasts
  until the processer that ran the fiber has returned from the jump;
- `ExclusiveInv`: past the tests, no two processers hold the same fiber;
- `QueueInv`, `PlaceInv`: every fiber has one place, a kind and a number, where a
  fiber that blocked stops being its processer's at the moment it is registered.

The crux is the lemma `CheckedIsFree`: a processer that reads a state other than
EXEC of the fiber it fetched has it alone, because another processer past the
tests would own it as well, and two owners are two places. `OnePlace` follows
from `PlaceInv` by turning a place into the one element of `Places(f)`.
`NoLostWakeup` uses `WakeInv`, which extends it back over the lines between the
last look at the queue and `wait`. Each step of `run`, of a fiber that leaves and
of a hand-over has its lemma; steps that move one fiber use `MovePlace`.

`QueueProofs`, for `CoSemaphore` with every finite set of fibers, every initial value and
every bound on signals: `PermitsConservedHolds`, `MutexExclusiveHolds`,
`ImplementsSemaphore` (initial states map to initial states, every step to a step
or a stutter). The invariant adds that at most one fiber is inside `notify`, that
the queue has no duplicates, and that a blocked fiber is queued or being handed a
permit.

`ManagerProofs`, for `MySQLManager` with every set of users, connections and names, every limit
and however often the database fails: `ExclusiveUseHolds`. The invariant says where
connections may be (`PoolType`), that a user on the way to a statement has one, and
that no connection is in two places, in terms of positions in the queues; the three
cases of interest are a new connection, one from the front of a queue and one that
goes back.

`ProcesserProofs` also has, for a program that adds no callbacks to timers or events
(`CbFibers = {}`), `NoEarlyExitHolds` and, of the composition with the dispatcher and
the owner's thread in `Scheduler`, `ReactorOutlivesFibersHolds`. The assumption is the
code's: a fiber made from a callback is taken off `m_totalFibers` without having been
counted, and a processer may then leave early. `CountInv` says that the counter is the
number of fibers counted in plus those on their way out; `CallerInv` says that only
the owner adds new fibers, and has done so when it stops a processer; `ExitInv` and
`LifeInv` carry "no fiber is left" from the test of the counter to the end of the
processer and of the reactor. `SchedulerImplements` shows the
composition to implement `Processer`, so that the theorems above hold of it too.

`ReactorProofs`, for every set of descriptors, fibers and event types:
`NoMissedReadinessHolds`. The invariant adds that epoll's interest list is the event
table (`kev = event`) and the types. A step either rewrites the interest of one
descriptor, and then the kernel puts it on its ready list if it is ready for what is
left (`EpollCtlInv`, `TakeOffInv`), or moves descriptors from that list to the batch
that `epoll_wait` returned, or takes an entry from the batch. `HoldMatchesHolds`
counts: a descriptor's registered types and its table of fibers agree (`TableInv`),
and each step adds or takes off exactly the pairs it counts.

The same module has the theorems of `HookIO`, the calls on top of the reactor:
`WokenOnceHolds`, `NoTimerLeftHolds`, `ConnectTruthfulHolds`. `WaitInv` says that a
fiber that is switched out is in one place: registered, or on its way back. With it
go which attempt a callback belongs to (`TimerInv`), that a fiber connects once
(`OnceInv`), and that a connecting fiber with no other calls about was
woken by something that is ready or by a timeout that has left its mark
(`AloneInv`); a socket that is ready is connected or hung up, and `SO_ERROR` tells the
two apart, which is what makes connect truthful.

The calls are also shown to be clients of the reactor: `HookImplementsReactor`, if no
descriptor is closed (`Closable = {}`), maps each step of a call to a step of
`Reactor` or to none, so that what is proved of the reactor holds of it as the calls
use it. With closes the mapping fails, because `close` takes a descriptor from the
kernel's lists without a step of the reactor. So two results are proved of `HookSpec`
itself, closes included: `HookHoldMatches`, and `HookMissesNothing`, which is
`NoMissedReadiness` for the descriptors that are not closed. Both come from the
reactor's invariant restricted to the live descriptors (`EdgeOn(Live)`): a close
touches the reports of no other descriptor.

`ManagerProofs`, for `TimerManager` with every finite set of timers, every interval and every bound
on the sleep and on the clock: `CancelFindsTimerHolds`, `NoOversleepHolds` and the
action property `CancelPreventsFiringHolds`. The invariant is the first two with the
types, and that a timer in the set has been added. That the sleep ends with the
earliest timer needs a least element of a finite set of integers (`LeastExists`); that
a timer added during the sleep does not matter unless it is the first follows from the
order of the comparator. `FireInv` says that a SINGLE timer on its way to
the scheduler has left the set and lost its fiber, so that `cancel` comes too late
for it, and that one still in the set has not fired.

`QueueProofs`, of `LogThread`, for every set of events and pushers: `PrintedInOrder`
and `EarlyPrintedHolds`. `OrderInv` is the first with the types; `LastInv` says that
the thread is on its last round only once `close()` has been called or it has raced
with `start()`, and that when it has left without racing all that was pushed before is
printed.

`QueueProofs`, of `ByteArray`, for every block size, every set of bytes and all bounds:
`BytesAtPlaceHolds` and `ReadsBackHolds`. Neither is inductive, because what a write
does depends on `m_cur`, the capacity and the length of the chain. `BufInv` says that
while the client is careful

- the capacity is the length of the chain in bytes, and the chain has room behind the
  last byte of the data, but for less than two blocks;
- `m_cur` is the block of the position, unless a write has ended inside a block and
  the position has not been set since;
- each byte of `file` is at its place in the chain.

`AllocateFacts`, `CopyFacts` and `WriteFacts` follow a write through its parts. The
crux is `GrowsAtEnd`: a careful write makes `allocate` add blocks only at the end of
the data and with `m_cur` the last block of the chain, so that nothing is cut off. It
needs the third condition on careful clients: a long write that starts inside a block
may find a spare block behind `m_cur`, and loses it.

`TcpServerProofs`, for all sets of listeners, connections and descriptor numbers that
`ServerAssumption` tells apart: `EntryIsOwnHolds`, `NonBlockKeptHolds`, `NoLeakHolds`.
None is inductive, because a close goes on with a number it read from the Socket. The
invariant `ServerInv` says:

- `CloseInv`: no two fibers are past the start of a close of one socket, the socket
  keeps its number until the end, and nothing is open for it past `close_f`;
- `NumberInv`: a Socket's number is its own, but between `close_f` and the end of its
  close, when another may have it, and nothing is open under two numbers;
- `TakeInv`: what a call of accept has in its hands is open, nobody else's, and has no
  number in a Socket yet;
- `ConnInv`, `RunInv`: who closes a connection, by its state, and that `start()` meets
  no accepting fiber of a socket it starts one for;
- `EntryInv`, `LeakInv`: the theorems, in terms of these. A descriptor that
  `EnterRefused` has left behind keeps its closed entry, because no Socket has its
  number and the kernel does not give it out again.

`HttpServerProofs`, for every set of addresses, globs and servlets:
`MatchIsStandingHolds`. The invariant `TableInv` relates the tables to the history of
the changes made to them: an address or a glob has an entry exactly while its last
change is a registration, the entry is the servlet of that change, and the globs are
in the order in which they came to stand. Replacing a glob removes its entry and
appends the new one, and the crux is that a removal keeps the order of the rest.

`HttpServerProofs` and `HttpConnectionProofs`, for every script of requests or
responses, every buffer size and every way to cut the bytes into reads:
`RequestDeliveredHolds`, `NoSpuriousCloseHolds`, `ResponseDeliveredHolds`,
`NoSpuriousFailureHolds`. What a parser makes of every text is an induction over the
text, which the prover cannot do; so these theorems are about the read loops and have
the contract of the parser as their hypothesis, `ParsesByLine`. It says of one call
of `Execute` what the loops need of it: a parser that has read whole lines of a head
and is given more whole lines takes them all and is one that has read those too; given
the end of the head as well it is finished exactly there, with the fields that were
sent; and, for a response in chunks, one that is started at a size line stops behind it
with the size, and with `chunks_done` exactly at the last. TLC checks this
contract of the two parsers for all texts of the runs (`ParserAssumption`). The
contract leaves the loops all that is theirs: the buffer and what is kept of it, the
part of the body that came with the head, chunks that end inside a read, between reads
or inside their line end, the bytes left for the next request or response, and
when to give up.

- `SessInv` places the session's loop: in the head at a break with nothing kept back,
  in the body with what has been read of it, or serving with the request complete; what
  has not been read is the rest of this request.
- `ConnInv` does the same for `recvResponse`: in the loop for a size line the buffer
  is the part of the response from some size line to the last byte read, and the body
  is the text of the chunks before; in a chunk's data the bytes still waited for are
  those up to the next size line. A chunk whose last bytes come with a later read is
  joined and cut (`CutConcat`, `PartOfPart`) to the same text as one that is there at
  once.

Both say so only while no read has ended inside a line, as the properties do.

Only model-checked: everything about liveness (the prover has no rules for
fairness), and `ParsesByLine` itself, for the texts of the runs: what the generated
machines compute is an induction over the bytes.

## Not modelled

- Addresses, loggers and formatters, the YAML conversions, MySQL statements and
  their results, `dump` and the hashes are conversions, output or calls of
  libraries. `ConfigVar` with its listeners is in the plan.
- Context switch and stacks are assembly; their effect is `saved`.
- Threads and locks are thin wrappers; their effect is in the guards.
- Of the modelled parts: `Fiber::reset` and `swapTo` (no caller), the unused
  queue priorities, statistics, `resizeMap`, failures of `epoll_create` and
  `pipe`, varints, iovec buffers and files of the byte array; `ioctl(FIONBIO)`, which
  clears the flag that `NonBlockKept` is about, `F_GETFL`, `F_DUPFD` and pipes of the
  hooked calls; `writeFixSize`; `listAllServletName` and the client's `DoRequest`, which
  resolves an address, sends and calls `recvResponse`; the overload of
  `Scheduler::addNewFiber` that takes a fiber and does not count it, which has no
  caller. The build file leaves `http/` and `db/` out of the library.
- Data races and failures that have no state of their own: the fiber that `stop()`
  queues walks `m_socks` by reference while `stop()` clears it without a lock
  (`TcpServer.cpp` 175, 181), which is one step here, before or after the clearing; the
  entry of a listener whose `FdInfo` fails to initialise, `fstat` and `F_GETFL` that
  fail; `data[len] = 0` with a length of -1 before the test for it
  (`HttpSession.cpp` 34); a byte array made with `blockSize` 0, whose capacity is 0
  (`ByteArray.cpp` 41-44); the reactor's exit test, three atomic reads, as one step.
- Peers: a request is sent whole, so that a body that ends early
  (`HttpSession.cpp` 80-84) does not happen; a response may break off when its peer
  leaves, but a peer that goes silent does so behind all it has sent. The servlet
  table changes between requests only: it has its lock.
- Database: a server that is up accepts every session (sessions that were dropped and
  not closed would use up its limit), and a user gives a connection back once, though
  `mysql.hpp` 160-163 and 431-443 let it do so twice.

## Plan

1. Done: Processer, Scheduler, CoSemaphore, TimerManager, Reactor, HookIO,
   LogThread, ByteArray; FdTable, TcpServer; the HTTP machines, parsers, server and
   client; MySQLManager; proofs of Processer and Scheduler,
   CoSemaphore, TimerManager, Reactor and HookIO, LogThread, TcpServer,
   ByteArray, MySQLManager, and the read loops and the servlet table of HTTP.
2. Next modules: varint and zigzag operators against their arithmetic definition
   with the widths scaled down; `ConfigVar` listeners; `HookIO` over `FdTable`, so
   that the timeouts of `setsockopt` and reused numbers meet the retry loop.
3. Abstract specifications worth stating: a one-shot event (each wait ended by
   exactly one of event, timeout, close) implemented by `HookIO`; a FIFO log
   implemented by `LogThread`; a byte sequence with a cursor implemented by
   `ByteArray` for careful clients.
4. Theorems: the refinements of 3.
