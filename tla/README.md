# A TLA+ model of tyh-WebServer

This directory holds TLA+ specifications of the web server in `src/webserver`,
the configurations that check them with TLC, and proofs about them for TLAPS.
`PROJECT.json` lists the runs, the mutants each property is known to catch, the
source lines every definition stands for, the hazards and the theorems.

Run a check with `tlc -config EventLoop.cfg MCEventLoop` (any `.cfg` with its
`MC` module) and the proofs of a module with `tlapm EventLoop_proofs.tla` (any
`_proofs` module; the longest takes a few minutes).

## 1. The system

One base loop accepts clients and deals them out to io loops, one per thread.
An io loop polls with epoll (level triggered), calls the handlers of the ready
channels one after the other, then the functors other threads queued for it.
`TcpConnection` objects are pooled per loop and used again. The build defines
`NDEBUG`, so that assertions are not compiled, and runs without an idle limit
(`idleSec` is -5) unless one is given on the command line.

| Component | State | Operations | What is hard | What makes it correct |
| --- | --- | --- | --- | --- |
| EventLoop | `quit_`, `pendingFunctors_`, `callingPendingFunctors_`, `activeChannels_`, eventfd | `loop`, `queueInLoop`, `runInLoop`, `quit`, `wakeup`, `handleRead`, `doPendingFunctors` | the store and the eventfd write of another thread are two steps; functors queue functors | no lost wakeup, functors run in order and once, `quit` always works, descriptors are not starved |
| TimerQueue | `timers_`, `activeTimers_`, `cancelingTimers_`, timerfd | `addTimer`, `cancel`, `handleRead`, `reset` | callbacks add and cancel, addresses are used again, other threads call | the sets agree, each Timer has one owner, the alarm is set, a cancelled timer stays out, all fire |
| Channel, Epoller, connection pool, idle list | `events_`, `index_`, `channels_`, the kernel's interest list, free list, `activeConnections_`, `connectionTimeList_` | `getNextFreeConnection`, `handleClose`, `returnBackConnection`, `updateIdleTimeList`, `removeExpiredConnection`, `forceCloseWithDelay` | objects and descriptors are used again while events and timers for their former life are around | every descriptor has one owner, epoll agrees with the channels, only clients that left or were idle are closed |
| TcpConnection | `state_`, `inputBuffer_`, `outputBuffer_`, interest in EPOLLOUT | `handleRead`, `sendInLoop`, `handleWrite`, `shutdown`, `forceClose`, `handleClose` | partial writes, resets, shutdown with output pending | order; a message is lost only when it meets pending output, a full socket, an error or the close; the end of the stream comes last and comes |
| TcpServer, EventLoopThread(Pool), Thread | `loops_`, `next_`, `loop_`, the latch | `start`, `startLoop`, `threadFunc`, `handleNewConn`, `getNextLoop`, the destructors | a loop is published before its pool is filled and before it runs; `quit` may overtake `loop` | no NULL loop, no client without a pool, an even share for each loop, start and destruction end |
| HttpData | the parser's state, headers, path, reply | `parseRequest`, `onRequest`, `clearAllContent` | the object outlives requests and clients; reads cut requests anywhere | a request is answered by itself alone, the parser cannot spin |
| ThreadPool | the ring of tasks, `running_`, two condition variables | `run`, `take`, `stop` | a signal wakes one thread while others barge in | no lost signal, a bounded first-in first-out queue, `stop` returns |
| AsyncLogging | current, next and full buffers, two spares, `running_` | `append`, `threadFunc`, `stop` | four buffers change hands between two threads | no line lost, doubled or out of order except what is dropped on purpose, spares never null |
| LogFile, FileUtil | the file, `count_`, roll and flush times | `append`, `rollFile`, `flush` | size, time and count decide together; the clock may be set back | files sort by their names, a replaced file and a finished batch are on disk |
| Buffer | `readerIndex_`, `writerIndex_`, `len_`, `free_` | `append`, `retrieve`, `makeSpace`, `readFd` | index arithmetic with preallocation, a read that ends in a second piece of memory | indices stay in bounds, bytes keep their order, a NUL costs only the rest of its copy |
| WebBench | the parent's totals and pipe; each client's socket, alarm and counts | `bench`, `benchcore`, `Socket` | an alarm between any two steps; a server that closes or resets; processes that die | each request counted once, no socket left open, the parent's totals are the clients', the benchmark ends |

They interact by calls (TcpServer, TcpConnection and TimerQueue into their
EventLoop), by functors (`runInLoop` from the accepting thread and `addTimer`,
`cancel` from any thread), by callbacks (Channel to TcpConnection, TcpConnection
to HttpData) and by shared state under a mutex (`pendingFunctors_`, the ring,
the log buffers, `loop_`). AsyncLogging, with its LogFile, and ThreadPool stand beside the server; each
TcpConnection has two Buffers; WebBench is a program of its own, with which the
server was measured.
The handler compiled in is the echo of the throughput test; HttpData is the
handler for the HTTP test (TcpConnection.cc:131).

## 2. The modules

| Module | Models | With |
| --- | --- | --- |
| `EventLoop` | loop thread and callers, step by step | `SerialExecutor`, which it implements |
| `SerialExecutor` | what an EventLoop promises: an unbounded first-in first-out executor | |
| `TimerQueue` | timers, their sets, the timerfd; other threads through functors | relies on `EventLoop` for the functors |
| `IoLoop` | the connections of one io loop: Epoller, Channel, pool, idle list, close timers, accepting thread, clients | composes EventLoop's batch with TcpConnection's life |
| `TcpConnection` | the bytes of one connection between client and handler | |
| `Server` | start, accepting and destruction across threads | relies on `EventLoop` for each loop |
| `HttpData` | parser and replies of a pooled connection | |
| `ThreadPool` | the ring, the two conditions, `stop` | `TaskQueue`, which it implements |
| `TaskQueue` | a bounded first-in first-out queue of tasks | |
| `AsyncLogging` | front end, back end, `stop` | `LogFile`, whose actions are part of its own |
| `LogFile` | the files behind the log, their names, rolls and flushes under the wall clock | |
| `Buffer` | the memory and indices of a buffer | `ByteQueue`, which it implements |
| `ByteQueue` | what a buffer promises: a queue of bytes | |
| `WebBench` | the parent, its clients with their alarms, the pipe, and the server they call | |
| `..._proofs` | theorems about the module they are named after: `EventLoop`, `TimerQueue`, `IoLoop`, `TcpConnection`, `Server`, `ThreadPool`, `AsyncLogging` | |
| `Http_proofs` | theorems about `Buffer`, `HttpData` and `WebBench`: what a request is read into, what answers it, what asks | |
| `MC...` | the instances TLC checks | |

Variables keep the names of the members they stand for, without the trailing
underscore; actions keep the names of functions, or of the branch of a function
they are. A function that runs under a mutex, or on the loop thread with state
nobody else touches, is one action; where another thread can come in between
(the store and the write of `queueInLoop`, the test and the wait of a condition,
the swap and the calls of `doPendingFunctors`, the steps of `threadFunc`), there
is a step for each part. Operators with a suffix (`Quit_NoWakeup`) are mutants:
each shows that one property fails under a plausible bug. `Spec` is `SafeSpec`
with fairness, where there is any; in `HttpData` and `WebBench`, which `Http_proofs` extends
together, the names begin with `Handler` and `Bench` (`BenchSafeSpec`).

Abstractions that are made everywhere: a functor, task or line is a value; a
system call returns any result its manual allows that the code tells apart;
flags read without a lock are atomic, as they are on the platforms the Makefile
builds for; undefined behaviour ends a model in a phase of its own (`crashed`,
`killed`). By module:

* `EventLoop`: a handler or functor is the stretch between its call and
  `Return`, with any calls of `queueInLoop` and `quit` in it. Before `loop()`
  only other threads queue functors: the server's threads fill the connection
  pool there and queue nothing. Nothing relies on the 10 s timeout of `poll`.
* `TimerQueue`: the clock is a number of ticks; `interval_` is an `int` of
  seconds, so an interval below a second is cut to 0 and is due again at once,
  which the model does. `Timer::sqe_numCreated_` is unbounded.
* `IoLoop`: a tick is a second and the callbacks of a batch take less. The clock of
  the idle list, `gettimeofday`, may be set back, up to `MaxSetBack` seconds in
  all; `setBack` says how many it has been. `removeExpiredConnection` then meets
  connections that were heard of in the future, and has a branch for them. The
  timers are kept by the same clock; the alarm of the timerfd follows a monotonic
  one, and may ring whether a timer is due or not. All ready channels are reported at
  once, in any order. Bytes are left to `TcpConnection`; that a write after a reset
  raises SIGPIPE, which ends the process (`killed`), is in both.
* `TcpConnection`: data are numbered units, each read, written and kept as a whole;
  what NULs do to a unit is the subject of `Buffer`. The handler is the echo.
* `Server`: descriptors are numbers because the limit `maxFds_` compares them;
  `pthread_create` succeeds, `fcntl` need not: the client is then lost with its
  descriptor and the turn of its loop. Nothing but the destructor makes an io loop
  quit. `quit()` is two steps, the store and then the rest, which reads the
  EventLoop again. It lives on the stack of the thread that was told to stop: if
  that is gone the read is undefined, and the model lets it do no harm (the memory
  is mapped until the join, and the write goes to a descriptor that is closed) or
  end the process (`crashed`). With 0 threads the base loop serves and has no pool:
  its first client is taken from a null pointer (`noPool`).
* `HttpData`: a read is a request line, header lines and whether they end.
  What follows the first request of a read is dropped by the code. The text of a
  reply is left out: that `append` cuts a body with NULs is to be seen in `Buffer`.
* `ThreadPool`: tasks do not call `run()`; the queue size is positive.
* `AsyncLogging`: `MaxBatch` stands for the 25 of the code.
* `LogFile`: sizes are counted in lines and `count_` only up to `flushEveryN_`,
  above which its value makes no difference. A file is its second of opening,
  which is the part of its name that changes. Writes to the disk do not fail:
  `AppendFile::append`, which after a second short write would go on from the
  wrong place (FileUtil.cc:27), is one step. "On disk" means given to the system.
* `Buffer`: bytes are numbered, but for the NULs, which are anywhere in the stream.
  `append` copies with `strncpy`, which stops at a NUL and puts NULs in the place
  of what is behind it; `readv` and the part of a read that fits copy as they are.
  New memory holds junk. The size of a new buffer is `KInitialSize`: nothing passes
  another one, with which the constructor would allocate less than `len_` says.
* `WebBench`: a request is its version and its `Connection` header, the two things
  that decide who closes the connection; an answer comes in one part or several.
  Bytes are not counted. The kernel is Linux. A connection the server has closed
  is `ended`: a write succeeds and brings a reset, which may also come of itself;
  then it is `broken`, a write raises SIGPIPE and `shutdown` fails. A connection
  that is `reset` without having been closed reports that to the first call after
  it. An answer that has come stays readable. `close` and the small `write` do not
  fail or block by themselves. `-k` with HTTP/1.0, the default, is not a command line
  of its own: its clients take the steps of HTTP/1.1 before a server that closes.
  `fdopen` succeeds. A negative number of clients, for which the parent would take
  itself for a client, is excluded by the assumption.

## 3. The runs

| Run | Instance | Shows |
| --- | --- | --- |
| `event_loop` | 2 threads, 3 functors, 1 descriptor | `NeverSleepsOnWork`, `ImplementsExecutor`, `LoopServes` |
| `timer_queue` | 2 addresses, 3 timers, 1 other thread, 2 ticks a second | `TimersConsistent`, `CancelledStaysOut`, `RunsInTime`, `TimersFire` |
| `io_loop` | 2 objects (one pooled), 2 descriptors, no idle limit | `PoolConsistent`, `EpollInStep`, `ClosesOnlyIdleOrLeft`, `LeftClientsAreClosed` |
| `io_loop_idle` | the same, idle limit 1 s, 2 s of time, the clock set back by up to 1 s | `DescriptorsOwned`, `IdleOnesEnd` |
| `io_loop_reuse` | the same, timers of 1 s to close, 3 s of time | **violated**: `ClosesOnlyIdleOrLeft` |
| `tcp_connection` | 5 units, send buffer of 2 | `OrderKept`, `WritingIffOutput`, `FinIsLast`, `DropsOnlyWhenFull`, `ShutdownCompletes` |
| `server` | 0, 1 or 2 io threads, 4 clients, descriptor limit | `Handover`, `ServesAndStops` |
| `http_data` | 2 clients of one object, about 100 reads | `AnswersItsRequest`, `EveryReadIsHandled` |
| `thread_pool` | 2 workers, 2 callers, 2 slots | `NoSignalLost`, `ImplementsQueue`, `PoolServes` |
| `async_logging` | 2 lines a buffer, batches up to 2, 6 lines; files of 2 lines, periods of 4 s, 4 s of time | `LogComplete`, `FilesReadable`, `BackEndReady`, `LogServes` |
| `buffer` | 2 bytes at first, up to 9 written, the third and the seventh NUL | `BufferSound`, `ImplementsByteQueue` |
| `web_bench` | 2 clients, 2 requests each, 2 sockets each, 4 command lines | `TripsSettled`, `BenchEnds` |

Each passing run but `io_loop_idle`, `http_data`, `buffer` and `web_bench` also
checks the type invariant of its module (`BufferSound` contains that of `Buffer`).

Why the bounds suffice for the cases in question:

* `event_loop`: three functors allow one running, one in the batch and one
  pending; of two threads one can queue while the other quits.
* `timer_queue`: three timers at two addresses use an address again while
  another timer is live; the intervals are none, one cut to 0, one of a second.
* `io_loop*`: each object meets each descriptor before and after the other used
  it, and one object is constructed on demand. In `io_loop_idle` two seconds
  let a connection expire, be told to shut down, and be closed by its timer, which
  has no delay there, and one second of setting back puts later connections behind
  earlier ones with a larger time, and connections in the future. That a connection
  that is idle by more than `idleSeconds + setBack` is found is out of reach of these
  bounds once the clock has been set back, and is left to the proof. Descriptors
  are symmetric there; the run has no liveness property. Without an idle limit
  (`io_loop`) nothing reads the clock, and it stands still.
* `tcp_connection`: five units over a buffer of two give partial writes, output
  that waits while more input comes, and drops.
* `server`: the second accepted client has the last descriptor below the limit,
  the next is refused, and a descriptor closed by one loop is given to the other,
  or lost for good. With four clients the turns come round twice.
* `http_data`: reads are whole requests, requests cut after each line, and lines
  that fail in each way, with `Connection` given twice; the third object life
  would start in a state the second started in.
* `thread_pool`: with two slots the ring wraps around, is full and empty with
  head equal to tail, and threads of both kinds are asleep at the same time.
* `async_logging`: six lines are three buffers and more, so a batch exceeds the
  limit, and the spares make two rounds. Empty batches count as calls of `append`
  too, so that every branch of it is taken: a file is replaced for its size, for
  a new period, and not at all because one was opened in the same second or the
  clock was set back; in a period of four seconds a file is also flushed because two
  have passed.
* `buffer`: nine bytes grow the block on both sides of `KMaxPreAlloc`, and reads
  end in the room, fill it, and go on in `extrabuf`, with the indices at and
  behind the beginning. The two NULs meet the beginning, the middle and the end of
  a call, alone or together, and both parts of a read.
* `web_bench`: the second request of a keep-alive client meets a connection that
  the server has closed, has reset, or that the client has closed itself; two
  sockets are one that leaks and one to work with, or two that leak. The command
  lines are `-k` with HTTP/1.1, HTTP/0.9, a method that needs HTTP/1.1, and `-f`.

Fairness. Weak fairness only: a thread that can go on goes on (the scheduler), a
mutex is got in the end, `epoll_wait` returns when a descriptor it watches is
ready, `waitForSeconds` returns in the end, time passes, handlers and tasks
return. (`waitForSeconds` waits for a time of the wall clock, Condition.h:27: that it
returns supposes that this is not set back again and again.) Clients need not send, close or connect; a client that was sent data
reads it (`ShutdownCompletes`); no caller has to call anything; no condition
variable wakes a thread without a signal; the wall clock need not move.
`web_bench` is about a server that is up: it answers, closes what it need not
keep, and a client that calls again and again is accepted in the end, which is
the one strong fairness. Alarms ring: that is the kernel's promise.

`CHECK_DEADLOCK FALSE` stands where the system may stop: after `quit`, `stop` or
the destruction of the server, when a connection has ended, or at the bound of a
clock or a counter, or dead of SIGPIPE or of undefined behaviour.

### What the violation shows, and what else the models do

* `io_loop_reuse`: nothing cancels the timer of `forceCloseWithDelay`. When the
  client leaves first and the object is given to another client, the timer closes
  that one.

Behaviour of the code that the models have and the properties are stated around:

* `addTimer` passes the Timer to the loop thread and then reads its sequence
  number (TimerQueue.cc:48). Called from another thread, it can read a Timer that
  has been run and deleted; `TimersConsistent` holds for the TimerId that gives.
* `sendInLoop` keeps the rest of a write that took something, if no output was
  pending before; a message that meets pending output or a full send buffer is
  dropped on a connection that stays up (TcpConnection.cc:52, 77), and so is one
  that meets older output when the socket has room again, since the read callback
  runs before the write callback. `DropsOnlyWhenFull` says that nothing else is
  dropped; the echo of a client that sends without waiting is not complete.
  A client that closes only its sending side loses the output still pending.
* The readable bytes of a Buffer are not always the bytes written: `append` copies
  with `strncpy` (Buffer.h:110). A message with a NUL is changed in the echo where a
  part of it goes through `extrabuf` (Buffer.cc:39) or must wait for the socket
  (TcpConnection.cc:79). The server appends NULs itself: the body of `/favicon.ico`
  is NULs from its ninth byte on (HttpData.cc:149, 204). `ByteQueue`
  promises no more than what holds: `Put` cuts the copied part of what it puts in.
* `quit()` may read an EventLoop that is gone, as above; the comment in
  EventLoopThread.cc:21-22 says "not 100% race safe". `ServesAndStops` names this
  end, and `PoolFirst` the server without io threads that dies of its first client.
* Every interval is cut to whole seconds (Timer.h:48): one of half a second makes
  a timer that is always due. `TimersFire` is about the interval that is left.
* An idle connection is closed late by as much as the clock was set back meanwhile;
  the list is then out of order by no more than that (`IdleOnesEnd`).
* `stop()` of ThreadPool leaves callers asleep in `run()` and tasks in the queue;
  `stop()` of AsyncLogging leaves the lines since the last swap unwritten.
* A keep-alive client of WebBench is killed by SIGPIPE when the server closes its
  connection and it writes twice after that, any client when the server closes and
  resets a connection before it has written at all; `-k` without `-2` asks for nothing
  else, since HTTP/1.0 requests get no `Connection` header. The parent has the
  writing end of the pipe open, does not see that a client died, and waits
  forever: "Some of our childrens died." (webbench.c:430) is never printed.
* A keep-alive client that cannot connect retries without looking at the time
  and loses a descriptor with each failure (socket.c:60), until it has none left.
* A connection that ends without an answer counts as a success. The failure that
  is taken back at the end need not be the one the alarm caused.
* The exit status of WebBench is the speed the last client reported
  (webbench.c:452), though line 11 has 0 for success. No property is about it.

With an idle limit, a close timer can close a connection whose event of the same
batch is still to be handled; its handler then splices an erased list element
(EventLoop.cc:151). `IoLoop` ends such a behaviour in the phase `crashed`.

## 4. The proofs

`EventLoop_proofs.tla`, for any sets of threads, functors and channels, assuming
only that the wakeup channel and `None` are none of the others:

* `TypeCorrect`: `SafeSpec => []TypeOK`.
* `NoLostWakeup`: `SafeSpec => []NeverSleepsOnWork`. The property speaks of the
  loop only while it is in `poll()`, and is not inductive: whether the loop may
  go there is decided earlier. The inductive invariant is `IInv`: the types, and
  - `MissedSwapAnnounced`: from the swap of an iteration until the next `poll`,
    a functor that is pending has been announced (the eventfd is readable, or a
    thread is about to write it);
  - `MissedQuitAnnounced`: `quit_` set after the test of the `while` is announced.
  Another thread always announces; the loop thread itself announces when
  `callingPendingFunctors_` is set, and otherwise calls before the swap. Only
  `handleRead` withdraws an announcement, and it runs before the swap.
* `LoopImplementsExecutor`: `SafeSpec => Executor!SafeSpec`. The executor's queue
  is the rest of the batch followed by `pendingFunctors_`; each step maps to
  submitting, starting, finishing, stopping, or to a stutter. The lemmas
  `ConcatAppend` and `ConcatHeadTail` say what the concatenation does.

`Http_proofs.tla` has three parts, one about each of `Buffer`, `HttpData` and
`WebBench`; a theorem is about the specification of one of them and uses the
assumptions on its constants only.

The first part, about `Buffer`, for every initial size, `kMaxPreAlloc`, size of
`extrabuf` and bound on what is written, all of them natural numbers:

* `BufferSafe`: `Spec => []BufferSound`. The property is inductive as it stands:
  it relates the two indices, `len_`, `free_` and the allocation.
* `BufferIsByteQueue`: `Spec => ImplementsByteQueue`, with NULs at any places of the
  stream. Both ways of putting bytes in amount to `Grown(n, data)`: the indices have
  moved by n, and in whatever memory the block is now, `data` stands behind what was
  there (`StoredHolds`, `AppendHolds`, `HoldsBehind`). This is a piece of the stream
  of which the first k bytes are as they were and the rest is cut at its first NUL
  (`Piece(k, n)`): an append cuts all, a read what did not fit. A window of such
  memory is the old window with the piece behind it (`WindowAppend`), so the step is
  a `Put(n, k)`; a `retrieve` moves the window's start, a `Get`.

The second part, about `HttpData`, for any paths, any number of clients, and any
reads with a request line of `RequestLines` or none and any finite sequence of
headers:

* `RequestsGetTheirAnswers`: `HandlerSafeSpec => []AnswersItsRequest`. The property
  speaks of the handler only when it has answered. `HandlerIInv` says what leads
  there. Between two calls nothing is left that decides an answer (`Forgotten`,
  which `clearAllContent` is there for). While it parses it has either taken
  nothing, or a request line and the first k headers of this read, with the value
  of the last `Connection` among them, and what it has not taken is what follows
  (`HasRead`, `LeftAfter`). If the read is a complete request it gets to the answer
  with all headers (`NoMoreKeeps`: nothing else leaves the loop), and the answer is
  then made of this request alone (`Answered`). A header that is taken moves k on by
  one, and may replace the value (`NextHeader`); `WishIs` turns the value held
  after the last one into what the property says of the read. Reads that are cut
  or malformed may do anything but leave something behind.

The third part, about `WebBench`, for any number of clients above zero, any command
lines, any limit on descriptors and any bound on trips:

* `BenchmarkIsReliable`: `BenchSafeSpec => []TripsSettled`. `BenchIInv` adds to the
  parts of the property where a client may have a connection (`ClientFacts`: none
  where it is about to get one; `OneShotFacts`: without `-k` none at the head of the
  loop) and, in
  `TotalsFacts`, a count: as many clients have exited as there are reports in the
  pipe or taken off `left`. The parent stops at `left = 0`, and then all have
  exited. The totals are sums over sets and over the pipe. What `SumFunction`
  computes is shown in a section of its own, up to two facts: any element can be taken
  out of a sum (`SumWithout`), and summing from the second element on is summing
  what follows each (`SumShift`). A report is then added at one end of the pipe
  (`SumExtended`) and taken from the other (`SumShortened`) without a change of the
  whole. Every other step leaves the clients that exited, and their counts, alone
  (`ClientStepKeeps`).

`Server_proofs.tla`, for any number of io threads, 0 included, and any limits on
clients and descriptors:

* `ServerTypes`: `SafeSpec => []TypeOK`.
* `ServerHandsOver`: `SafeSpec => []Handover`. The three parts of the property
  look at one moment; `IInv` adds what leads there: `loops_` is as long as
  `start` has come (`LoopsSoFar`), a thread's `loop_` is its own or NULL
  (`OwnLoop`), the pool is filled in every phase of a thread in which it polls
  (`PoolFilled`), each turn, of a client handed over or
  lost, was one that arrived (`TurnsArrived`).
  The even share follows from where `next_` is: `RoundRobin` says that the loops
  before it are one client ahead of the others.

`ThreadPool_proofs.tla`, for finite sets of workers and callers, any tasks and any
size of the ring above zero:

* `PoolTypes`: `SafeSpec => []TypeOK`.
* `PoolLosesNoSignal`: `SafeSpec => []NoSignalLost`. With the types and
  `TaskIffExecuting`, the property is inductive: it counts the workers that are
  awake against the tasks queued, and the callers that are awake against the free
  slots, so that each step moves both sides by at most one. A thread that takes a
  task without having slept leaves the worker that was woken for it awake.
* `PoolIsTaskQueue`: `SafeSpec => ImplementsQueue`. `RingShape` ties head, tail and
  `currentSize_` together, `SlotsHoldTasks` says what the slots between head and
  tail hold. The lemmas about `Queue` show that a `Put` appends and a `Take`
  removes the first, wherever the ring wraps around.

`TimerQueue_proofs.tla`, for any addresses, delays, intervals and threads, and any
bound on time and on the number of timers:

* `TimersTyped`: `SafeSpec => []TypeOK`.
* `TimersStayConsistent`: `SafeSpec => []TimersConsistent`. `OneOwner` is a
  count; `IInv` states it by places (`Held`, `OnePlace`, `OneFunctor`: a live
  Timer is with a thread in `addTimer`, in one queued functor, in `timers_`, or in
  the batch, and in one of these), and the count is derived. `AlarmBefore`
  strengthens `AlarmSet` for the time in which the batch is running.
* `CancelledStay`: `SafeSpec => []CancelledStaysOut`. `Marked`: the Timer of a
  cancelled timer that is still alive under its number is in the batch, with its
  address in `cancelingTimers_`.
* `TimersRunInTime`: `SafeSpec => RunsInTime`, an action property. `BatchDue`: what
  is left of the batch is due and not after anything in `timers_`; `RunOnce`: what
  has run and does not repeat is not waiting anywhere.

`AsyncLogging_proofs.tla`, for any size of the buffers, any limit of a batch from 2
up, any size and period of the files and any bound on lines and time:

* `LogTyped`: `SafeSpec => []TypeOK`; the types include those of `LogFile`.
* `BackEndAlwaysReady`: `SafeSpec => []BackEndReady`. A spare that has been given
  away comes back because the batch has a buffer for it (`BatchInHand`).
* `LogIsComplete`: `SafeSpec => []LogComplete`. What is in order is the
  concatenation of files, batch, full buffers and current buffer. The proof needs
  what `FlattenSeq` computes for sequences of every length; no theorem with an
  operator parameter is used for it: a set of sequences that is not all of them
  lacks a shortest one (`LeastNumber`, `InductiveOnSequences`), and
  each fact about `FlattenSeq` is an instance of that. Then every step either
  leaves the concatenation alone, appends the next line, or cuts out what it adds
  to `dropped`.
* `LogFilesReadable`: `SafeSpec => []FilesReadable`. `FilesKept`: the
  last file is the one of the last roll, with which `rollFile` compares the clock,
  and everything is on disk unless a batch is being written.

`TcpConnection_proofs.tla`, for any number of units, any send buffer above zero and
any window:

* `TcpTyped`, `WritesWhileOutput`: `SafeSpec => []TypeOK` and
  `SafeSpec => []WritingIffOutput`.
* `UnitsKeepOrder`: `SafeSpec => []OrderKept`. The property is about five queues in
  a row. `SentSoFar` (only what has been sent is in it) makes the next unit greater than all
  others. Each action is shown to be a `UnitStep`: it leaves the row as it is while
  units move from queue to queue, appends the next unit, or loses some from the
  middle (`ChainReads`, `ChainSends`, `ChainLoses`).
* `DropsOnlyThen`: `SafeSpec => DropsOnlyWhenFull`, since a `UnitStep` that loses
  units names the reason.
* `EndOfStreamLast`: `SafeSpec => FinIsLast`, from `FinAfterOutput`: after the end of
  the stream there is no output and the state is not `KConnected`, so that
  `sendInLoop` is not called again.

`IoLoop_proofs.tla`, for any sets of objects and descriptors, any pool and idle
limit, assuming that the timer's channel and `None` are no connections and that -1
is no descriptor:

* `LoopTyped`: `SafeSpec => []TypeOK`.
* `PoolStaysConsistent`, `EpollStaysInStep`, `DescriptorsHaveOwners`,
  `IdleOnesAreFound`: the invariants of the same names. They need each other, and
  are proved of one `IInv`: an object is as its place says (`PoolShape`), no two
  active ones share a descriptor (`OneOwner`), the kernel and `channels_` name the
  owner (`Watched`), an open descriptor waits in one functor or has an owner
  (`Handed`), nobody was heard further in the future than the clock has been set back
  (`HeardBefore`), so that moving a connection to the end leaves the idle list sorted
  up to that much, and the callbacks of a batch
  speak of connections that are still active (`TurnOfTheLoop`; otherwise the
  behaviour has ended in `crashed`). `CHOOSE` in `EpollMatchesChannels` and the
  counts in `DescriptorsOwned` are derived from these.
  `IdleOnesEnd` speaks of a clock that may be set back any number of times:
  `setBack` is what it may lag behind, in the order of the list, in finding a
  connection (`OldOnesWalked`: those in front of it are too old as well, for they were not
  heard of later by more than that), and in the timers that are set (`RemoverSet`, `ShutdownsEnd`). `IdleJump` is about
  the clock being set, `ClockCatchesUp` about its going on.
* `ClosesOnlyLeft`: without an idle limit, `SafeSpec => ClosesOnlyIdleOrLeft`. The
  hypothesis is the default of the server (`idleSec` is -5); with an idle limit the
  property is false, which is what `io_loop_reuse` shows. `NoTimers` is what the
  hypothesis gives: no close timer exists that could outlive its client.

Every safety invariant that a passing run checks is proved. Only model-checked is
all liveness (fairness and ENABLED are out of the provers' reach): `LoopServes`,
`TimersFire`, `LeftClientsAreClosed`, `ShutdownCompletes`, `ServesAndStops`,
`EveryReadIsHandled`, `PoolServes`, `LogServes`, `BenchEnds`, and the liveness
half of `ImplementsExecutor`. TLC has also checked `HandlerIInv` and
`BenchIInv`, as it has every inductive invariant, on the instances of the runs.

No module uses a recursive operator. The two facts about data of every size, what
`FlattenSeq` and what `SumFunction` compute, are proved by induction over a set:
the sequences, or subsets, of which a fact does not hold would have a smallest one
(`LeastNumber`, `SubsetInduction`).

## 5. Plan

In this order; all of it is done.

1. `EventLoop` with `SerialExecutor` and its proofs.
2. `TimerQueue`. 3. `IoLoop`. 4. `TcpConnection`. 5. `ThreadPool` with
   `TaskQueue`. 6. `AsyncLogging`. 7. `Server` and `HttpData`.
8. `LogFile` behind `AsyncLogging`. 9. `Buffer` with `ByteQueue` and
   their proofs. 10. `WebBench`.
11. The proofs about `Server`, `ThreadPool`, `TimerQueue`, `AsyncLogging`,
    `TcpConnection` and `IoLoop`.
12. The proof about `HttpData`, from what the parser's members hold in each state
    of the automaton. 13. The proof about `WebBench`.
14. What the environment may do besides: NULs in the stream, a clock that is set
    back, `quit()` in two steps, no io threads, a failing `fcntl`, resets after a
    close, with the proofs about them.

Not modelled: formatting of log lines and replies, address conversions, the
helper types of `base/` without a protocol, the text of WebBench's requests and
its count of bytes, `HTTPClient` (a test client), the tests.
