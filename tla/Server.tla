-------------------------------- MODULE Server --------------------------------
(***************************************************************************)
(* The life of the server (TcpServer.cc, EventLoopThreadPool.cc,           *)
(* EventLoopThread.cc, base/Thread.cc): the main thread starts the io      *)
(* threads one after the other, then accepts clients and hands each to the *)
(* next io loop, and in the end destroys the pool, which joins the threads.*)
(*                                                                         *)
(* An io thread publishes its loop before the loop's connection pool is    *)
(* filled and before loop() runs, so that clients, and quit(), may come    *)
(* before either.  What loop() does with a functor is EventLoop.tla: here  *)
(* an io loop is the serial executor of SerialExecutor.tla.                *)
(***************************************************************************)
EXTENDS Integers, Sequences, Functions

CONSTANTS
    MaxThreads,     \* bound on the number of io threads
    maxFds,         \* maxFds_
    FdLimit,        \* the descriptors of the process are 1..FdLimit
    MaxClients,     \* bound: so many clients connect
    NULL

ASSUME ConstantsAssumption ==
    /\ MaxThreads \in Nat
    /\ maxFds \in Nat /\ FdLimit \in Nat /\ MaxClients \in Nat
    /\ NULL \notin 1..MaxThreads

Threads == 1..MaxThreads
Fds == 1..FdLimit

VARIABLES
    main,       \* where the main thread is
    turn,       \* the EventLoopThread it starts or destroys
    loops,      \* loops_
    numThreads, \* numThreads_, from the command line: 0 is allowed
    next,       \* next_, counted from 1
    backlog,    \* clients that wait in the listening socket
    arrived,    \* clients that have connected
    thread,     \* where each io thread is
    loop,       \* loop_ of each EventLoopThread
    pool,       \* has the loop filled its connection pool?
    quit,       \* quit_ of each io loop
    queue,      \* the descriptors handed to it, as functors
    conns,      \* the descriptors of its connections
    handed,     \* how many it was handed in all
    lost,       \* how many were lost when it was its turn
    leaked      \* the descriptors of those

mainVars == <<main, turn, loops>>
acceptVars == <<numThreads, next, backlog, arrived, handed, lost, leaked>>
vars == <<mainVars, acceptVars, thread, loop, pool, quit, queue, conns>>

Init ==
    /\ main = "spawn"
    /\ turn = 1
    /\ loops = <<>>
    /\ numThreads \in 0..MaxThreads
    /\ next = 1
    /\ backlog = 0
    /\ arrived = 0
    /\ thread = [t \in Threads |-> "none"]
    /\ loop = [t \in Threads |-> NULL]
    /\ pool = [t \in Threads |-> FALSE]
    /\ quit = [t \in Threads |-> FALSE]
    /\ queue = [t \in Threads |-> <<>>]
    /\ conns = [t \in Threads |-> {}]
    /\ handed = [t \in Threads |-> 0]
    /\ lost = [t \in Threads |-> 0]
    /\ leaked = {}

IoThreads == 1..numThreads

\* The process has not died of an access to what is not there: the pool of the
\* base loop, or an EventLoop that is destroyed.
Alive == main \notin {"noPool", "crashed"}

-----------------------------------------------------------------------------
(* The main thread: EventLoopThreadPool::start.                             *)

\* Thread::start up to pthread_create.
StartThread ==
    /\ main = "spawn" /\ turn \in IoThreads
    /\ thread' = [thread EXCEPT ![turn] = "created"]
    /\ main' = "latch"
    /\ UNCHANGED <<turn, loops, acceptVars, loop, pool, quit, queue, conns>>

\* latch_.wait() in Thread::start.
LatchPassed ==
    /\ main = "latch" /\ thread[turn] # "created"
    /\ main' = "test"
    /\ UNCHANGED <<turn, loops, acceptVars, thread, loop, pool, quit, queue, conns>>

\* startLoop returns what loop_ is, without waiting.
WaitsFor_Nothing(t) == FALSE

WaitsFor(t) == loop[t] = NULL

\* startLoop with mutex_ held: it waits while loop_ is NULL.
TestLoop ==
    /\ main = "test"
    /\ IF WaitsFor(turn)
          THEN main' = "wait" /\ UNCHANGED <<turn, loops>>
          ELSE /\ loops' = Append(loops, loop[turn])
               /\ turn' = turn + 1
               /\ main' = "spawn"
    /\ UNCHANGED <<acceptVars, thread, loop, pool, quit, queue, conns>>

SpuriousWakeup ==
    /\ main = "wait"
    /\ main' = "test"
    /\ UNCHANGED <<turn, loops, acceptVars, thread, loop, pool, quit, queue, conns>>

\* All threads are started: the listening channel goes into the base loop.
Serve ==
    /\ main = "spawn" /\ turn = numThreads + 1
    /\ main' = "serving"
    /\ UNCHANGED <<turn, loops, acceptVars, thread, loop, pool, quit, queue, conns>>

-----------------------------------------------------------------------------
(* The main thread: TcpServer::handleNewConn.                               *)

Connect ==
    /\ Alive /\ arrived < MaxClients
    /\ arrived' = arrived + 1
    /\ backlog' = backlog + 1
    /\ UNCHANGED <<mainVars, numThreads, next, handed, lost, leaked,
                   thread, loop, pool, quit, queue, conns>>

Open == leaked \cup UNION {conns[t] \cup Range(queue[t]) : t \in Threads}

\* accept(2) returns the lowest descriptor that is not in use.
Lowest(fd) == fd \in Fds \ Open /\ \A g \in 1..(fd - 1) : g \in Open

\* The next client has the descriptor fd.
Accepted(fd) ==
    /\ main = "serving" /\ backlog > 0
    /\ Lowest(fd)
    /\ backlog' = backlog - 1
    /\ UNCHANGED <<turn, loops, numThreads, arrived, thread, loop, pool, quit, conns>>

\* A descriptor at the limit is closed again.
Refuse(fd) ==
    /\ Accepted(fd) /\ fd >= maxFds
    /\ UNCHANGED <<main, next, handed, lost, leaked, queue>>

Advance_NoModulo == next + 1

Advance == (next % numThreads) + 1

\* getNextLoop and, with runInLoop, getNextFreeConnection of an io loop.
HandOver(fd) ==
    /\ Accepted(fd) /\ fd < maxFds /\ loops # <<>>
    /\ queue' = [queue EXCEPT ![loops[next]] = Append(@, fd)]
    /\ handed' = [handed EXCEPT ![loops[next]] = @ + 1]
    /\ next' = Advance
    /\ UNCHANGED <<main, lost, leaked>>

\* Without io loops it is the base loop, which calls getNextFreeConnection at
\* once: it never filled a pool, and freeTcpConnection_ is NULL.
TakeItself(fd) ==
    /\ Accepted(fd) /\ fd < maxFds /\ loops = <<>>
    /\ main' = "noPool"
    /\ UNCHANGED <<next, handed, lost, leaked, queue>>

\* setSocketNonBlocking fails: the turn has passed, and nobody has the descriptor.
LoseClient(fd) ==
    /\ Accepted(fd) /\ fd < maxFds
    /\ leaked' = leaked \cup {fd}
    /\ IF loops = <<>>
          THEN UNCHANGED <<next, lost>>
          ELSE /\ next' = Advance
               /\ lost' = [lost EXCEPT ![loops[next]] = @ + 1]
    /\ UNCHANGED <<main, handed, queue>>

HandleNewConn(fd) == Refuse(fd) \/ HandOver(fd) \/ TakeItself(fd) \/ LoseClient(fd)

-----------------------------------------------------------------------------
(* The main thread: the base loop has returned and the server is destroyed. *)

BaseLoopReturns ==
    /\ main = "serving"
    /\ main' = "destroy"
    /\ turn' = 1
    /\ UNCHANGED <<loops, acceptVars, thread, loop, pool, quit, queue, conns>>

\* ~EventLoopThread, up to the store of quit().
Destroy ==
    /\ main = "destroy" /\ turn \in IoThreads
    /\ IF loop[turn] # NULL
          THEN /\ quit' = [quit EXCEPT ![turn] = TRUE]
               /\ main' = "wakeup" /\ UNCHANGED turn
          ELSE turn' = turn + 1 /\ UNCHANGED <<main, quit>>
    /\ UNCHANGED <<loops, acceptVars, thread, loop, pool, queue, conns>>

\* The rest of quit() reads the EventLoop, which is on the stack of the thread
\* it stops and is gone if that has seen quit_ and returned.
Wakeup ==
    /\ main = "wakeup"
    /\ main' \in IF thread[turn] = "exited" THEN {"join", "crashed"} ELSE {"join"}
    /\ UNCHANGED <<turn, loops, acceptVars, thread, loop, pool, quit, queue, conns>>

Join ==
    /\ main = "join" /\ thread[turn] = "exited"
    /\ turn' = turn + 1
    /\ main' = "destroy"
    /\ UNCHANGED <<loops, acceptVars, thread, loop, pool, quit, queue, conns>>

Destroyed ==
    /\ main = "destroy" /\ turn = numThreads + 1
    /\ main' = "done"
    /\ UNCHANGED <<turn, loops, acceptVars, thread, loop, pool, quit, queue, conns>>

-----------------------------------------------------------------------------
(* An io thread: Thread's runInThread and EventLoopThread::threadFunc.      *)

CountDown(t) ==
    /\ thread[t] = "created"
    /\ thread' = [thread EXCEPT ![t] = "constructing"]
    /\ UNCHANGED <<mainVars, acceptVars, loop, pool, quit, queue, conns>>

\* loop_ is set and cond_ notified with mutex_ held.
Publish(t) ==
    /\ thread[t] = "constructing"
    /\ loop' = [loop EXCEPT ![t] = t]
    /\ main' = IF main = "wait" /\ turn = t THEN "test" ELSE main
    /\ thread' = [thread EXCEPT ![t] = "published"]
    /\ UNCHANGED <<turn, loops, acceptVars, pool, quit, queue, conns>>

InitConnectionPool(t) ==
    /\ thread[t] = "published"
    /\ pool' = [pool EXCEPT ![t] = TRUE]
    /\ thread' = [thread EXCEPT ![t] = "filled"]
    /\ UNCHANGED <<mainVars, acceptVars, loop, quit, queue, conns>>

\* loop() forgets a quit() that came before it.
EnterLoop_ResetsQuit(t) ==
    /\ thread[t] = "filled"
    /\ quit' = [quit EXCEPT ![t] = FALSE]
    /\ thread' = [thread EXCEPT ![t] = "looping"]
    /\ UNCHANGED <<mainVars, acceptVars, loop, pool, queue, conns>>

EnterLoop(t) ==
    /\ thread[t] = "filled"
    /\ thread' = [thread EXCEPT ![t] = "looping"]
    /\ UNCHANGED <<mainVars, acceptVars, loop, pool, quit, queue, conns>>

\* A functor runs: getNextFreeConnection.
GetNextFreeConnection(t) ==
    /\ thread[t] = "looping" /\ queue[t] # <<>>
    /\ conns' = [conns EXCEPT ![t] = @ \cup {Head(queue[t])}]
    /\ queue' = [queue EXCEPT ![t] = Tail(@)]
    /\ UNCHANGED <<mainVars, acceptVars, thread, loop, pool, quit>>

\* handleClose of one of its connections.
CloseConnection(t, fd) ==
    /\ Alive /\ thread[t] = "looping" /\ fd \in conns[t]
    /\ conns' = [conns EXCEPT ![t] = @ \ {fd}]
    /\ UNCHANGED <<mainVars, acceptVars, thread, loop, pool, quit, queue>>

\* loop() returns after quit(), with functors still queued or not.
LeaveLoop(t) ==
    /\ thread[t] = "looping" /\ quit[t]
    /\ thread' = [thread EXCEPT ![t] = "left"]
    /\ UNCHANGED <<mainVars, acceptVars, loop, pool, quit, queue, conns>>

\* loop_ is cleared without mutex_, the EventLoop destroyed, and the thread ends.
Exit(t) ==
    /\ thread[t] = "left"
    /\ loop' = [loop EXCEPT ![t] = NULL]
    /\ thread' = [thread EXCEPT ![t] = "exited"]
    /\ UNCHANGED <<mainVars, acceptVars, pool, quit, queue, conns>>

-----------------------------------------------------------------------------

MainStep ==
    \/ StartThread \/ LatchPassed \/ TestLoop \/ Serve
    \/ \E fd \in Fds : HandleNewConn(fd)
    \/ Destroy \/ Wakeup \/ Join \/ Destroyed

ThreadStep(t) ==
    /\ Alive
    /\ \/ CountDown(t) \/ Publish(t) \/ InitConnectionPool(t) \/ EnterLoop(t)
       \/ GetNextFreeConnection(t) \/ LeaveLoop(t) \/ Exit(t)

Next ==
    \/ MainStep
    \/ SpuriousWakeup
    \/ Connect
    \/ BaseLoopReturns
    \/ \E t \in Threads : ThreadStep(t)
    \/ \E t \in Threads, fd \in Fds : CloseConnection(t, fd)

SafeSpec == Init /\ [][Next]_vars

(* Fairness.  The threads run.  A condition variable need not wake anybody  *)
(* who was not notified, clients need not come, and connections may stay.   *)
(* An io loop runs its functors and sees quit_ (EventLoop.tla).             *)
Spec ==
    /\ SafeSpec
    /\ WF_vars(MainStep)
    /\ \A t \in Threads : WF_vars(ThreadStep(t))

-----------------------------------------------------------------------------

\* The variables have their types; next_ is a position of loops_.
TypeOK ==
    /\ main \in {"spawn", "latch", "test", "wait", "serving", "noPool", "destroy",
                 "wakeup", "crashed", "join", "done"}
    /\ numThreads \in 0..MaxThreads
    /\ turn \in 1..(numThreads + 1)
    /\ loops \in Seq(Threads \cup {NULL})
    /\ next \in IoThreads \cup {1}
    /\ backlog \in 0..arrived /\ arrived \in 0..MaxClients
    /\ thread \in [Threads -> {"none", "created", "constructing", "published",
                               "filled", "looping", "left", "exited"}]
    /\ loop \in [Threads -> Threads \cup {NULL}]
    /\ pool \in [Threads -> BOOLEAN]
    /\ quit \in [Threads -> BOOLEAN]
    /\ queue \in [Threads -> Seq(Fds)]
    /\ conns \in [Threads -> SUBSET Fds]
    /\ handed \in [Threads -> 0..MaxClients]
    /\ lost \in [Threads -> 0..MaxClients]
    /\ leaked \subseteq Fds

\* startLoop() returned the loop of its thread, never the NULL of a thread
\* that was not that far.
LoopsKnown == \A i \in DOMAIN loops : loops[i] = i

\* No loop takes a client before the pool of its connections is filled, though
\* it may be handed one: loop() runs after initConnectionPool().  Only a server
\* without io threads, whose base loop has no pool, takes one from nowhere.
PoolFirst ==
    /\ \A t \in Threads : conns[t] # {} => pool[t]
    /\ main = "noPool" => numThreads = 0

\* Round robin over the loops: each has had an equal share of the turns.  A
\* client that was refused takes no turn, one that was lost does.
Balanced ==
    \A t, u \in IoThreads : handed[t] + lost[t] <= handed[u] + lost[u] + 1

\* What the main thread and the io threads owe each other when a client is
\* handed over.
Handover == LoopsKnown /\ PoolFirst /\ Balanced

\* The server comes to serve; each client handed to a loop gets a connection
\* unless the server is destroyed; and that returns, with all threads joined,
\* even if quit() overtakes loop(), except where it dies of an EventLoop that
\* is gone before quit() is through with it.
ServesAndStops ==
    /\ <>(main = "serving")
    /\ \A t \in Threads, fd \in Fds :
          fd \in Range(queue[t]) ~> (fd \in conns[t] \/ main # "serving")
    /\ main = "destroy" ~>
          \/ main = "done" /\ \A t \in IoThreads : thread[t] = "exited"
          \/ main = "crashed"
===============================================================================
