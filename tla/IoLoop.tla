------------------------------- MODULE IoLoop -------------------------------
(***************************************************************************)
(* The connections of one io loop: the pool of TcpConnection objects, their *)
(* channels and the Epoller, the list of idle connections and the timers    *)
(* that close them (EventLoop.cc, TcpConnection.cc, Channel.cc, Epoller.cc),*)
(* together with the accepting thread (TcpServer.cc) and the clients.       *)
(*                                                                         *)
(* Objects and descriptors are used again.  The loop thread works through a *)
(* batch of active channels, then through the accepted descriptors queued   *)
(* for it; what a callback does to a connection can therefore meet an event *)
(* epoll_wait reported before.  The bytes of a connection are the subject   *)
(* of TcpConnection.tla; here only whether it waits to write is kept.       *)
(*                                                                         *)
(* The idle list is kept by gettimeofday, a clock that can be set back.     *)
(***************************************************************************)
EXTENDS Integers, Sequences, FiniteSets, Functions

CONSTANTS
    Conns,          \* the TcpConnection objects that can be constructed
    Pool,           \* the initial free list, a sequence of some of them
    Fds,            \* the descriptors accept() can return
    timerChannel,   \* the channel of timerfd_
    None,
    idleSeconds,    \* idleSeconds_; idle connections are kept if not positive
    CloseDelay,     \* the delay given to forceCloseWithDelay
    MaxTime,        \* bound: the clock stops there
    MaxSetBack      \* bound: seconds the clock is set back in all

ASSUME ConstantsAssumption ==
    /\ Pool \in Seq(Conns) /\ IsInjective(Pool)
    /\ timerChannel \notin Conns /\ None \notin Conns
    /\ timerChannel # None
    /\ -1 \notin Fds
    /\ idleSeconds \in Int
    /\ CloseDelay \in Nat /\ MaxTime \in Nat /\ MaxSetBack \in Nat

VARIABLES
    conn,               \* state_ and the channel of each TcpConnection
    free,               \* the list that starts at freeTcpConnection_
    active,             \* activeConnections_
    connectionTimeList, \* connectionTimeList_
    lastReceiveTime,    \* TimeNode::lastReceiveTime of each connection
    channels,           \* channels_ of the Epoller: the channel of a descriptor
    epoll,              \* the kernel's interest list
    sock,               \* the socket behind each descriptor
    pendingFunctors,    \* descriptors handed over by the accepting thread
    functors,           \* what is left of doPendingFunctors' batch
    timers,             \* callbacks in the TimerQueue: <<time, connection>>
    now,                \* what gettimeofday says, in seconds
    phase,              \* where the loop thread is in loop(); "crashed" after
                        \* undefined behaviour, "killed" by SIGPIPE
    activeChannels,     \* activeChannels_
    toHandle,           \* those the for loop has still to come to
    current,            \* currentActiveChannel_
    revents,            \* the events of each active channel not handled yet
    due                 \* the timer callbacks of the current handleRead

\* History: what the properties compare with.
VARIABLE setBack        \* seconds the clock has been set back so far, in all

poolVars == <<conn, free, active, channels, epoll>>
idleVars == <<connectionTimeList, lastReceiveTime, timers>>
clockVars == <<now, setBack>>
batchVars == <<phase, activeChannels, toHandle, current, revents, due, functors>>
vars == <<poolVars, idleVars, sock, pendingFunctors, clockVars, batchVars>>

NoFd == -1
NoSock == [open |-> FALSE, peer |-> "closed", expired |-> FALSE]
\* A TcpConnection that is not in use.
Unused == [state |-> "KConnecting", fd |-> NoFd, events |-> {}, index |-> "kNew"]

IdleOn == idleSeconds > 0
Running == phase \notin {"crashed", "killed"}

\* EventLoop::EventLoop and initConnectionPool.
Init ==
    /\ conn = [c \in Conns |-> Unused]
    /\ free = Pool
    /\ active = {}
    /\ connectionTimeList = <<>>
    /\ lastReceiveTime = [c \in Conns |-> 0]
    /\ channels = [f \in Fds \cup {NoFd} |-> None]
    /\ epoll = [f \in Fds |-> None]
    /\ sock = [f \in Fds |-> NoSock]
    /\ pendingFunctors = <<>>
    /\ functors = <<>>
    /\ timers = {t \in {<<1, None>>} : IdleOn}
    /\ now = 0 /\ setBack = 0
    /\ phase = "poll"
    /\ activeChannels = {}
    /\ toHandle = {}
    /\ current = None
    /\ revents = [c \in Conns |-> {}]
    /\ due = {}

-----------------------------------------------------------------------------
(* The accepting thread and the clients.                                    *)

\* handleNewConn for one descriptor: it ends in runInLoop of another thread.
Accept(f) ==
    /\ Running
    /\ ~sock[f].open
    /\ sock' = [sock EXCEPT ![f] =
                  [open |-> TRUE, peer |-> "open", expired |-> FALSE]]
    /\ pendingFunctors' = Append(pendingFunctors, f)
    /\ UNCHANGED <<poolVars, idleVars, clockVars, batchVars>>

\* The client closes its end, or resets the connection, also as an answer to
\* what is written after it has closed.  A reset is reported by one call, after
\* which the peer is "gone"; one that epoll_wait reports is cleared by
\* handleError, and what is read then is the end of the stream.
PeerLeaves(f, how) ==
    /\ Running
    /\ sock[f].open
    /\ sock[f].peer = "open" \/ (sock[f].peer = "closed" /\ how = "reset")
    /\ sock' = [sock EXCEPT ![f].peer = how]
    /\ UNCHANGED <<poolVars, idleVars, pendingFunctors, clockVars, batchVars>>

\* A second passes, or the clock is set forward.
Tick ==
    /\ Running
    /\ now < MaxTime
    /\ now' = now + 1
    /\ UNCHANGED <<poolVars, idleVars, sock, pendingFunctors, setBack, batchVars>>

\* The clock is set back.
SetBack ==
    /\ Running
    /\ now' \in 0..(now - 1)
    /\ setBack' = setBack + (now - now')
    /\ setBack' <= MaxSetBack
    /\ UNCHANGED <<poolVars, idleVars, sock, pendingFunctors, batchVars>>

-----------------------------------------------------------------------------
(* Channel and Epoller.                                                     *)

\* Channel::update of a channel whose descriptor and index are those of ch:
\* Epoller::updateChannel and the epoll_ctl it comes to.
Updated(ch) ==
    [ch EXCEPT !.index = IF @ = "kAdded" /\ ch.events = {} THEN "kDeleted"
                         ELSE "kAdded"]

\* events_ is changed and update() forgotten.
SetEvents_NoUpdate(c, events) ==
    /\ conn' = [conn EXCEPT ![c].events = events]
    /\ UNCHANGED <<free, active, channels, epoll>>

\* What the kernel holds for the descriptor of an updated channel of c.
Interest(c, ch) ==
    IF ch.index = "kAdded" THEN [channel |-> c, events |-> ch.events] ELSE None

\* enableWriting or disableWriting.
SetEvents(c, events) ==
    LET ch == Updated([conn[c] EXCEPT !.events = events]) IN
    /\ conn' = [conn EXCEPT ![c] = ch]
    /\ epoll' = [epoll EXCEPT ![ch.fd] = Interest(c, ch)]
    /\ UNCHANGED <<free, active, channels>>

\* erase(position), where a node of the list remembers its own position.
Without(seq, c) ==
    IF c \in Range(seq)
      THEN LET position == CHOOSE i \in DOMAIN seq : seq[i] = c IN
           SubSeq(seq, 1, position - 1) \o SubSeq(seq, position + 1, Len(seq))
      ELSE seq

-----------------------------------------------------------------------------
(* TcpConnection, called by the loop thread.                                *)

\* handleClose without reset(), and without setFd(-1).
HandleClose_As(c, left) ==
    LET f == conn[c].fd IN
    /\ conn' = [conn EXCEPT ![c] = left]
    /\ epoll' = [epoll EXCEPT ![f] = None]
    /\ sock' = [sock EXCEPT ![f] = NoSock]
    /\ free' = <<c>> \o free
    /\ active' = active \ {c}
    /\ connectionTimeList' = Without(connectionTimeList, c)
    /\ UNCHANGED channels
HandleClose_NoReset(c) ==
    HandleClose_As(c, [Unused EXCEPT !.state = "KDisconnected"])
HandleClose_KeepsFd(c) == HandleClose_As(c, [Unused EXCEPT !.fd = conn[c].fd])

\* handleClose: the channel leaves epoll, the descriptor is closed, the
\* object goes to the head of the free list.  setFd(-1) comes before
\* removeChannel, which therefore erases the key -1 from channels_.
HandleClose(c) ==
    LET f == conn[c].fd IN
    /\ conn' = [conn EXCEPT ![c] = Unused]
    /\ epoll' = [epoll EXCEPT ![f] = None]
    /\ sock' = [sock EXCEPT ![f] = NoSock]
    /\ channels' = [channels EXCEPT ![conn'[c].fd] = None]
    /\ free' = <<c>> \o free
    /\ active' = active \ {c}
    /\ connectionTimeList' = Without(connectionTimeList, c)

\* updateIdleTimeList: to the tail of the list, with the current time.
Touch(c) ==
    lastReceiveTime' = IF IdleOn THEN [lastReceiveTime EXCEPT ![c] = now]
                       ELSE lastReceiveTime

\* Who is heard of again stays where it is.
MoveToTail_Stays(c) ==
    connectionTimeList' = IF IdleOn /\ c \notin Range(connectionTimeList)
                            THEN Append(connectionTimeList, c)
                            ELSE connectionTimeList

MoveToTail(c) ==
    connectionTimeList' = IF IdleOn
                            THEN Append(Without(connectionTimeList, c), c)
                            ELSE connectionTimeList

\* sendInLoop after a message was read: what the socket does not take has to
\* wait; nothing is sent on a connection that is being shut down.
Send(c) ==
    \/ conn[c].state = "KConnected" /\ SetEvents(c, conn[c].events \cup {"write"})
    \/ UNCHANGED poolVars

\* handleRead, for each result of read(2).
ReadData(c) ==
    /\ conn[c].fd # NoFd /\ sock[conn[c].fd].peer = "open"
    /\ Touch(c) /\ MoveToTail(c)
    /\ Send(c)
    /\ UNCHANGED <<sock, phase>>

\* A failed read taken for the end of the stream.
ReadError_Closes(c) ==
    /\ conn[c].fd # NoFd /\ sock[conn[c].fd].peer \in {"open", "reset"}
    /\ Touch(c)
    /\ HandleClose(c)
    /\ UNCHANGED phase

\* ECONNRESET, once, or a readiness that was spurious.
ReadError(c) ==
    /\ conn[c].fd # NoFd /\ sock[conn[c].fd].peer \in {"open", "reset"}
    /\ sock' = [sock EXCEPT ![conn[c].fd].peer = IF @ = "reset" THEN "gone" ELSE @]
    /\ Touch(c) /\ MoveToTail(c)
    /\ UNCHANGED <<poolVars, phase>>

\* The end of the stream is left to the timers.
ReadEnd_Ignored(c) ==
    /\ conn[c].fd # NoFd /\ sock[conn[c].fd].peer \in {"closed", "gone"}
    /\ Touch(c) /\ MoveToTail(c)
    /\ UNCHANGED <<poolVars, sock, phase>>

ReadEnd(c) ==
    /\ conn[c].fd # NoFd /\ sock[conn[c].fd].peer \in {"closed", "gone"}
    /\ Touch(c)
    /\ HandleClose(c)
    /\ UNCHANGED phase

\* The connection was closed after epoll_wait reported the event.  read(-1)
\* fails, but before its result is looked at updateIdleTimeList splices with
\* the iterator that returnBackConnection erased.
ReadClosed(c) ==
    /\ conn[c].fd = NoFd
    /\ phase' = IF IdleOn THEN "crashed" ELSE phase
    /\ UNCHANGED <<poolVars, connectionTimeList, lastReceiveTime, sock>>

\* handleWrite: there is nothing to write, or some of it is left.
WriteSome(c) ==
    /\ "write" \in conn[c].events => sock[conn[c].fd].peer \in {"open", "closed"}
    /\ UNCHANGED <<poolVars, sock, phase>>

\* All of the output has been written.
WriteAll(c) ==
    /\ "write" \in conn[c].events /\ sock[conn[c].fd].peer \in {"open", "closed"}
    /\ SetEvents(c, conn[c].events \ {"write"})
    /\ UNCHANGED <<sock, phase>>

\* The write reports the reset, or comes after it was reported: SIGPIPE, which
\* nobody ignores, ends the process.
WriteError(c) ==
    /\ "write" \in conn[c].events /\ sock[conn[c].fd].peer = "reset"
    /\ sock' = [sock EXCEPT ![conn[c].fd].peer = "gone"]
    /\ UNCHANGED <<poolVars, phase>>

WriteGone(c) ==
    /\ "write" \in conn[c].events /\ sock[conn[c].fd].peer = "gone"
    /\ phase' = "killed"
    /\ UNCHANGED <<poolVars, sock>>

-----------------------------------------------------------------------------
(* loop(): poll and the handlers of the batch.                              *)

\* The events the kernel may report for the descriptor of c.  The end of the
\* stream is reported in every round, data when there is some, writability
\* when the socket buffer has room.
Reportable(c) ==
    LET f == conn[c].fd IN
    IF f = NoFd \/ epoll[f] = None THEN {{}}
    ELSE {E \in SUBSET epoll[f].events :
            sock[f].peer # "open" /\ "read" \in epoll[f].events => "read" \in E}

\* There are fewer channels than room in epollEvents_: all that are ready are
\* reported.  epoll_wait also returns with nothing, at its timeout or because
\* of wakeupFd_ (EventLoop.tla).  The alarm of timerfd_ follows the monotonic
\* clock (TimerQueue.tla): after the clock was set it rings early or late.
Poll ==
    /\ phase = "poll"
    /\ revents' \in {r \in [Conns -> SUBSET {"read", "write"}] :
                      \A c \in Conns : r[c] \in Reportable(c)}
    /\ \E alarm \in SUBSET {t \in {timerChannel} : timers # {}} :
         activeChannels' = {c \in Conns : revents'[c] # {}} \cup alarm
    /\ toHandle' = activeChannels'
    /\ phase' = "handle"
    /\ UNCHANGED <<poolVars, idleVars, sock, pendingFunctors, clockVars, current, due,
                   functors>>

\* The timer of removeExpiredConnection is not inserted again.
Restarted_Not(batch) == {}

\* reset() of a repeated timer: a second after the batch was taken.
Restarted(batch) == {<<now + 1, None>> : t \in {t \in batch : t[2] = None}}

\* The for loop comes to the next channel, in the kernel's order.  handleRead of
\* the timers takes those that are due; nothing looks at timers_ before reset().
NextChannel(ch) ==
    /\ phase = "handle" /\ current = None
    /\ ch \in toHandle
    /\ current' = ch
    /\ toHandle' = toHandle \ {ch}
    /\ IF ch = timerChannel
          THEN /\ due' = {t \in timers : t[1] <= now}
               /\ timers' = (timers \ due') \cup Restarted(due')
          ELSE UNCHANGED <<due, timers>>
    /\ UNCHANGED <<poolVars, connectionTimeList, lastReceiveTime, sock,
                   pendingFunctors, clockVars, phase, activeChannels, revents,
                   functors>>

\* handleEventWithGuard: the read callback comes before the write callback.
ReadCallback(c) ==
    /\ phase = "handle" /\ current = c /\ "read" \in revents[c]
    /\ ReadData(c) \/ ReadError(c) \/ ReadEnd(c) \/ ReadClosed(c)
    /\ revents' = [revents EXCEPT ![c] = @ \ {"read"}]
    /\ UNCHANGED <<timers, pendingFunctors, clockVars, activeChannels, toHandle,
                   current, due, functors>>

WriteCallback(c) ==
    /\ phase = "handle" /\ current = c /\ revents[c] = {"write"}
    /\ WriteSome(c) \/ WriteAll(c) \/ WriteError(c) \/ WriteGone(c)
    /\ revents' = [revents EXCEPT ![c] = {}]
    /\ UNCHANGED <<idleVars, pendingFunctors, clockVars, activeChannels, toHandle,
                   current, due, functors>>

EndEvent ==
    /\ phase = "handle"
    /\ \/ current \in Conns /\ revents[current] = {}
       \/ current = timerChannel /\ due = {}
    /\ current' = None
    /\ UNCHANGED <<poolVars, idleVars, sock, pendingFunctors, clockVars, phase,
                   activeChannels, toHandle, revents, due, functors>>

-----------------------------------------------------------------------------
(* The timers, in the order of their expiration.                            *)

NextDue(t) == t \in due /\ \A u \in due : t[1] <= u[1]

Age(c) == now - lastReceiveTime[c]

\* removeExpiredConnection goes from the head of the list to the first
\* connection that is neither too old nor, since the clock was set back, from
\* the future.
Walked ==
    {connectionTimeList[i] : i \in
       {j \in DOMAIN connectionTimeList :
          \A k \in 1..j : LET age == Age(connectionTimeList[k]) IN
                            age > idleSeconds \/ age < 0}}

TooOld == {c \in Walked : Age(c) > idleSeconds}
Jumped == {c \in Walked : Age(c) < 0}

\* shutdown() alone.
CloseTimers_None(expired) == {}

CloseTimers(expired) == {<<now + CloseDelay, c>> : c \in expired}

\* shutdown() and forceCloseWithDelay() for those that are still connected; who
\* is from the future counts as heard of now.
RemoveExpiredConnection(t) ==
    /\ current = timerChannel
    /\ NextDue(t) /\ t[2] = None
    /\ LET expired == {c \in TooOld : conn[c].state = "KConnected"} IN
         /\ conn' = [c \in Conns |-> IF c \in expired
                       THEN [conn[c] EXCEPT !.state = "KDisconnecting"] ELSE conn[c]]
         /\ sock' = [f \in Fds |-> IF \E c \in expired : conn[c].fd = f
                       THEN [sock[f] EXCEPT !.expired = TRUE] ELSE sock[f]]
         /\ timers' = timers \cup CloseTimers(expired)
    /\ lastReceiveTime' = [c \in Conns |-> IF c \in Jumped THEN now
                                           ELSE lastReceiveTime[c]]
    /\ due' = due \ {t}
    /\ UNCHANGED <<free, active, channels, epoll, connectionTimeList,
                   pendingFunctors, clockVars, phase, activeChannels, toHandle,
                   current, revents, functors>>

\* forceCloseInLoop of the connection the timer was made for.
ForceClose(t) ==
    /\ current = timerChannel
    /\ NextDue(t) /\ t[2] # None
    /\ IF conn[t[2]].state \in {"KConnected", "KDisconnecting"}
          THEN HandleClose(t[2])
          ELSE UNCHANGED <<poolVars, connectionTimeList, sock>>
    /\ due' = due \ {t}
    /\ UNCHANGED <<lastReceiveTime, timers, pendingFunctors, clockVars, phase,
                   activeChannels, toHandle, current, revents, functors>>

-----------------------------------------------------------------------------
(* doPendingFunctors.                                                       *)

DoPendingFunctors ==
    /\ phase = "handle" /\ current = None /\ toHandle = {}
    /\ phase' = "functors"
    /\ functors' = pendingFunctors
    /\ pendingFunctors' = <<>>
    /\ UNCHANGED <<poolVars, idleVars, sock, clockVars, activeChannels, toHandle,
                   current, revents, due>>

\* The object taken stays in the free list.
TakeFree_Stays(c) ==
    IF free # <<>> THEN c = Head(free) /\ UNCHANGED free
                   ELSE c \notin active /\ UNCHANGED free

TakeFree(c) ==
    IF free # <<>> THEN c = Head(free) /\ free' = Tail(free)
                   ELSE c \notin active /\ UNCHANGED free

\* getNextFreeConnection takes the head of the free list or constructs a new
\* TcpConnection; configEvent adds the channel without events, then with read.
GetNextFreeConnection(c) ==
    /\ phase = "functors" /\ functors # <<>>
    /\ TakeFree(c)
    /\ LET f == Head(functors)
            added == Updated([conn[c] EXCEPT !.state = "KConnected", !.fd = f])
            reading == Updated([added EXCEPT !.events = {"read"}]) IN
         /\ conn' = [conn EXCEPT ![c] = reading]
         /\ epoll' = [epoll EXCEPT ![f] = Interest(c, reading)]
         /\ channels' = IF conn[c].index = "kNew" THEN [channels EXCEPT ![f] = c]
                        ELSE channels
    /\ active' = active \cup {c}
    /\ Touch(c) /\ MoveToTail(c)
    /\ functors' = Tail(functors)
    /\ UNCHANGED <<timers, sock, pendingFunctors, clockVars, phase, activeChannels,
                   toHandle, current, revents, due>>

EndPendingFunctors ==
    /\ phase = "functors" /\ functors = <<>>
    /\ phase' = "poll"
    /\ activeChannels' = {}
    /\ UNCHANGED <<poolVars, idleVars, sock, pendingFunctors, clockVars, toHandle,
                   current, revents, due, functors>>

-----------------------------------------------------------------------------

LoopStep ==
    \/ \E ch \in Conns \cup {timerChannel} : NextChannel(ch)
    \/ \E c \in Conns : ReadCallback(c)
    \/ \E c \in Conns : WriteCallback(c)
    \/ EndEvent
    \/ \E t \in due : RemoveExpiredConnection(t)
    \/ \E t \in due : ForceClose(t)
    \/ DoPendingFunctors
    \/ \E c \in Conns : GetNextFreeConnection(c)
    \/ EndPendingFunctors
    \/ Poll

Next ==
    \/ \E f \in Fds : Accept(f)
    \/ \E f \in Fds, how \in {"closed", "reset"} : PeerLeaves(f, how)
    \/ Tick \/ SetBack
    \/ LoopStep

SafeSpec == Init /\ [][Next]_vars

(* Fairness.  The loop thread goes on; epoll_wait returns at its timeout at  *)
(* the latest, and reports an end of stream in every round.                 *)
Spec == SafeSpec /\ WF_vars(LoopStep)

-----------------------------------------------------------------------------

Connections ==
    [state : {"KConnecting", "KConnected", "KDisconnecting"}, fd : Fds \cup {NoFd},
     events : SUBSET {"read", "write"}, index : {"kNew", "kAdded", "kDeleted"}]
Sockets == [open : BOOLEAN, peer : {"open", "reset", "closed", "gone"}, expired : BOOLEAN]
Callbacks == Nat \X (Conns \cup {None})

\* The variables have their types.
TypeOK ==
    /\ conn \in [Conns -> Connections]
    /\ free \in Seq(Conns)
    /\ active \in SUBSET Conns
    /\ connectionTimeList \in Seq(Conns)
    /\ lastReceiveTime \in [Conns -> Nat]
    /\ channels \in [Fds \cup {NoFd} -> Conns \cup {None}]
    /\ epoll \in [Fds -> {None} \cup [channel : Conns, events : SUBSET {"read", "write"}]]
    /\ sock \in [Fds -> Sockets]
    /\ pendingFunctors \in Seq(Fds) /\ functors \in Seq(Fds)
    /\ timers \in SUBSET Callbacks /\ due \in SUBSET Callbacks
    /\ now \in Nat /\ setBack \in Nat
    /\ phase \in {"poll", "handle", "functors", "crashed", "killed"}
    /\ activeChannels \in SUBSET (Conns \cup {timerChannel})
    /\ toHandle \in SUBSET activeChannels
    /\ current \in activeChannels \cup {None}
    /\ revents \in [Conns -> SUBSET {"read", "write"}]

\* Every open descriptor is either on its way to the loop or the descriptor
\* of exactly one active connection, and nothing else holds a descriptor: none
\* leaks, none is used by two connections or after it was closed.
DescriptorsOwned ==
    \A f \in Fds :
        LET queuedAt == {i \in DOMAIN (functors \o pendingFunctors) :
                           (functors \o pendingFunctors)[i] = f}
            owners == {c \in Conns : conn[c].fd = f} IN
        /\ owners \subseteq active
        /\ Cardinality(queuedAt) + Cardinality(owners) = (IF sock[f].open THEN 1 ELSE 0)

\* A TcpConnection is in the free list once, or active, or not constructed;
\* one that is not active is as good as new.
PoolConsistent ==
    /\ IsInjective(free)
    /\ Range(free) \cap active = {}
    /\ \A c \in Conns : c \notin active <=> conn[c] = Unused

\* The kernel watches exactly the descriptors of the active connections, for
\* the events their channels ask for.
EpollMatchesChannels ==
    \A f \in Fds :
        epoll[f] = IF \E c \in active : conn[c].fd = f
                     THEN [channel |-> CHOOSE c \in active : conn[c].fd = f,
                           events  |-> conn[CHOOSE c \in active : conn[c].fd = f].events]
                     ELSE None

\* Whatever epoll_wait reports is found in channels_ (Epoller.cc:65, 66).
ReportedChannelKnown ==
    \A f \in Fds : epoll[f] # None => channels[f] = epoll[f].channel

\* The Epoller and the kernel are in step with the connections.
EpollInStep == EpollMatchesChannels /\ ReportedChannelKnown

\* The list of idle connections holds the active ones, each once, by the time
\* they were last heard of; a clock that was set back upsets this order by no
\* more than it was set back.
IdleListSorted ==
    IdleOn =>
        /\ Range(connectionTimeList) = active /\ IsInjective(connectionTimeList)
        /\ \A i, j \in DOMAIN connectionTimeList : i < j =>
             lastReceiveTime[connectionTimeList[i]]
               <= lastReceiveTime[connectionTimeList[j]] + setBack

\* removeExpiredConnection runs every second and finds every connection that is
\* too old, although it stops at the first young one: both at most so much late
\* as the clock was set back.
IdleOnesFound ==
    IdleOn =>
        /\ \A c \in active : Age(c) > idleSeconds + setBack => c \in TooOld
        /\ \E t \in timers : t[2] = None /\ t[1] <= now + 1 + setBack

\* A connection that was told to shut down because it was idle has a timer
\* that will close it, CloseDelay later or so much more as the clock was set
\* back: no client can keep it by its silence.
ShutdownsEnd ==
    \A c \in active : conn[c].state = "KDisconnecting" =>
        \E t \in timers \cup due : t[2] = c /\ t[1] <= now + CloseDelay + setBack

\* An idle connection is found, and then closed.
IdleOnesEnd == IdleListSorted /\ IdleOnesFound /\ ShutdownsEnd

\* The server closes a descriptor only when the client has left or has been
\* found idle for too long.
ClosesOnlyIdleOrLeft ==
    [][\A f \in Fds : sock[f].open /\ ~sock'[f].open =>
         sock[f].peer # "open" \/ sock[f].expired]_vars

\* The descriptor of a client that left is closed in the end, unless SIGPIPE
\* ends the process first.
LeftClientsAreClosed ==
    \A f \in Fds :
        (sock[f].open /\ sock[f].peer # "open") ~> (~sock[f].open \/ phase = "killed")
=============================================================================
