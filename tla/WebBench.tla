------------------------------- MODULE WebBench -------------------------------
(***************************************************************************)
(* The load generator (src/webserver/WebBench/webbench.c, socket.c): the   *)
(* parent tries the server, forks the clients and adds up what they report *)
(* through a pipe; a client sends request after request until its alarm    *)
(* rings, over one connection (-k) or over a new one each time, and counts *)
(* what succeeded and what failed.                                         *)
(*                                                                         *)
(* A client is at pc[c] in benchcore().  Its socket is "open"; "ended" when *)
(* the server closed it; "broken" when a reset came after that, so that the *)
(* next write raises SIGPIPE; "reset" when the reset came first; "closed"   *)
(* when the client closed it and goes on to use it; or "none".             *)
(***************************************************************************)
EXTENDS Integers, Sequences, FiniteSetsExt, Functions

CONSTANTS
    Clients,    \* clients
    Options,    \* the command lines; noCache is --reload with --proxy
    FdLimit,    \* sockets a client may have open
    MaxTrips    \* bound: requests a client begins

ASSUME BenchAssumption ==
    /\ Clients \in Nat \ {0} /\ FdLimit \in Nat /\ MaxTrips \in Nat
    /\ Options \subseteq [keepAlive : BOOLEAN, force : BOOLEAN, noCache : BOOLEAN,
                          http10 : 0..2, method : {"GET", "HEAD", "OPTIONS", "TRACE"}]

VARIABLES
    options,    \* the options as given
    request,    \* request: its version, and what its Connection header says
    parent,     \* where the parent is
    forked,     \* clients forked so far
    left,       \* clients, which the parent counts down
    total,      \* speed and failed of the parent
    status,     \* the parent's exit status
    pipe,       \* the reports in mypipe
    pc, timerexpired, speed, failed, \* of each client
    trips,      \* how often it went round the loop
    sock,       \* the socket s
    answer,     \* the answer: "none", "due", or there to be read
    fds,        \* how many sockets it has open
    leaked      \* those of them that Socket() gave up without closing

parentVars == <<options, request, parent, forked, left, total, status>>
countVars == <<speed, failed, trips>>
sockVars == <<sock, answer, fds, leaked>>
benchVars == <<parentVars, pipe, pc, timerexpired, countVars, sockVars>>

Ids == 1..Clients

BenchInit ==
    /\ options \in Options
    /\ request = [version |-> 0, connection |-> ""]
    /\ parent = "build"
    /\ forked = 0 /\ left = Clients
    /\ total = [speed |-> 0, failed |-> 0]
    /\ status = 0
    /\ pipe = <<>>
    /\ pc = [c \in Ids |-> "none"]
    /\ timerexpired = [c \in Ids |-> FALSE]
    /\ speed = [c \in Ids |-> 0] /\ failed = [c \in Ids |-> 0]
    /\ trips = [c \in Ids |-> 0]
    /\ sock = [c \in Ids |-> "none"] /\ answer = [c \in Ids |-> "none"]
    /\ fds = [c \in Ids |-> 0] /\ leaked = [c \in Ids |-> 0]

-----------------------------------------------------------------------------
(* The parent: main(), build_request() and bench().                         *)

\* HEAD, and Pragma, need HTTP/1.0; OPTIONS and TRACE need HTTP/1.1.
Version(o) ==
    CASE o.method \in {"OPTIONS", "TRACE"} -> 2
      [] o.method = "HEAD" \/ o.noCache -> Max({o.http10, 1})
      [] OTHER -> o.http10

Connection(o) ==
    CASE Version(o) <= 1 -> ""
      [] o.keepAlive -> "Keep-Alive"
      [] OTHER -> "close"

Exit(s) == parent' = "done" /\ status' = s

\* A URL it cannot use ends the program.
BuildRequest ==
    /\ parent = "build"
    /\ \/ /\ request' = [version |-> Version(options), connection |-> Connection(options)]
          /\ parent' = "probe"
          /\ UNCHANGED status
       \/ Exit(2) /\ UNCHANGED request
    /\ UNCHANGED <<options, forked, left, total, pipe, pc, timerexpired, countVars, sockVars>>

\* The server has to accept a connection, and then pipe() to work.
Probe ==
    /\ parent = "probe"
    /\ (parent' = "fork" /\ UNCHANGED status) \/ Exit(1) \/ Exit(3)
    /\ UNCHANGED <<options, request, forked, left, total, pipe, pc, timerexpired,
                   countVars, sockVars>>

Fork ==
    /\ parent = "fork" /\ forked < Clients
    /\ \/ /\ forked' = forked + 1
          /\ pc' = [pc EXCEPT ![forked'] = "asleep"]
          /\ parent' = IF forked' = Clients THEN "read" ELSE "fork"
          /\ UNCHANGED status
       \/ Exit(3) /\ UNCHANGED <<forked, pc>>
    /\ UNCHANGED <<options, request, left, total, pipe, timerexpired, countVars, sockVars>>

\* Waits for one report more than there are clients.
ReadReport_OneMore ==
    /\ parent = "read" /\ pipe # <<>>
    /\ total' = [speed |-> total.speed + Head(pipe).speed,
                 failed |-> total.failed + Head(pipe).failed]
    /\ pipe' = Tail(pipe)
    /\ left' = left - 1
    /\ IF left = 0 THEN Exit(Head(pipe).speed) ELSE UNCHANGED <<parent, status>>
    /\ UNCHANGED <<options, request, forked, pc, timerexpired, countVars, sockVars>>

\* bench() returns the variable it read the last report's speed into.  The
\* parent has the writing end of the pipe open itself: it never sees the end.
ReadReport ==
    /\ parent = "read" /\ pipe # <<>>
    /\ total' = [speed |-> total.speed + Head(pipe).speed,
                 failed |-> total.failed + Head(pipe).failed]
    /\ pipe' = Tail(pipe)
    /\ left' = left - 1
    /\ IF left' = 0 THEN Exit(Head(pipe).speed) ELSE UNCHANGED <<parent, status>>
    /\ UNCHANGED <<options, request, forked, pc, timerexpired, countVars, sockVars>>

ParentStep == BuildRequest \/ Probe \/ Fork \/ ReadReport

-----------------------------------------------------------------------------
(* A client: benchcore().                                                   *)

Goto(c, place) == pc' = [pc EXCEPT ![c] = place]
Fails(c) == failed' = [failed EXCEPT ![c] = @ + 1]
Live(s) == s \in {"open", "ended", "broken", "reset"}

\* close(s), which leaves s with the number.
Close(c, s) ==
    /\ sock' = [sock EXCEPT ![c] = s]
    /\ answer' = [answer EXCEPT ![c] = "none"]
    /\ fds' = [fds EXCEPT ![c] = IF Live(sock[c]) THEN @ - 1 ELSE @]
    /\ UNCHANGED leaked

\* Socket() returns a connected socket.
Connected(c) ==
    /\ fds[c] < FdLimit
    /\ fds' = [fds EXCEPT ![c] = @ + 1]
    /\ sock' = [sock EXCEPT ![c] = "open"]
    /\ UNCHANGED <<answer, leaked>>

\* Socket() returns -1, for want of an address or a descriptor, or because
\* connect() failed: then the descriptor stays open.
NotConnected(c) ==
    /\ \/ UNCHANGED <<fds, leaked>>
       \/ /\ fds[c] < FdLimit
          /\ fds' = [fds EXCEPT ![c] = @ + 1]
          /\ leaked' = [leaked EXCEPT ![c] = @ + 1]
    /\ UNCHANGED <<sock, answer>>

\* The process is gone.
CloseAll(c) ==
    /\ sock' = [sock EXCEPT ![c] = "none"] /\ answer' = [answer EXCEPT ![c] = "none"]
    /\ fds' = [fds EXCEPT ![c] = 0] /\ leaked' = [leaked EXCEPT ![c] = 0]

\* The end of the loop: s is closed unless it is used again.
Succeeds(c) ==
    /\ speed' = [speed EXCEPT ![c] = @ + 1]
    /\ IF options.keepAlive THEN UNCHANGED sockVars ELSE Close(c, "none")
    /\ Goto(c, "test")

\* After sleep(1): the alarm is set.
Begin(c) ==
    /\ pc[c] = "asleep"
    /\ Goto(c, IF options.keepAlive THEN "dial" ELSE "test")
    /\ UNCHANGED <<parentVars, pipe, timerexpired, countVars, sockVars>>

\* while ((s = Socket(host,port)) == -1), whatever the time is.
DialConnects(c) ==
    /\ pc[c] = "dial"
    /\ Connected(c)
    /\ Goto(c, "test")
    /\ UNCHANGED <<parentVars, pipe, timerexpired, countVars>>
DialFails(c) ==
    /\ pc[c] = "dial"
    /\ NotConnected(c)
    /\ UNCHANGED <<parentVars, pipe, timerexpired, countVars, pc>>

\* The head of the loop.
Test(c) ==
    /\ pc[c] = "test" /\ ~timerexpired[c]
    /\ trips[c] < MaxTrips
    /\ trips' = [trips EXCEPT ![c] = @ + 1]
    /\ Goto(c, IF options.keepAlive THEN "write" ELSE "socket")
    /\ UNCHANGED <<parentVars, pipe, timerexpired, speed, failed, sockVars>>

\* The time is over: one failure is taken back, the result goes into the pipe
\* and the process ends.
Report(c) ==
    /\ pc[c] = "test" /\ timerexpired[c]
    /\ failed' = [failed EXCEPT ![c] = IF @ > 0 THEN @ - 1 ELSE @]
    /\ pipe' = Append(pipe, [speed |-> speed[c], failed |-> failed'[c]])
    /\ Goto(c, "exited")
    /\ CloseAll(c)
    /\ UNCHANGED <<parentVars, timerexpired, speed, trips>>

NewSocket(c) ==
    /\ pc[c] = "socket"
    /\ \/ Connected(c) /\ Goto(c, "write") /\ UNCHANGED failed
       \/ NotConnected(c) /\ Fails(c) /\ Goto(c, "test")
    /\ UNCHANGED <<parentVars, pipe, timerexpired, speed, trips>>

\* write() takes the whole request, also when the server will not read it.
WriteWorks(c) ==
    /\ pc[c] = "write" /\ sock[c] \in {"open", "ended"}
    /\ answer' = [answer EXCEPT ![c] = IF sock[c] = "open" /\ @ = "none" THEN "due" ELSE @]
    /\ Goto(c, "written")
    /\ UNCHANGED <<parentVars, pipe, timerexpired, countVars, sock, fds, leaked>>

WriteFails(c) ==
    /\ pc[c] = "write" /\ sock[c] \in {"reset", "closed"}
    /\ Fails(c)
    /\ Close(c, "none")
    /\ Goto(c, IF options.keepAlive THEN "dial" ELSE "test")
    /\ UNCHANGED <<parentVars, pipe, timerexpired, speed, trips>>

\* SIGPIPE, which nothing handles.
WriteKills(c) ==
    /\ pc[c] = "write" /\ sock[c] = "broken"
    /\ Goto(c, "killed")
    /\ CloseAll(c)
    /\ UNCHANGED <<parentVars, pipe, timerexpired, countVars>>

Shuts == ~options.keepAlive /\ request.version = 0

\* The connection is gone.
Gone(c) == sock[c] \in {"broken", "reset"}

\* shutdown(s,1) of HTTP/0.9 fails when the connection is gone.
ShutdownFails(c) ==
    /\ pc[c] = "written" /\ Shuts /\ Gone(c)
    /\ Fails(c) /\ Close(c, "none") /\ Goto(c, "test")
    /\ UNCHANGED <<parentVars, pipe, timerexpired, speed, trips>>

\* With -f the answer is not read.
Forced(c) ==
    /\ pc[c] = "written" /\ options.force
    /\ ~(Shuts /\ Gone(c))
    /\ Succeeds(c)
    /\ UNCHANGED <<parentVars, pipe, timerexpired, failed, trips>>

Check(c) ==
    /\ \/ pc[c] = "written" /\ ~options.force /\ ~(Shuts /\ Gone(c))
       \/ pc[c] = "check"
    /\ IF timerexpired[c] THEN Succeeds(c) ELSE Goto(c, "read") /\ UNCHANGED <<speed, sockVars>>
    /\ UNCHANGED <<parentVars, pipe, timerexpired, failed, trips>>

\* A read that fails: the keep-alive client goes on with the number it closed.
ReadFails_LeftOpen(c) ==
    /\ Fails(c)
    /\ Goto(c, "test")
    /\ UNCHANGED sockVars

ReadFails(c) ==
    /\ Fails(c)
    /\ Close(c, IF options.keepAlive THEN "closed" ELSE "none")
    /\ Goto(c, "test")

\* An answer may have more parts to come; a keep-alive client reads once.
ReadData(c) ==
    /\ pc[c] = "read" /\ answer[c] = "there"
    /\ IF options.keepAlive
         THEN /\ speed' = [speed EXCEPT ![c] = @ + 1]
              /\ Goto(c, "test")
         ELSE Goto(c, "check") /\ UNCHANGED speed
    /\ \E rest \in {"none", "due"} : answer' = [answer EXCEPT ![c] = rest]
    /\ UNCHANGED <<parentVars, pipe, timerexpired, failed, trips, sock, fds, leaked>>

\* A connection that ends counts as a success, also without an answer.
ReadEnd(c) ==
    /\ pc[c] = "read" /\ answer[c] # "there" /\ sock[c] \in {"ended", "broken"}
    /\ Succeeds(c)
    /\ UNCHANGED <<parentVars, pipe, timerexpired, failed, trips>>

ReadReset(c) ==
    /\ pc[c] = "read" /\ answer[c] # "there" /\ sock[c] = "reset"
    /\ ReadFails(c)
    /\ UNCHANGED <<parentVars, pipe, timerexpired, speed, trips>>

\* alarm_handler().
Ring(c) ==
    /\ pc[c] \notin {"none", "asleep", "exited", "killed"} /\ ~timerexpired[c]
    /\ timerexpired' = [timerexpired EXCEPT ![c] = TRUE]
    /\ UNCHANGED <<parentVars, pipe, speed, trips>>

\* A read that waits is interrupted.  A signal just before it is not seen.
RingInterrupts(c) ==
    /\ pc[c] = "read" /\ answer[c] # "there" /\ sock[c] = "open"
    /\ Ring(c)
    /\ ReadFails(c)
RingSetsFlag(c) == Ring(c) /\ UNCHANGED <<pc, failed, sockVars>>

ClientStep(c) ==
    \/ Begin(c) \/ DialConnects(c) \/ DialFails(c) \/ Test(c) \/ NewSocket(c)
    \/ WriteWorks(c) \/ WriteFails(c) \/ WriteKills(c) \/ ShutdownFails(c) \/ Forced(c)
    \/ Check(c) \/ ReadData(c) \/ ReadEnd(c) \/ ReadReset(c) \/ Report(c)

-----------------------------------------------------------------------------
(* The server and the network.                                              *)

ServerAnswers(c) ==
    /\ sock[c] = "open" /\ answer[c] = "due"
    /\ answer' = [answer EXCEPT ![c] = "there"]
    /\ UNCHANGED <<parentVars, pipe, pc, timerexpired, countVars, sock, fds, leaked>>

End(c) ==
    /\ sock[c] = "open"
    /\ sock' = [sock EXCEPT ![c] = "ended"]
    /\ UNCHANGED <<parentVars, pipe, pc, timerexpired, countVars, answer, fds, leaked>>

\* Of the server's own accord, or because the client wrote to a connection the
\* server had closed.  What is there can still be read.
Reset(c) ==
    /\ sock[c] \in {"open", "ended"}
    /\ sock' = [sock EXCEPT ![c] = IF @ = "open" THEN "reset" ELSE "broken"]
    /\ answer' = [answer EXCEPT ![c] = IF @ = "there" THEN @ ELSE "none"]
    /\ UNCHANGED <<parentVars, pipe, pc, timerexpired, countVars, fds, leaked>>

\* The server closes the connection after its answer, if the request does not
\* ask it to keep it.
EndAfterAnswer(c) ==
    /\ answer[c] = "none"
    /\ request.version < 2 \/ request.connection = "close"
    /\ End(c)

-----------------------------------------------------------------------------

BenchNext ==
    \/ ParentStep
    \/ \E c \in Ids :
         \/ ClientStep(c)
         \/ RingInterrupts(c) \/ RingSetsFlag(c)
         \/ ServerAnswers(c) \/ End(c) \/ Reset(c)

BenchSafeSpec == BenchInit /\ [][BenchNext]_benchVars

\* A server that is up: it answers, ends what it need not keep, and does not
\* refuse a client for ever.
ServerServes ==
    \A c \in Ids :
        /\ WF_benchVars(ServerAnswers(c)) /\ WF_benchVars(EndAfterAnswer(c))
        /\ SF_benchVars(DialConnects(c))

(* Fairness.  The processes get the processor, alarms ring, and the server   *)
(* is up.                                                                    *)
BenchSpec ==
    /\ BenchSafeSpec
    /\ WF_benchVars(ParentStep)
    /\ \A c \in Ids : WF_benchVars(ClientStep(c)) /\ WF_benchVars(RingSetsFlag(c))
    /\ ServerServes

-----------------------------------------------------------------------------

\* Every time round its loop a client counts a success or a failure and not
\* both, whichever way it leaves it; at the end it takes at most one back.
CountsAddUp ==
    \A c \in Ids :
        LET counted == speed[c] + failed[c] IN
        CASE pc[c] \in {"none", "asleep", "dial", "test"} -> counted = trips[c]
          [] pc[c] = "exited" -> counted \in {trips[c], trips[c] - 1}
          [] OTHER -> counted = trips[c] - 1

\* The parent's totals and the pipe hold the reports of the clients that have
\* ended, each once, in whatever order they come; when it returns after the
\* last report none is missing.
TotalsAddUp ==
    LET ended == {c \in Ids : pc[c] = "exited"}
        speeds == [i \in DOMAIN pipe |-> pipe[i].speed]
        failures == [i \in DOMAIN pipe |-> pipe[i].failed]
    IN  /\ total.speed + SumFunction(speeds) = SumFunctionOnSet(speed, ended)
        /\ total.failed + SumFunction(failures) = SumFunctionOnSet(failed, ended)
        /\ left = 0 => ended = Ids

\* A client has one connection at a time; what it leaves open besides are the
\* sockets that did not connect.
SocketsClosed ==
    \A c \in Ids : fds[c] = leaked[c] + (IF Live(sock[c]) THEN 1 ELSE 0)

\* The requests, the reports and the sockets are accounted for, whenever the
\* server ends or resets a connection and whenever an alarm rings.
TripsSettled == CountsAddUp /\ TotalsAddUp /\ SocketsClosed

\* A keep-alive client that waits for a server it can no longer call.
OutOfSockets(c) == pc[c] = "dial" /\ leaked[c] = FdLimit

Ended(c) == pc[c] \in {"exited", "killed"} \/ OutOfSockets(c)

\* A benchmark of a server that is up comes to an end: every client ends, also
\* one whose alarm rings just before it waits for an answer, and the parent
\* gets to the result when all of them report.
BenchEnds ==
    (parent = "read") ~>
        /\ \A c \in Ids : Ended(c)
        /\ parent = "done" \/ \E c \in Ids : pc[c] # "exited"
=============================================================================
