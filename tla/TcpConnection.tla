---------------------------- MODULE TcpConnection ----------------------------
(***************************************************************************)
(* The bytes of one connection (src/webserver/TcpConnection.cc): what a     *)
(* client sends is read, echoed by sendInLoop, kept in outputBuffer_ and    *)
(* written by handleWrite when the socket does not take it; shutdown()      *)
(* ends the output, handleClose the connection.                             *)
(*                                                                         *)
(* The client's stream is 1, 2, 3, ...; a unit is an amount of data the     *)
(* code never divides in the instance at hand.  The connection's life in    *)
(* the io loop, its object and its descriptor are the subject of IoLoop.tla.*)
(***************************************************************************)
EXTENDS Integers, Sequences

CONSTANTS
    SendBuffer, \* units the socket's send buffer takes
    Window,     \* units a client sends before it waits for their echo
    MaxUnits    \* bound: units a client sends

ASSUME ConstantsAssumption ==
    /\ SendBuffer \in Nat \ {0}
    /\ Window \in Nat /\ MaxUnits \in Nat

VARIABLES
    sent,       \* units the client has sent
    rcvQueue,   \* units in the receive buffer of the server's socket
    input,      \* inputBuffer_
    output,     \* outputBuffer_
    writing,    \* channel_->isWriting()
    sndQueue,   \* units on their way to the client
    fin,        \* shutdownWrite() was called
    received,   \* units the client has read
    peer,       \* the client's end
    sockError,  \* the error of the socket: pending until it is reported once
    state,      \* state_; "closed" after handleClose
    phase,      \* where the loop thread is; "killed" by SIGPIPE
    revents     \* events of this round not handled yet

serverVars == <<input, output, writing, state>>
clientVars == <<sent, received, peer>>
vars == <<clientVars, serverVars, rcvQueue, sndQueue, fin, sockError, phase, revents>>

\* getNextFreeConnection has just given the connection its descriptor.
Init ==
    /\ sent = 0
    /\ rcvQueue = <<>> /\ sndQueue = <<>>
    /\ input = <<>> /\ output = <<>>
    /\ writing = FALSE
    /\ fin = FALSE
    /\ received = <<>>
    /\ peer = "open"
    /\ sockError = "none"
    /\ state = "KConnected"
    /\ phase = "poll"
    /\ revents = {}

Smaller(a, b) == IF a < b THEN a ELSE b
First(seq, n) == SubSeq(seq, 1, n)
Rest(seq, n) == SubSeq(seq, n + 1, Len(seq))

-----------------------------------------------------------------------------
(* The client and the network.                                              *)

ClientSends ==
    /\ peer = "open" /\ state # "closed"
    /\ sent < MaxUnits /\ sent - Len(received) < Window
    /\ sent' = sent + 1
    /\ rcvQueue' = Append(rcvQueue, sent')
    /\ UNCHANGED <<received, peer, serverVars, sndQueue, fin, sockError, phase, revents>>

ClientReceives ==
    /\ sndQueue # <<>>
    /\ received' = Append(received, Head(sndQueue))
    /\ sndQueue' = Tail(sndQueue)
    /\ UNCHANGED <<sent, peer, serverVars, rcvQueue, fin, sockError, phase, revents>>

ClientCloses ==
    /\ peer = "open"
    /\ peer' = "closed"
    /\ UNCHANGED <<sent, received, serverVars, rcvQueue, sndQueue, fin, sockError,
                   phase, revents>>

\* A reset: what was under way to the client is lost.
ClientResets ==
    /\ peer # "reset" /\ state # "closed"
    /\ peer' = "reset"
    /\ sockError' = "pending"
    /\ sndQueue' = <<>>
    /\ UNCHANGED <<sent, received, serverVars, rcvQueue, fin, phase, revents>>

-----------------------------------------------------------------------------
(* write(2).                                                                *)

Room == SendBuffer - Len(sndQueue)

\* What the socket takes of data; a pending error is reported by one call,
\* and a call after that one gets EPIPE and SIGPIPE, which nobody ignores.
Taken(data) == IF sockError = "none" THEN Smaller(Room, Len(data)) ELSE 0

Write(data) ==
    /\ sndQueue' = sndQueue \o First(data, Taken(data))
    /\ sockError' = IF sockError = "none" THEN "none" ELSE "reported"
    /\ phase' = IF sockError = "reported" THEN "killed" ELSE phase

NoWrite == UNCHANGED <<sndQueue, sockError, phase>>

-----------------------------------------------------------------------------
(* TcpConnection.                                                           *)

\* The test for pending output forgotten.
MayWrite_Always == TRUE

MayWrite == ~writing /\ output = <<>>

\* sendInLoop: remaining is what a write that took something left over.  It
\* stays 0 when no write was tried, because output is pending, and when the
\* write failed with EWOULDBLOCK: then nothing is kept of data.
Remaining(data) ==
    IF MayWrite /\ Taken(data) > 0 THEN Rest(data, Taken(data)) ELSE <<>>

SendInLoop(data) ==
    /\ IF MayWrite THEN Write(data) ELSE NoWrite
    /\ output' = output \o Remaining(data)
    /\ writing' = (writing \/ Remaining(data) # <<>>)

\* send() without retrieveAll(), and retrieveAll() before send().
ReadData_Kept(n) ==
    /\ n \in 1..Len(rcvQueue)
    /\ rcvQueue' = Rest(rcvQueue, n)
    /\ input' = input \o First(rcvQueue, n)
    /\ IF state = "KConnected" THEN SendInLoop(input')
                               ELSE NoWrite /\ UNCHANGED <<output, writing>>
    /\ UNCHANGED <<state, fin>>
ReadData_Lost(n) ==
    /\ n \in 1..Len(rcvQueue)
    /\ rcvQueue' = Rest(rcvQueue, n)
    /\ input' = <<>>
    /\ NoWrite
    /\ UNCHANGED <<output, writing, state, fin>>

\* handleRead of n > 0: echoMessageCallback sends all of inputBuffer_, unless
\* the connection is being shut down.
ReadData(n) ==
    /\ n \in 1..Len(rcvQueue)
    /\ rcvQueue' = Rest(rcvQueue, n)
    /\ IF state = "KConnected"
         THEN SendInLoop(input \o First(rcvQueue, n)) /\ input' = <<>>
         ELSE /\ input' = input \o First(rcvQueue, n)
              /\ NoWrite /\ UNCHANGED <<output, writing>>
    /\ UNCHANGED <<state, fin>>

\* n < 0: ECONNRESET.
ReadError ==
    /\ rcvQueue = <<>> /\ sockError = "pending"
    /\ sockError' = "reported"
    /\ UNCHANGED <<serverVars, rcvQueue, sndQueue, fin, phase>>

\* handleClose: the buffers are emptied with the connection.
HandleClose ==
    /\ state' = "closed"
    /\ input' = <<>> /\ output' = <<>> /\ writing' = FALSE
    /\ rcvQueue' = <<>>
    /\ UNCHANGED <<sndQueue, fin, sockError, phase>>

\* n = 0.
ReadEnd ==
    /\ rcvQueue = <<>> /\ peer # "open" /\ sockError # "pending"
    /\ HandleClose

\* The test of isWriting() forgotten.
ShutdownInLoop_AtOnce(isWriting) == fin' = TRUE

ShutdownInLoop(isWriting) == fin' = (fin \/ ~isWriting)

\* handleWrite without disableWriting(), and without shutdownInLoop().
HandleWrite_StaysOn ==
    IF ~writing
      THEN NoWrite /\ UNCHANGED <<output, writing, fin>>
      ELSE /\ Write(output)
           /\ output' = Rest(output, Taken(output))
           /\ UNCHANGED <<writing, fin>>
HandleWrite_NoShutdown ==
    IF ~writing
      THEN NoWrite /\ UNCHANGED <<output, writing, fin>>
      ELSE /\ Write(output)
           /\ output' = Rest(output, Taken(output))
           /\ writing' = (output' # <<>>)
           /\ UNCHANGED fin

\* handleWrite.
HandleWrite ==
    IF ~writing
      THEN NoWrite /\ UNCHANGED <<output, writing, fin>>
      ELSE /\ Write(output)
           /\ output' = Rest(output, Taken(output))
           /\ writing' = (output' # <<>>)
           /\ IF output' = <<>> /\ state = "KDisconnecting"
                THEN ShutdownInLoop(writing') ELSE UNCHANGED fin

-----------------------------------------------------------------------------
(* The io loop, as far as this channel is concerned.                        *)

Ready ==
    {e \in {"read"} : rcvQueue # <<>> \/ peer # "open"}
      \cup {e \in {"write"} : writing /\ (Room > 0 \/ sockError # "none")}
      \cup {e \in {"error"} : sockError = "pending"}

Poll ==
    /\ phase = "poll" /\ state # "closed"
    /\ Ready # {}
    /\ revents' = Ready
    /\ phase' = "handle"
    /\ UNCHANGED <<clientVars, serverVars, rcvQueue, sndQueue, fin, sockError>>

\* handleError reads and thereby clears the error.
ErrorCallback ==
    /\ phase = "handle" /\ "error" \in revents
    /\ sockError' = IF sockError = "pending" THEN "reported" ELSE sockError
    /\ revents' = revents \ {"error"}
    /\ UNCHANGED <<clientVars, serverVars, rcvQueue, sndQueue, fin, phase>>

ReadCallback ==
    /\ phase = "handle" /\ "error" \notin revents /\ "read" \in revents
    /\ (\E n \in 1..Len(rcvQueue) : ReadData(n)) \/ ReadError \/ ReadEnd
    /\ revents' = revents \ {"read"}
    /\ UNCHANGED clientVars

WriteCallback ==
    /\ phase = "handle" /\ revents = {"write"}
    /\ HandleWrite
    /\ revents' = {}
    /\ UNCHANGED <<clientVars, rcvQueue, input, state>>

EndEvent ==
    /\ phase = "handle" /\ revents = {}
    /\ phase' = "poll"
    /\ UNCHANGED <<clientVars, serverVars, rcvQueue, sndQueue, fin, sockError, revents>>

\* removeExpiredConnection, in the handler of the timerfd: shutdown(), and
\* later forceCloseInLoop.
Shutdown ==
    /\ phase = "poll" /\ state = "KConnected"
    /\ state' = "KDisconnecting"
    /\ ShutdownInLoop(writing)
    /\ UNCHANGED <<clientVars, input, output, writing, rcvQueue, sndQueue, sockError,
                   phase, revents>>

ForceClose ==
    /\ phase = "poll" /\ state = "KDisconnecting"
    /\ HandleClose
    /\ UNCHANGED <<clientVars, revents>>

LoopStep == Poll \/ ErrorCallback \/ ReadCallback \/ WriteCallback \/ EndEvent

Next ==
    \/ ClientSends \/ ClientReceives \/ ClientCloses \/ ClientResets
    \/ LoopStep \/ Shutdown \/ ForceClose

SafeSpec == Init /\ [][Next]_vars

(* Fairness.  The loop handles what epoll_wait reports (IoLoop.tla), and a  *)
(* client reads what reaches it.  The timers are not needed.                *)
Spec == SafeSpec /\ WF_vars(LoopStep) /\ WF_vars(ClientReceives)

-----------------------------------------------------------------------------

Units == 1..MaxUnits

\* The variables have their types; what was read is not kept while the
\* connection is up.
TypeOK ==
    /\ sent \in 0..MaxUnits
    /\ rcvQueue \in Seq(Units) /\ input \in Seq(Units) /\ output \in Seq(Units)
    /\ sndQueue \in Seq(Units) /\ Len(sndQueue) <= SendBuffer
    /\ received \in Seq(Units)
    /\ writing \in BOOLEAN /\ fin \in BOOLEAN
    /\ peer \in {"open", "closed", "reset"}
    /\ sockError \in {"none", "pending", "reported"}
    /\ state \in {"KConnected", "KDisconnecting", "closed"}
    /\ phase \in {"poll", "handle", "killed"}
    /\ revents \in SUBSET {"error", "read", "write"}
    /\ state = "KConnected" => input = <<>>

\* Everything that is or was on its way through the connection, oldest first.
inTransit == received \o sndQueue \o output \o input \o rcvQueue

\* No unit overtakes another and none is delivered twice, whatever is lost.
OrderKept ==
    \A i, j \in DOMAIN inTransit : i < j => inTransit[i] < inTransit[j]

\* The channel asks for EPOLLOUT exactly when there is output: output is never
\* left behind, and an idle connection does not keep the loop busy.
WritingIffOutput == writing <=> output # <<>>

\* shutdown() is graceful: the end of the stream is sent after all of the
\* output, and nothing is written after it.
FinIsLast ==
    [][/\ fin' => output' = <<>>
       /\ fin => received' \o sndQueue' \in {received \o sndQueue, received}]_vars

\* A connection that is shut down sends its end of the stream.
ShutdownCompletes ==
    state = "KDisconnecting" ~> (fin \/ state = "closed" \/ phase = "killed")

\* Nothing is dropped from a connection that is up, unless its socket has no
\* room or older output is pending: sendInLoop leaves remaining at 0 then.  The
\* socket may have room again, as its read callback runs before the write
\* callback.
DropsOnlyWhenFull ==
    [][Len(inTransit') < Len(inTransit) =>
         output # <<>> \/ Room = 0 \/ sockError' # "none" \/ state' = "closed"]_vars

=============================================================================
