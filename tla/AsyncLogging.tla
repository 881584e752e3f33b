---------------------------- MODULE AsyncLogging ----------------------------
(***************************************************************************)
(* The asynchronous log (src/webserver/base/AsyncLogging.cc): threads that  *)
(* append lines to the current buffer, and the back end that swaps full     *)
(* buffers for its own two spare ones and writes them to its LogFile        *)
(* (LogFile.tla), whose variables are part of this module's state.          *)
(*                                                                         *)
(* The lines are 1, 2, 3, ... in the order append() gets the mutex for      *)
(* them, whichever thread they come from.  A buffer is the sequence of the  *)
(* lines in it; an empty one that is kept for later is only known to be     *)
(* there or not.                                                            *)
(***************************************************************************)
EXTENDS Integers, Sequences, SequencesExt

CONSTANTS
    LinesPerBuffer, \* lines a buffer takes
    MaxBatch,       \* the back end drops buffers of a batch longer than this
    MaxLines,       \* bound: lines appended
    rollSize, flushInterval, flushEveryN, kRollPerSeconds, MaxTime \* LogFile

\* append() puts a line into a fresh buffer without another look at its size.
ASSUME ConstantsAssumption ==
    /\ LinesPerBuffer \in Nat \ {0}
    /\ MaxBatch \in Nat /\ MaxBatch >= 2
    /\ MaxLines \in Nat
    /\ rollSize \in Nat /\ flushInterval \in Nat /\ flushEveryN \in Nat
    /\ kRollPerSeconds \in Nat \ {0} /\ MaxTime \in Nat \ {0}

VARIABLES
    appended,       \* lines appended so far
    currentBuffer,
    nextBuffer,     \* is nextBuffer_ not null?
    buffers,        \* buffers_, the full ones
    newBuffer1, newBuffer2, \* the spare buffers of the back end: not null?
    buffersToWrite,
    phase,          \* where the back end is in threadFunc()
    signalled,      \* a thread asleep in cond_ has been signalled
    running,        \* running_
    stop,           \* the thread that calls stop()
    output,         \* how many of buffersToWrite output has been given
    dropped,        \* the lines the back end threw away
    now, files, count, startOfPeriod, lastRoll, lastFlush \* LogFile

frontVars == <<appended, currentBuffer, nextBuffer, buffers>>
batchVars == <<newBuffer1, newBuffer2, buffersToWrite, output, dropped>>
fileVars == <<files, count, startOfPeriod, lastRoll, lastFlush>>
backVars == <<batchVars, fileVars, now>>
vars == <<frontVars, backVars, phase, signalled, running, stop>>

\* The LogFile of threadFunc().
Output == INSTANCE LogFile

\* start() has returned, and the back end has constructed its LogFile.
Init ==
    /\ appended = 0
    /\ currentBuffer = <<>>
    /\ nextBuffer = TRUE
    /\ buffers = <<>>
    /\ newBuffer1 = TRUE /\ newBuffer2 = TRUE
    /\ buffersToWrite = <<>>
    /\ phase = "test"
    /\ signalled = FALSE
    /\ running = TRUE
    /\ stop = "not called"
    /\ output = 0 /\ dropped = {}
    /\ Output!Init

\* The end of the buffer taken for room.
Fits_AtLimit(buffer) == Len(buffer) <= LinesPerBuffer

Fits(buffer) == Len(buffer) < LinesPerBuffer

\* cond_.notify(): it has no effect when nobody waits.
Notify == signalled' = (signalled \/ phase = "asleep")

-----------------------------------------------------------------------------
(* append().                                                                *)

\* A line that does not fit goes to nextBuffer_ or to a new buffer.
AppendLine ==
    /\ appended < MaxLines
    /\ appended' = appended + 1
    /\ IF Fits(currentBuffer)
         THEN /\ currentBuffer' = Append(currentBuffer, appended')
              /\ UNCHANGED <<buffers, nextBuffer, signalled>>
         ELSE /\ buffers' = Append(buffers, currentBuffer)
              /\ currentBuffer' = <<appended'>>
              /\ nextBuffer' = FALSE
              /\ Notify
    /\ UNCHANGED <<backVars, phase, running, stop>>

-----------------------------------------------------------------------------
(* threadFunc().                                                            *)

TestRunning ==
    /\ phase = "test"
    /\ phase' = IF running THEN "lock" ELSE "exited"
    /\ UNCHANGED <<frontVars, backVars, signalled, running, stop>>

Sleep ==
    /\ phase = "lock" /\ buffers = <<>>
    /\ phase' = "asleep"
    /\ signalled' = FALSE
    /\ UNCHANGED <<frontVars, backVars, running, stop>>

WakeUp ==
    /\ phase = "asleep" /\ signalled
    /\ phase' = "swap"
    /\ UNCHANGED <<frontVars, backVars, signalled, running, stop>>

\* The wait for flushInterval_ seconds is over, or ends for no reason.
Timeout ==
    /\ phase = "asleep"
    /\ phase' = "swap"
    /\ UNCHANGED <<frontVars, backVars, signalled, running, stop>>

\* Only full buffers are taken; the current one is emptied without being
\* taken.
Swap_FullOnly ==
    /\ phase = "swap" \/ (phase = "lock" /\ buffers # <<>>)
    /\ buffersToWrite' = buffers
    /\ buffers' = <<>>
    /\ newBuffer2' = (newBuffer2 /\ nextBuffer)
    /\ nextBuffer' = TRUE
    /\ phase' = IF buffersToWrite' = <<>> THEN "test" ELSE "drop"
    /\ UNCHANGED <<appended, currentBuffer, newBuffer1, signalled, running, stop,
                   output, dropped, fileVars, now>>
Swap_CurrentLost ==
    /\ phase = "swap" \/ (phase = "lock" /\ buffers # <<>>)
    /\ buffersToWrite' = buffers
    /\ buffers' = <<>>
    /\ currentBuffer' = <<>>
    /\ newBuffer1' = FALSE
    /\ newBuffer2' = (newBuffer2 /\ nextBuffer)
    /\ nextBuffer' = TRUE
    /\ phase' = "drop"
    /\ UNCHANGED <<appended, signalled, running, stop, output, dropped, fileVars, now>>

\* All buffers that have lines are taken, and the front end gets the spares.
Swap ==
    /\ phase = "swap" \/ (phase = "lock" /\ buffers # <<>>)
    /\ buffersToWrite' = Append(buffers, currentBuffer)
    /\ buffers' = <<>>
    /\ currentBuffer' = <<>>
    /\ newBuffer1' = FALSE
    /\ newBuffer2' = (newBuffer2 /\ nextBuffer)
    /\ nextBuffer' = TRUE
    /\ phase' = "drop"
    /\ UNCHANGED <<appended, signalled, running, stop, output, dropped, fileVars, now>>

\* Of a batch that is too long one buffer is kept.
Kept_One(batch) == IF Len(batch) > MaxBatch THEN SubSeq(batch, 1, 1) ELSE batch

\* What is left of a batch: of one that is too long only two buffers.
Kept(batch) == IF Len(batch) > MaxBatch THEN SubSeq(batch, 1, 2) ELSE batch

DropExcess ==
    /\ phase = "drop"
    /\ buffersToWrite' = Kept(buffersToWrite)
    /\ dropped' = dropped \cup (ToSet(FlattenSeq(buffersToWrite))
                                  \ ToSet(FlattenSeq(buffersToWrite')))
    /\ phase' = "write"
    /\ UNCHANGED <<frontVars, newBuffer1, newBuffer2, output, fileVars, now,
                   signalled, running, stop>>

\* output.append() of the next buffer.
WriteBuffer ==
    /\ phase = "write" /\ output < Len(buffersToWrite)
    /\ Output!AppendLines(buffersToWrite[output + 1])
    /\ output' = output + 1
    /\ UNCHANGED <<frontVars, newBuffer1, newBuffer2, buffersToWrite, dropped, now,
                   phase, signalled, running, stop>>

\* The buffers written become the spares again, newBuffer1 first, and the file
\* is flushed.
Recycle ==
    /\ phase = "write" /\ output = Len(buffersToWrite)
    /\ newBuffer1' = (newBuffer1 \/ Len(buffersToWrite) > 0)
    /\ newBuffer2' = (newBuffer2 \/ Len(buffersToWrite) > (IF newBuffer1 THEN 0 ELSE 1))
    /\ buffersToWrite' = <<>> /\ output' = 0
    /\ Output!Flush
    /\ phase' = "test"
    /\ UNCHANGED <<frontVars, dropped, now, signalled, running, stop>>

\* The wall clock.
Tick ==
    /\ Output!Tick
    /\ UNCHANGED <<frontVars, batchVars, phase, signalled, running, stop>>

-----------------------------------------------------------------------------
(* stop(): running_ is stored and cond_ signalled without the mutex.        *)

StopStore ==
    /\ stop = "not called"
    /\ running' = FALSE
    /\ stop' = "stored"
    /\ UNCHANGED <<frontVars, backVars, phase, signalled>>

StopNotify ==
    /\ stop = "stored"
    /\ Notify
    /\ stop' = "joining"
    /\ UNCHANGED <<frontVars, backVars, phase, running>>

Joined ==
    /\ stop = "joining" /\ phase = "exited"
    /\ stop' = "returned"
    /\ UNCHANGED <<frontVars, backVars, phase, signalled, running>>

-----------------------------------------------------------------------------

BackEndStep ==
    TestRunning \/ Sleep \/ WakeUp \/ Swap \/ DropExcess \/ WriteBuffer \/ Recycle

Next ==
    \/ AppendLine
    \/ BackEndStep
    \/ Timeout
    \/ Tick
    \/ StopStore \/ StopNotify \/ Joined

SafeSpec == Init /\ [][Next]_vars

(* Fairness.  The back end gets the processor and the mutex in the end, and  *)
(* stop() goes on once it is called.  A wait times out, though it is for a   *)
(* time of CLOCK_REALTIME: the clock is not set back for ever.               *)
Spec ==
    /\ SafeSpec
    /\ WF_vars(BackEndStep)
    /\ WF_vars(Timeout)
    /\ WF_vars(StopNotify) /\ WF_vars(Joined)

-----------------------------------------------------------------------------

Lines == 1..MaxLines
Buffers == {lines \in Seq(Lines) : Len(lines) <= LinesPerBuffer}

\* The variables have their types: no buffer overflows.
TypeOK ==
    /\ appended \in 0..MaxLines
    /\ currentBuffer \in Buffers
    /\ buffers \in Seq(Buffers) /\ buffersToWrite \in Seq(Buffers)
    /\ {nextBuffer, newBuffer1, newBuffer2, signalled, running} \subseteq BOOLEAN
    /\ phase \in {"test", "lock", "asleep", "swap", "drop", "write", "exited"}
    /\ stop \in {"not called", "stored", "joining", "returned"}
    /\ output \in 0..Len(buffersToWrite) /\ dropped \in SUBSET Lines
    /\ Output!TypeOK

WrittenLines == FlattenSeq([i \in DOMAIN files |-> files[i].lines])

\* The lines that are in the files or on their way to them, oldest first.
inOrder ==
    WrittenLines \o FlattenSeq(SubSeq(buffersToWrite, output + 1, Len(buffersToWrite)))
      \o FlattenSeq(buffers) \o currentBuffer

\* No swap and no new file loses a line, writes it twice or out of order: each
\* line is in one of the files, on its way, or was dropped because the batch
\* was too long.
LogComplete ==
    /\ \A i, j \in DOMAIN inOrder : i < j => inOrder[i] < inOrder[j]
    /\ ToSet(inOrder) \cup dropped = 1..appended
    /\ ToSet(inOrder) \cap dropped = {}

\* The files can be read as one log by their names, whatever the clock does,
\* and when the back end goes back to wait, all it was given is on disk: a crash
\* then loses only lines still in the buffers of the front end.
FilesReadable ==
    /\ Output!FilesSorted
    /\ phase \in {"test", "lock", "asleep", "exited"} => Output!AllFlushed

\* The pointers the back end moves are never null (the assertions of
\* AsyncLogging.cc:58, 59, 77, 99 and 107): the front end uses nextBuffer_
\* up only together with a full buffer, which comes back as a spare.
SparesAtHand ==
    /\ ~nextBuffer => buffers # <<>>
    /\ phase \notin {"drop", "write"} => newBuffer1 /\ newBuffer2
    /\ phase \in {"drop", "write"} =>
         Len(Kept(buffersToWrite)) >= (IF newBuffer2 THEN 1 ELSE 2)

\* No signal is lost: the back end does not sleep on a full buffer.
NoFullBufferWaits == phase = "asleep" /\ buffers # <<>> => signalled

\* The back end is awake when it has a full buffer to fetch, and then has the
\* buffers to give in exchange.
BackEndReady == SparesAtHand /\ NoFullBufferWaits

OnDisk == UNION {ToSet(SubSeq(files[i].lines, 1, files[i].flushed)) : i \in DOMAIN files}

\* A line gets to the disk, also when its buffer never becomes full and the
\* clock is set back, unless it is dropped or the log is stopped.
LinesReachDisk ==
    \A l \in Lines : (l <= appended) ~> (l \in OnDisk \cup dropped \/ ~running)

\* stop() returns, also when its signal comes before the back end waits.
StopReturns == (stop = "stored") ~> (stop = "returned")

\* What the log owes its users in the end.
LogServes == LinesReachDisk /\ StopReturns
=============================================================================
