------------------------------- MODULE LogFile -------------------------------
(***************************************************************************)
(* The files behind the log (src/webserver/base/LogFile.cc, FileUtil.cc):   *)
(* append() writes to the current file and decides by its size, the number  *)
(* of calls and the time whether to go on to a new one or to flush.         *)
(*                                                                         *)
(* A file is named by the second it was opened in.  The disk takes what it  *)
(* is given; until a flush that may be in the buffer of the FILE only.      *)
(***************************************************************************)
EXTENDS Integers, Sequences

CONSTANTS
    \* All are natural numbers, the last two not 0 (AsyncLogging assumes it).
    rollSize,           \* rollSize_, in lines
    flushInterval,      \* flushInterval_, in seconds
    flushEveryN,        \* flushEveryN_
    kRollPerSeconds,    \* kRollPerSeconds_
    MaxTime             \* bound: the clock stays in 1..MaxTime

VARIABLES
    now,            \* time(NULL)
    files,          \* the files opened so far, the last one being file_
    count,          \* count_
    startOfPeriod, lastRoll, lastFlush

logFileVars == <<files, count, startOfPeriod, lastRoll, lastFlush>>

Period(t) == (t \div kRollPerSeconds) * kRollPerSeconds

NewFile == [opened |-> now, lines |-> <<>>, flushed |-> 0]

\* The constructor; its rollFile() opens the first file.
Init ==
    /\ now = 1
    /\ files = <<NewFile>>
    /\ count = 0
    /\ startOfPeriod = Period(now)
    /\ lastRoll = now /\ lastFlush = now

Last(fs) == fs[Len(fs)]
Flushed(fs) == [fs EXCEPT ![Len(fs)].flushed = Len(Last(fs).lines)]
Extended(fs, lines) == [fs EXCEPT ![Len(fs)].lines = @ \o lines]

\* Rolls also when the clock has been set back.
Later_Different == now # lastRoll

Later == now > lastRoll

\* The count matters only up to flushEveryN_.
Counted(c) == IF c > flushEveryN THEN flushEveryN ELSE c

\* rollFile() with the files as fs: at most once in a second.  The file that is
\* replaced is closed, which flushes it.
RollFile(fs) ==
    IF Later
      THEN /\ lastRoll' = now /\ lastFlush' = now
           /\ startOfPeriod' = Period(now)
           /\ files' = Append(Flushed(fs), NewFile)
      ELSE files' = fs /\ UNCHANGED <<lastRoll, lastFlush, startOfPeriod>>

\* What append_unlocked() does every flushEveryN_ counts, two a call.
RollOrFlush(fs) ==
    IF Period(now) # startOfPeriod
      THEN RollFile(fs)
      ELSE /\ IF now - lastFlush > flushInterval
                THEN lastFlush' = now /\ files' = Flushed(fs)
                ELSE files' = fs /\ UNCHANGED lastFlush
           /\ UNCHANGED <<lastRoll, startOfPeriod>>

\* append(): the lines of one call, and what follows from them.
AppendLines(lines) ==
    LET fs == Extended(files, lines) IN
    IF Len(Last(fs).lines) > rollSize
      THEN count' = Counted(count + 1) /\ RollFile(fs)
      ELSE IF count + 2 > flushEveryN
        THEN count' = 0 /\ RollOrFlush(fs)
        ELSE count' = Counted(count + 2) /\ files' = fs
             /\ UNCHANGED <<startOfPeriod, lastRoll, lastFlush>>

Flush ==
    /\ files' = Flushed(files)
    /\ UNCHANGED <<count, startOfPeriod, lastRoll, lastFlush>>

\* Time passes, or the clock is set back.
Tick ==
    /\ now' \in {now + 1, now - 1} \cap 1..MaxTime
    /\ UNCHANGED logFileVars

-----------------------------------------------------------------------------

TypeOK ==
    /\ {now, startOfPeriod, lastRoll, lastFlush, count} \subseteq Nat
    /\ files # <<>>
    /\ files \in Seq([opened : 1..MaxTime, lines : Seq(Nat), flushed : Nat])

\* Each file has a name of its own and they sort by their names, also when the
\* clock has been set back; a file that was replaced is on disk.
FilesSorted ==
    \A i, j \in DOMAIN files : i < j =>
        /\ files[i].opened < files[j].opened
        /\ files[i].flushed = Len(files[i].lines)

\* Everything written is on disk.
AllFlushed == Last(files).flushed = Len(Last(files).lines)
==============================================================================
