-------------------------------- MODULE Buffer --------------------------------
(***************************************************************************)
(* The growing buffer in front of a socket (src/webserver/base/Buffer.h,    *)
(* Buffer.cc): one block of memory and two indices.  The bytes from         *)
(* readerIndex_ to writerIndex_ are readable; room is len_, behind which    *)
(* free_ bytes are allocated in advance.                                    *)
(*                                                                         *)
(* The bytes written are 1, 2, 3, ..., but for those that are NUL:          *)
(* append() copies with strncpy, which takes a NUL for the end.             *)
(***************************************************************************)
EXTENDS Integers, Sequences

CONSTANTS
    KInitialSize,
    KMaxPreAlloc,
    ExtraBuf,       \* the size of extrabuf in readFd
    Nuls,           \* where the stream has a NUL
    MaxWritten      \* bound: so many bytes are written

ASSUME ConstantsAssumption ==
    /\ KInitialSize \in Nat /\ KMaxPreAlloc \in Nat
    /\ ExtraBuf \in Nat /\ MaxWritten \in Nat

VARIABLES
    readerIndex, writerIndex,
    len,        \* len_
    free,       \* free_
    buf,        \* the memory at buf_
    written     \* the bytes written so far

vars == <<readerIndex, writerIndex, len, free, buf, written>>

\* What malloc and realloc leave in memory nobody has written.
Junk == -1

NUL == 0

Init ==
    /\ readerIndex = 0 /\ writerIndex = 0
    /\ len = KInitialSize /\ free = 0
    /\ buf = [i \in 0..(KInitialSize - 1) |-> Junk]
    /\ written = 0

ReadableBytes == writerIndex - readerIndex
WritableBytes == len - writerIndex

\* The n bytes that follow the first m.
Stream(m, n) == [i \in 1..n |-> IF m + i \in Nuls THEN NUL ELSE m + i]

\* The readable bytes.
Content == [i \in 1..ReadableBytes |-> buf[readerIndex + i - 1]]

-----------------------------------------------------------------------------
(* Taking bytes out.                                                        *)

\* The last byte taken as any other: the indices are left where they are.
Retrieve_KeepsIndices(n) ==
    /\ n \in 0..ReadableBytes
    /\ readerIndex' = readerIndex + n
    /\ UNCHANGED <<writerIndex, len, free, buf, written>>

\* retrieve(), and with it retrieveUntil(), retrieveReadable() and
\* retrieveAll(): callers take no more than is readable.
Retrieve(n) ==
    /\ n \in 0..ReadableBytes
    /\ IF n < ReadableBytes
          THEN readerIndex' = readerIndex + n /\ UNCHANGED writerIndex
          ELSE readerIndex' = 0 /\ writerIndex' = 0
    /\ UNCHANGED <<len, free, buf, written>>

-----------------------------------------------------------------------------
(* Putting bytes in.                                                        *)

\* The memory b with data stored from index at on.
Stored(b, at, data) ==
    [i \in DOMAIN b |-> IF i \in at..(at + Len(data) - 1) THEN data[i - at + 1]
                                                          ELSE b[i]]

\* realloc: the old bytes are kept.
Reallocated(b, size) ==
    [i \in 0..(size - 1) |-> IF i \in DOMAIN b THEN b[i] ELSE Junk]

\* How much makeSpace() allocates for newlen bytes.
Allocation(newlen) ==
    IF newlen < KMaxPreAlloc THEN 2 * newlen ELSE newlen + KMaxPreAlloc

\* What strncpy(3) makes of data: nothing is copied behind a NUL, and the rest
\* filled with NULs.
Copied(data) ==
    [i \in DOMAIN data |-> IF \E j \in 1..i : data[j] = NUL THEN NUL ELSE data[i]]

\* append() of data at index at to memory b of length l, ensureWritableBytes()
\* and makeSpace() included: the block only grows when len_ is too short, and
\* len_ is then just long enough.
AppendAt(b, at, l, data) ==
    LET newlen == at + Len(data) IN
    /\ writerIndex' = newlen
    /\ IF newlen <= l
         THEN buf' = Stored(b, at, Copied(data)) /\ UNCHANGED <<len, free>>
         ELSE /\ len' = newlen
              /\ free' = Allocation(newlen) - newlen
              /\ buf' = Stored(Reallocated(b, Allocation(newlen)), at, Copied(data))

Write(n) ==
    /\ n \in 0..(MaxWritten - written)
    /\ written' = written + n
    /\ UNCHANGED readerIndex

AppendBytes(n) ==
    /\ Write(n)
    /\ AppendAt(buf, writerIndex, len, Stream(written, n))

\* What did not fit is appended before writerIndex_ has moved.
ReadFd_ExtraFirst(n) ==
    /\ Write(n)
    /\ n <= WritableBytes + (IF WritableBytes < ExtraBuf THEN ExtraBuf ELSE 0)
    /\ IF n <= WritableBytes
         THEN /\ buf' = Stored(buf, writerIndex, Stream(written, n))
              /\ writerIndex' = writerIndex + n
              /\ UNCHANGED <<len, free>>
         ELSE AppendAt(Stored(buf, writerIndex, Stream(written, WritableBytes)),
                       writerIndex, len,
                       Stream(written + WritableBytes, n - WritableBytes))

\* readFd(): readv fills the room there is, byte by byte, and then extrabuf, if
\* that is the larger of the two; what is in extrabuf is appended.
ReadFd(n) ==
    /\ Write(n)
    /\ n <= WritableBytes + (IF WritableBytes < ExtraBuf THEN ExtraBuf ELSE 0)
    /\ IF n <= WritableBytes
         THEN /\ buf' = Stored(buf, writerIndex, Stream(written, n))
              /\ writerIndex' = writerIndex + n
              /\ UNCHANGED <<len, free>>
         ELSE AppendAt(Stored(buf, writerIndex, Stream(written, WritableBytes)),
                       len, len,
                       Stream(written + WritableBytes, n - WritableBytes))

-----------------------------------------------------------------------------

Next == \E n \in 0..MaxWritten : Retrieve(n) \/ AppendBytes(n) \/ ReadFd(n)

Spec == Init /\ [][Next]_vars

-----------------------------------------------------------------------------

\* The indices stay in the memory that is allocated, also what is allocated
\* in advance is accounted for, nothing readable was never written, and a
\* buffer that has run empty starts again at its beginning, so that it does
\* not creep through memory.
BufferSound ==
    /\ readerIndex \in Nat /\ writerIndex \in Nat /\ len \in Nat /\ free \in Nat
    /\ readerIndex <= writerIndex /\ writerIndex <= len
    /\ buf \in [0..((len + free) - 1) -> Nat \cup {Junk}]
    /\ written \in 0..MaxWritten
    /\ \A i \in readerIndex..(writerIndex - 1) : buf[i] # Junk
    /\ readerIndex = writerIndex => writerIndex = 0

Queue == INSTANCE ByteQueue WITH queue <- Content

\* The readable bytes are a queue with a place for each byte written: none is
\* doubled or out of order when the block is moved, when a read is continued
\* in extrabuf, or when indices start again at 0; and only the bytes behind a
\* NUL of the same append() are lost, to NULs.
ImplementsByteQueue == Queue!Spec

===============================================================================
