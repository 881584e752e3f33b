----------------------------- MODULE Http_proofs -----------------------------
(***************************************************************************)
(* Proofs about what serves a request and about what sends it: the buffer a *)
(* request is read into (Buffer.tla), the handler that parses and answers   *)
(* it (HttpData.tla), and the load generator that asks for it and counts    *)
(* the answers (WebBench.tla).  Every theorem is about the specification of *)
(* one of them; they share the lemmas about sequences.                      *)
(***************************************************************************)
EXTENDS Buffer, HttpData, WebBench, SequenceTheorems, FiniteSetTheorems, TLAPS

-----------------------------------------------------------------------------
(* Buffer: the indices stay in the memory allocated, and the readable bytes *)
(* are a queue of the bytes written, for every initial size, every growth   *)
(* limit, every size of extrabuf, every bound on what is written and NULs   *)
(* at any places.                                                           *)

\* The n bytes that follow the first m are a sequence of n numbers, none Junk,
\* and so is what strncpy makes of them.
LEMMA StreamType ==
    ASSUME NEW m \in Nat, NEW n \in Nat
    PROVE  /\ Stream(m, n) \in Seq(Nat) /\ Len(Stream(m, n)) = n
           /\ Copied(Stream(m, n)) \in Seq(Nat) /\ Len(Copied(Stream(m, n))) = n
  <1> DEFINE s == Stream(m, n)
             t == Copied(s)
  <1>1. s \in [1..n -> Nat]
    BY DEF Stream, NUL
  <1>2. \A i \in 1..n : s[i] \in Nat
    BY <1>1
  <1>3. DOMAIN s = 1..n
    BY <1>1
  <1> HIDE DEF s
  <1>4. t \in [1..n -> Nat]
    BY <1>2, <1>3 DEF Copied, NUL
  <1> HIDE DEF t
  <1>5. s \in Seq(Nat) /\ Len(s) = n /\ t \in Seq(Nat) /\ Len(t) = n
    BY <1>1, <1>4
  <1> QED
    BY <1>5 DEF s, t

\* What Allocation() gives is as much as was asked for.
LEMMA AllocationEnough ==
    ASSUME NEW newlen \in Nat
    PROVE  Allocation(newlen) \in Nat /\ newlen <= Allocation(newlen)
  BY ConstantsAssumption DEF Allocation

\* The bytes of memory b from index r up to, but not including, w.
Window(b, r, w) == [i \in 1..(w - r) |-> b[r + i - 1]]

\* None of them is Junk.
Numbers(b, r, w) == \A i \in r..(w - 1) : b[i] \in Nat

\* The sequence s has them in it.
Lists(s, b, r, w) ==
    /\ s \in Seq(Nat) /\ Len(s) = w - r
    /\ \A i \in 1..(w - r) : s[i] = b[r + i - 1]

\* A window is a sequence.
LEMMA WindowType ==
    ASSUME NEW b, NEW r \in Nat, NEW w \in Nat, r <= w, Numbers(b, r, w)
    PROVE  Lists(Window(b, r, w), b, r, w)
  <1>1. Window(b, r, w) \in [1..(w - r) -> Nat]
    BY DEF Window, Numbers
  <1>2. w - r \in Nat
    OBVIOUS
  <1>3. \A i \in 1..(w - r) : Window(b, r, w)[i] = b[r + i - 1]
    BY DEF Window
  <1>4. Window(b, r, w) \in Seq(Nat)
    BY <1>1, <1>2
  <1>5. Len(Window(b, r, w)) = w - r
    BY <1>1, <1>2
  <1> QED
    BY <1>3, <1>4, <1>5 DEF Lists

\* A sequence that begins like s and goes on like t is their concatenation.
LEMMA IsConcat ==
    ASSUME NEW s \in Seq(Nat), NEW t \in Seq(Nat), NEW u \in Seq(Nat),
           Len(u) = Len(s) + Len(t),
           \A i \in 1..Len(s) : u[i] = s[i],
           \A i \in 1..Len(t) : u[Len(s) + i] = t[i]
    PROVE  u = s \o t
  <1>1. /\ s \o t \in Seq(Nat) /\ Len(s \o t) = Len(s) + Len(t)
        /\ \A i \in 1..(Len(s) + Len(t)) :
             (s \o t)[i] = IF i <= Len(s) THEN s[i] ELSE t[i - Len(s)]
    BY ConcatProperties
  <1>2. ASSUME NEW i \in 1..Len(u) PROVE u[i] = (s \o t)[i]
    <2>1. CASE i <= Len(s)
      BY <1>1, <2>1
    <2>2. CASE i > Len(s)
      <3>1. i - Len(s) \in 1..Len(t) /\ Len(s) + (i - Len(s)) = i
        BY <2>2
      <3>2. u[i] = t[i - Len(s)]
        BY <3>1
      <3> QED
        BY <1>1, <2>2, <3>2
    <2> QED
      BY <2>1, <2>2
  <1> QED
    BY <1>1, <1>2, SeqEqual

\* Memory c of the given size has the bytes of b before index at, and data from
\* there on.
Holds(c, size, b, at, data) ==
    /\ c \in [0..(size - 1) -> Nat \cup {Junk}]
    /\ \A i \in 0..(at - 1) : c[i] = b[i]
    /\ \A i \in at..(at + Len(data) - 1) : c[i] = data[i - at + 1]

\* The window of c up to v is that of b up to w, and behind it the data.
Longer(c, v, b, r, w, data) == Window(c, r, v) = Window(b, r, w) \o data

\* Data stored behind a window makes the window longer by the data.
LEMMA WindowAppend ==
    ASSUME NEW b, NEW c, NEW size, NEW r \in Nat, NEW w \in Nat, r <= w,
           NEW data \in Seq(Nat), NEW n \in Nat, n = Len(data),
           Numbers(b, r, w),
           Holds(c, size, b, w, data), NEW v \in Nat, v = w + n
    PROVE  Longer(c, v, b, r, w, data)
  <1>0. /\ \A i \in r..(w - 1) : c[i] = b[i] /\ b[i] \in Nat
        /\ \A i \in w..(w + n - 1) : c[i] = data[i - w + 1]
    <2>1. \A i \in r..(w - 1) : i \in 0..(w - 1)
      OBVIOUS
    <2> QED
      BY <2>1 DEF Holds, Numbers
  <1> SUFFICES Window(c, r, w + n) = Window(b, r, w) \o data
    BY DEF Longer
  <1>1. /\ Window(b, r, w) \in Seq(Nat) /\ Len(Window(b, r, w)) = w - r
        /\ \A i \in 1..(w - r) : Window(b, r, w)[i] = b[r + i - 1]
    <2>1. Lists(Window(b, r, w), b, r, w)
      BY WindowType
    <2> QED
      BY <2>1 DEF Lists
  <1>2. \A k \in 1..n : data[k] \in Nat
    OBVIOUS
  <1>3. ASSUME NEW i \in r..((w + n) - 1) PROVE c[i] \in Nat
    <2>1. CASE i < w
      <3>1. i \in r..(w - 1)
        BY <2>1
      <3> QED
        BY <1>0, <3>1, Zenon
    <2>2. CASE i >= w
      <3>1. i \in w..(w + n - 1) /\ i - w + 1 \in 1..n
        BY <2>2
      <3> QED
        BY <1>0, <1>2, <3>1
    <2> QED
      BY <2>1, <2>2
  <1>4. w + n \in Nat /\ r <= w + n
    OBVIOUS
  <1>5. /\ Window(c, r, w + n) \in Seq(Nat) /\ Len(Window(c, r, w + n)) = w + n - r
        /\ \A i \in 1..(w + n - r) : Window(c, r, w + n)[i] = c[r + i - 1]
    <2>1. Numbers(c, r, w + n)
      BY <1>3, Zenon DEF Numbers
    <2>2. Lists(Window(c, r, w + n), c, r, w + n)
      BY <1>4, <2>1, WindowType
    <2>3. w + n - r = (w + n) - r
      OBVIOUS
    <2> QED
      BY <2>2, <2>3, Zenon DEF Lists
  <1>6. ASSUME NEW i \in 1..(w - r)
        PROVE  Window(c, r, w + n)[i] = Window(b, r, w)[i]
    <2>1. r + i - 1 \in r..(w - 1) /\ i \in 1..(w + n - r)
      OBVIOUS
    <2> QED
      BY <1>0, <1>1, <1>5, <2>1
  <1>7. ASSUME NEW i \in 1..n
        PROVE  Window(c, r, w + n)[(w - r) + i] = data[i]
    <2>1. /\ (w - r) + i \in 1..(w + n - r)
          /\ r + ((w - r) + i) - 1 = w + i - 1
          /\ w + i - 1 \in w..(w + n - 1)
          /\ (w + i - 1) - w + 1 = i
      OBVIOUS
    <2>2. Window(c, r, w + n)[(w - r) + i] = c[w + i - 1]
      BY <1>5, <2>1
    <2>3. c[w + i - 1] = data[i]
      BY <1>0, <2>1
    <2> QED
      BY <2>2, <2>3
  <1>8. w + n - r = (w - r) + n
    OBVIOUS
  <1>9. Len(Window(c, r, w + n)) = Len(Window(b, r, w)) + Len(data)
    BY <1>1, <1>5, <1>8
  <1>10. \A i \in 1..Len(Window(b, r, w)) : Window(c, r, w + n)[i] = Window(b, r, w)[i]
    BY <1>1, <1>6
  <1>11. \A i \in 1..Len(data) :
           Window(c, r, w + n)[Len(Window(b, r, w)) + i] = data[i]
    BY <1>1, <1>7
  <1> QED
    BY <1>1, <1>5, <1>9, <1>10, <1>11, IsConcat, Zenon

-----------------------------------------------------------------------------
(* What storing and allocating do to memory.                                *)

\* Storing changes the bytes it is given room for, and no other.
LEMMA StoredHolds ==
    ASSUME NEW size \in Nat, NEW b \in [0..(size - 1) -> Nat \cup {Junk}],
           NEW at \in Nat, NEW data \in Seq(Nat), NEW n \in Nat, n = Len(data),
           at + n <= size
    PROVE  Holds(Stored(b, at, data), size, b, at, data)
  <1> DEFINE c == Stored(b, at, data)
  <1>1. \A k \in 1..n : data[k] \in Nat
    OBVIOUS
  <1>2. c = [i \in 0..(size - 1) |->
               IF i \in at..(at + n - 1) THEN data[i - at + 1] ELSE b[i]]
    BY DEF Stored
  <1>3. ASSUME NEW i \in at..(at + n - 1)
        PROVE  i \in 0..(size - 1) /\ c[i] = data[i - at + 1] /\ c[i] \in Nat
    <2>1. i \in 0..(size - 1) /\ i - at + 1 \in 1..n
      OBVIOUS
    <2>2. c[i] = data[i - at + 1]
      BY <1>2, <2>1
    <2> QED
      BY <1>1, <2>1, <2>2
  <1>4. ASSUME NEW i \in 0..(size - 1), i \notin at..(at + n - 1)
        PROVE  c[i] = b[i] /\ c[i] \in Nat \cup {Junk}
    BY <1>2, <1>4
  <1>5. \A i \in 0..(at - 1) : i \in 0..(size - 1) /\ i \notin at..(at + n - 1)
    OBVIOUS
  <1>6. \A i \in 0..(size - 1) : c[i] \in Nat \cup {Junk}
    BY <1>3, <1>4
  <1>7. c \in [0..(size - 1) -> Nat \cup {Junk}]
    BY <1>2, <1>6
  <1> QED
    BY <1>3, <1>4, <1>5, <1>7 DEF Holds

\* What append() does to memory b of the given size, of which the first len
\* bytes may be used, when all before index at is to be kept.
LEMMA AppendHolds ==
    ASSUME len \in Nat, free \in Nat,
           NEW size \in Nat, size = len + free,
           NEW b \in [0..(size - 1) -> Nat \cup {Junk}],
           NEW at \in Nat, at <= len, NEW m \in Nat, NEW n \in Nat,
           AppendAt(b, at, len, Stream(m, n))
    PROVE  /\ writerIndex' = at + n
           /\ len' \in Nat /\ free' \in Nat /\ at + n <= len'
           /\ Holds(buf', len' + free', b, at, Copied(Stream(m, n)))
  <1>1. PICK data : data = Copied(Stream(m, n))
    OBVIOUS
  <1>2. Len(Stream(m, n)) = n /\ data \in Seq(Nat) /\ Len(data) = n
    BY <1>1, StreamType
  <1>3. /\ writerIndex' = at + n
        /\ IF at + n <= len
             THEN buf' = Stored(b, at, data) /\ UNCHANGED <<len, free>>
             ELSE /\ len' = at + n
                  /\ free' = Allocation(at + n) - (at + n)
                  /\ buf' = Stored(Reallocated(b, Allocation(at + n)), at, data)
    BY <1>1, <1>2, Zenon DEF AppendAt
  <1>4. CASE at + n <= len
    <2>1. buf' = Stored(b, at, data) /\ len' = len /\ free' = free
      BY <1>3, <1>4
    <2>2. at + n <= size
      BY <1>4
    <2>3. Holds(Stored(b, at, data), size, b, at, data)
      BY <1>2, <2>2, StoredHolds
    <2>4. len' + free' = size
      BY <2>1
    <2>5. Holds(buf', len' + free', b, at, data)
      BY <2>1, <2>3, <2>4, Zenon
    <2> QED
      BY <1>1, <1>3, <1>4, <2>1, <2>5
  <1>5. CASE ~(at + n <= len)
    <2> DEFINE more == Allocation(at + n)
               r == Reallocated(b, more)
    <2>1. more \in Nat /\ at + n <= more
      <3>1. at + n \in Nat
        OBVIOUS
      <3> QED
        BY <3>1, AllocationEnough, Zenon
    <2>2. /\ buf' = Stored(r, at, data)
          /\ len' = at + n /\ free' = more - (at + n)
      BY <1>3, <1>5
    <2> HIDE DEF more
    <2>3. len' \in Nat /\ free' \in Nat /\ len' + free' = more
      BY <2>1, <2>2
    <2>4. at <= size /\ at <= more
      BY <2>1
    <2>5. /\ r \in [0..(more - 1) -> Nat \cup {Junk}]
          /\ \A i \in 0..(at - 1) : r[i] = b[i]
      <3>1. Reallocated(b, more) \in [0..(more - 1) -> Nat \cup {Junk}]
        BY DEF Reallocated
      <3>2. \A i \in 0..(at - 1) : Reallocated(b, more)[i] = b[i]
        BY <2>1, <2>4 DEF Reallocated
      <3> QED
        BY <3>1, <3>2, Zenon DEF r
    <2> HIDE DEF r
    <2>6. Holds(Stored(r, at, data), more, r, at, data)
      BY <1>2, <2>1, <2>5, StoredHolds
    <2>7. Holds(Stored(r, at, data), more, b, at, data)
      BY <2>5, <2>6 DEF Holds
    <2>8. Holds(buf', len' + free', b, at, data)
      BY <2>2, <2>3, <2>7, Zenon
    <2> QED
      BY <1>1, <1>3, <2>2, <2>3, <2>8
  <1> QED
    BY <1>4, <1>5

-----------------------------------------------------------------------------
(* What a step that puts bytes in amounts to.                               *)

\* The data stands behind what was readable, for the next n bytes written.
Grown(n, data) ==
    /\ data \in Seq(Nat) /\ Len(data) = n
    /\ readerIndex' = readerIndex /\ writerIndex' = writerIndex + n
    /\ len' \in Nat /\ free' \in Nat /\ writerIndex' <= len'
    /\ Holds(buf', len' + free', buf, writerIndex, data)
    /\ written' = written + n /\ written' \in 0..MaxWritten

\* Of the next n bytes the first k, and then what strncpy makes of the others.
Piece(k, n) == Stream(written, k) \o Copied(Stream(written + k, n - k))

\* A piece that is copied whole, and one of which nothing is left to copy.
LEMMA PieceType ==
    ASSUME NEW m \in Nat, NEW n \in Nat
    PROVE  /\ Stream(m, n) = Stream(m, n) \o Copied(Stream(m + n, n - n))
           /\ Copied(Stream(m, n)) = Stream(m, 0) \o Copied(Stream(m + 0, n - 0))
  <1>1. m + n \in Nat /\ n - n = 0 /\ m + 0 = m /\ n - 0 = n
    OBVIOUS
  <1>2. Stream(m, 0) = <<>> /\ Copied(Stream(m + n, 0)) = <<>>
    BY <1>1, StreamType, EmptySeq
  <1>3. \A s \in Seq(Nat) : s \o <<>> = s /\ <<>> \o s = s
    BY ConcatEmptySeq, Zenon
  <1>4. Stream(m, n) \in Seq(Nat) /\ Copied(Stream(m, n)) \in Seq(Nat)
    BY StreamType
  <1>5. Stream(m, n) = Stream(m, n) \o Copied(Stream(m + n, n - n))
    BY <1>1, <1>2, <1>3, <1>4, Zenon
  <1>6. Copied(Stream(m, n)) = Stream(m, 0) \o Copied(Stream(m + 0, n - 0))
    BY <1>1, <1>2, <1>3, <1>4, Zenon
  <1> QED
    BY <1>5, <1>6, Zenon

\* append() stores its bytes, as far as strncpy takes them, behind what was
\* readable.
LEMMA AppendGrows ==
    ASSUME BufferSound, NEW n \in Nat, AppendBytes(n)
    PROVE  Grown(n, Piece(0, n))
  <1> DEFINE size == len + free
  <1>1. /\ len \in Nat /\ free \in Nat /\ buf \in [0..(size - 1) -> Nat \cup {Junk}]
        /\ writerIndex \in Nat /\ writerIndex <= len
        /\ size \in Nat /\ size = len + free
    BY DEF BufferSound
  <1>2. written \in Nat /\ AppendAt(buf, writerIndex, len, Stream(written, n))
    BY ConstantsAssumption DEF BufferSound, AppendBytes
  <1> HIDE DEF size
  <1>3. /\ writerIndex' = writerIndex + n
        /\ len' \in Nat /\ free' \in Nat /\ writerIndex + n <= len'
        /\ Holds(buf', len' + free', buf, writerIndex, Copied(Stream(written, n)))
    BY <1>1, <1>2, AppendHolds
  <1>4. /\ readerIndex' = readerIndex
        /\ written' = written + n /\ written' \in 0..MaxWritten
    BY ConstantsAssumption DEF BufferSound, AppendBytes, Write
  <1>5. PICK data : data = Copied(Stream(written, n))
    OBVIOUS
  <1>6. data \in Seq(Nat) /\ Len(data) = n /\ Piece(0, n) = data
    BY <1>2, <1>5, StreamType, PieceType DEF Piece
  <1>7. Grown(n, data)
    BY <1>3, <1>4, <1>5, <1>6, Zenon DEF Grown
  <1> QED
    BY <1>6, <1>7

\* Data stored behind other data.
LEMMA HoldsBehind ==
    ASSUME NEW c, NEW size \in Nat, NEW b, NEW old, NEW size1 \in Nat,
           NEW at \in Nat, NEW s \in Seq(Nat), NEW t \in Seq(Nat),
           NEW n \in Nat, n = Len(s),
           Holds(b, size1, old, at, s),
           Holds(c, size, b, at + n, t)
    PROVE  Holds(c, size, old, at, s \o t)
  <1>1. \A i \in 0..(at - 1) : c[i] = old[i]
    BY DEF Holds
  <1>2. /\ Len(s \o t) = n + Len(t) /\ Len(t) \in Nat
        /\ \A i \in 1..(n + Len(t)) : (s \o t)[i] = IF i <= n THEN s[i] ELSE t[i - n]
    BY ConcatProperties
  <1>3. ASSUME NEW i \in at..(at + Len(s \o t) - 1)
        PROVE  c[i] = (s \o t)[i - at + 1]
    <2>1. i \in Int /\ i - at + 1 \in 1..(n + Len(t))
      BY <1>2
    <2>2. CASE i < at + n
      <3>1. i \in 0..((at + n) - 1) /\ i \in at..(at + n - 1) /\ i - at + 1 <= n
        BY <2>1, <2>2
      <3>2. c[i] = b[i] /\ b[i] = s[i - at + 1]
        BY <3>1 DEF Holds
      <3> QED
        BY <1>2, <2>1, <3>1, <3>2
    <2>3. CASE i >= at + n
      <3>1. /\ i \in (at + n)..((at + n) + Len(t) - 1) /\ ~(i - at + 1 <= n)
            /\ i - (at + n) + 1 = (i - at + 1) - n
        BY <1>2, <2>1, <2>3
      <3>2. c[i] = t[i - (at + n) + 1]
        BY <3>1 DEF Holds
      <3> QED
        BY <1>2, <2>1, <3>1, <3>2
    <2> QED
      BY <2>1, <2>2, <2>3
  <1> QED
    BY <1>1, <1>3 DEF Holds

\* readFd() stores what it reads behind what was readable: as it is up to the
\* end of the room, and what came into extrabuf as strncpy takes it.
LEMMA ReadGrows ==
    ASSUME BufferSound, NEW n \in Nat, ReadFd(n)
    PROVE  \E k \in 0..n : Grown(n, Piece(k, n))
  <1> DEFINE size == len + free
             room == len - writerIndex
             rest == n - room
             b == Stored(buf, writerIndex, Stream(written, room))
  <1>1. /\ len \in Nat /\ free \in Nat /\ buf \in [0..(size - 1) -> Nat \cup {Junk}]
        /\ writerIndex \in Nat /\ writerIndex <= len
        /\ size \in Nat /\ size = len + free
        /\ written \in Nat
    BY ConstantsAssumption DEF BufferSound
  <1>2. /\ readerIndex' = readerIndex
        /\ written' = written + n /\ written' \in 0..MaxWritten
    BY ConstantsAssumption DEF BufferSound, ReadFd, Write
  <1>3. /\ room \in Nat /\ WritableBytes = room
        /\ writerIndex + room = len /\ writerIndex + room <= size
    BY <1>1 DEF WritableBytes
  <1>4. CASE n <= room
    <2>1. /\ buf' = Stored(buf, writerIndex, Stream(written, n))
          /\ writerIndex' = writerIndex + n /\ len' = len /\ free' = free
      BY <1>3, <1>4 DEF ReadFd
    <2>2. writerIndex + n <= size /\ writerIndex + n <= len /\ len' + free' = size
      BY <1>1, <1>4, <2>1
    <2> HIDE DEF size
    <2>3. Stream(written, n) \in Seq(Nat) /\ Len(Stream(written, n)) = n
      BY <1>1, StreamType
    <2>4. Holds(Stored(buf, writerIndex, Stream(written, n)), size,
                buf, writerIndex, Stream(written, n))
      BY <1>1, <2>2, <2>3, StoredHolds
    <2>5. Holds(buf', len' + free', buf, writerIndex, Stream(written, n))
      BY <2>1, <2>2, <2>4, Zenon
    <2>6. Grown(n, Stream(written, n))
      <3>1. len' \in Nat /\ free' \in Nat /\ writerIndex' <= len'
        BY <1>1, <2>1, <2>2
      <3> QED
        BY <1>2, <2>1, <2>3, <2>5, <3>1, Zenon DEF Grown
    <2>7. n \in 0..n /\ Piece(n, n) = Stream(written, n)
      <3>1. n \in 0..n
        OBVIOUS
      <3>2. written \in Nat
        BY <1>1
      <3> QED
        BY <3>1, <3>2, PieceType, Zenon DEF Piece
    <2> QED
      BY <2>6, <2>7
  <1>5. CASE n > room
    <2>1. /\ rest \in Nat /\ written + room \in Nat /\ room + rest = n
          /\ room \in 0..n /\ Piece(room, n)
                 = Stream(written, room) \o Copied(Stream(written + room, rest))
      BY <1>1, <1>3, <1>5 DEF Piece
    <2>2. AppendAt(b, len, len, Stream(written + room, rest))
      BY <1>3, <1>5 DEF ReadFd
    <2> HIDE DEF size, room, rest
    <2>3. PICK s, t : s = Stream(written, room) /\ t = Copied(Stream(written + room, rest))
      OBVIOUS
    <2>4. s \in Seq(Nat) /\ Len(s) = room /\ t \in Seq(Nat) /\ Len(t) = rest
      BY <1>1, <1>3, <2>1, <2>3, StreamType
    <2>5. Holds(b, size, buf, writerIndex, s)
      BY <1>1, <1>3, <2>3, <2>4, StoredHolds
    <2> HIDE DEF b
    <2>6. b \in [0..(size - 1) -> Nat \cup {Junk}]
      BY <2>5 DEF Holds
    <2>7. len <= len
      BY <1>1
    <2>8. /\ writerIndex' = len + rest
          /\ len' \in Nat /\ free' \in Nat /\ len + rest <= len'
          /\ Holds(buf', len' + free', b, len, t)
      BY <1>1, <2>1, <2>2, <2>3, <2>6, <2>7, AppendHolds
    <2>9. Holds(buf', len' + free', b, writerIndex + room, t)
      BY <1>3, <2>8, Zenon
    <2>10. len' + free' \in Nat
      <3>1. len' \in Nat /\ free' \in Nat
        BY <2>8, Zenon
      <3>2. \A x, y \in Nat : x + y \in Nat
        OBVIOUS
      <3> QED
        BY <3>1, <3>2, Zenon
    <2>11. Holds(buf', len' + free', buf, writerIndex, s \o t)
      BY <1>1, <1>3, <2>4, <2>5, <2>9, <2>10, HoldsBehind
    <2>12. s \o t \in Seq(Nat) /\ Len(s \o t) = n
      BY <2>1, <2>4, ConcatProperties
    <2>13. writerIndex' = writerIndex + n /\ writerIndex' <= len'
      BY <1>1, <1>3, <2>1, <2>8
    <2>14. Grown(n, s \o t)
      BY <1>2, <2>8, <2>11, <2>12, <2>13 DEF Grown
    <2>15. Piece(room, n) = s \o t
      BY <2>1, <2>3
    <2> QED
      BY <2>1, <2>14, <2>15
  <1> QED
    BY <1>1, <1>3, <1>4, <1>5

-----------------------------------------------------------------------------
(* Safety.                                                                  *)

\* The constructor's block is as it should be.
LEMMA InitSound == Init => BufferSound
  BY ConstantsAssumption DEF Init, BufferSound, Junk

\* Taking bytes out leaves the indices in order, or at 0 when none are left.
LEMMA RetrieveSound ==
    ASSUME BufferSound, NEW n \in Nat, Retrieve(n)
    PROVE  BufferSound'
  <1>1. /\ len' = len /\ free' = free /\ buf' = buf /\ written' = written
        /\ n \in 0..(writerIndex - readerIndex)
    BY DEF Retrieve, ReadableBytes
  <1>2. CASE n < ReadableBytes
    <2>1. readerIndex' = readerIndex + n /\ writerIndex' = writerIndex
      BY <1>2 DEF Retrieve
    <2>2. readerIndex' < writerIndex'
      BY <1>2, <2>1 DEF ReadableBytes, BufferSound
    <2> QED
      BY <1>1, <2>1, <2>2 DEF BufferSound
  <1>3. CASE ~(n < ReadableBytes)
    <2>1. readerIndex' = 0 /\ writerIndex' = 0
      BY <1>3 DEF Retrieve
    <2> QED
      BY <1>1, <2>1 DEF BufferSound
  <1> QED
    BY <1>2, <1>3

\* A grown buffer has its indices in its memory and no junk between them.
LEMMA GrownSound ==
    ASSUME BufferSound, NEW n \in Nat, NEW data, Grown(n, data)
    PROVE  BufferSound'
  <1>1. /\ readerIndex' = readerIndex /\ writerIndex' = writerIndex + n
        /\ readerIndex \in Nat /\ writerIndex \in Nat /\ readerIndex <= writerIndex
        /\ len' \in Nat /\ free' \in Nat /\ writerIndex' <= len'
        /\ written \in Nat /\ written' \in 0..MaxWritten
        /\ data \in Seq(Nat) /\ Len(data) = n
    BY ConstantsAssumption DEF BufferSound, Grown
  <1>2. /\ buf' \in [0..((len' + free') - 1) -> Nat \cup {Junk}]
        /\ \A i \in 0..(writerIndex - 1) : buf'[i] = buf[i]
        /\ \A i \in writerIndex..(writerIndex + Len(data) - 1) :
             buf'[i] = data[i - writerIndex + 1]
    BY Zenon DEF Grown, Holds
  <1>3. ASSUME NEW i \in readerIndex'..(writerIndex' - 1)
        PROVE  buf'[i] # Junk
    <2>1. CASE i < writerIndex
      <3>1. i \in 0..(writerIndex - 1) /\ i \in readerIndex..(writerIndex - 1)
        <4>1. i \in Int /\ readerIndex <= i
          BY <1>1
        <4> QED
          BY <1>1, <2>1, <4>1
      <3> QED
        BY <1>2, <3>1 DEF BufferSound
    <2>2. CASE i >= writerIndex
      <3>1. i \in writerIndex..(writerIndex + Len(data) - 1) /\ i - writerIndex + 1 \in 1..n
        BY <1>1, <2>2
      <3>2. buf'[i] = data[i - writerIndex + 1]
        BY <1>2, <3>1, Zenon
      <3>3. data[i - writerIndex + 1] \in Nat
        BY <1>1, <3>1
      <3> QED
        BY <3>2, <3>3 DEF Junk
    <2> QED
      BY <1>1, <2>1, <2>2
  <1>4. readerIndex' = writerIndex' => writerIndex' = 0
    BY <1>1 DEF BufferSound
  <1>5. readerIndex' \in Nat /\ writerIndex' \in Nat /\ readerIndex' <= writerIndex'
    BY <1>1
  <1>6. \A i \in readerIndex'..(writerIndex' - 1) : buf'[i] # Junk
    BY <1>3, Zenon
  <1> QED
    BY <1>1, <1>2, <1>4, <1>5, <1>6, Zenon DEF BufferSound

\* No step breaks the invariant, which is inductive as it stands.
LEMMA StepSound == BufferSound /\ [Next]_vars => BufferSound'
  <1> SUFFICES ASSUME BufferSound, [Next]_vars PROVE BufferSound'
    OBVIOUS
  <1>1. ASSUME NEW n \in 0..MaxWritten, Retrieve(n) PROVE BufferSound'
    BY <1>1, RetrieveSound
  <1>2. ASSUME NEW n \in 0..MaxWritten, AppendBytes(n) PROVE BufferSound'
    BY <1>2, AppendGrows, GrownSound
  <1>3. ASSUME NEW n \in 0..MaxWritten, ReadFd(n) PROVE BufferSound'
    BY <1>3, ReadGrows, GrownSound
  <1>4. CASE UNCHANGED vars
    BY <1>4 DEF vars, BufferSound
  <1> QED
    BY <1>1, <1>2, <1>3, <1>4 DEF Next

\* The indices stay in the memory allocated, nothing readable was never
\* written, and an empty buffer starts again at its beginning: after every
\* sequence of append(), readFd() and retrieve(), however many bytes.
THEOREM BufferSafe == Spec => []BufferSound
  BY InitSound, StepSound, PTL DEF Spec

-----------------------------------------------------------------------------
(* The readable bytes are a queue.                                          *)

\* What is readable is no junk.
LEMMA ReadableIsNat ==
    ASSUME BufferSound
    PROVE  Numbers(buf, readerIndex, writerIndex)
  <1>1. /\ readerIndex \in Nat /\ writerIndex \in Nat /\ len \in Nat /\ free \in Nat
        /\ writerIndex <= len /\ buf \in [0..((len + free) - 1) -> Nat \cup {Junk}]
    BY DEF BufferSound
  <1>2. \A i \in readerIndex..(writerIndex - 1) : i \in 0..((len + free) - 1)
    BY <1>1
  <1>3. \A i \in readerIndex..(writerIndex - 1) : buf[i] # Junk
    BY DEF BufferSound
  <1> QED
    BY <1>1, <1>2, <1>3 DEF Numbers

\* The readable bytes are the window between the indices.
LEMMA ContentIsWindow ==
    ASSUME BufferSound
    PROVE  /\ Content = Window(buf, readerIndex, writerIndex)
           /\ Content \in Seq(Nat)
           /\ Len(Content) = writerIndex - readerIndex
           /\ \A i \in 1..(writerIndex - readerIndex) :
                Content[i] = buf[readerIndex + i - 1]
  <1>1. Content = Window(buf, readerIndex, writerIndex)
    BY DEF Content, Window, ReadableBytes
  <1>2. /\ readerIndex \in Nat /\ writerIndex \in Nat /\ readerIndex <= writerIndex
        /\ Numbers(buf, readerIndex, writerIndex)
    BY ReadableIsNat DEF BufferSound
  <1>3. /\ Window(buf, readerIndex, writerIndex) \in Seq(Nat)
        /\ Len(Window(buf, readerIndex, writerIndex)) = writerIndex - readerIndex
        /\ \A i \in 1..(writerIndex - readerIndex) :
             Window(buf, readerIndex, writerIndex)[i] = buf[readerIndex + i - 1]
    BY <1>2, WindowType, Zenon DEF Lists
  <1> QED
    BY <1>1, <1>3, Zenon

\* What is put in stands behind what was readable.
LEMMA GrownPuts ==
    ASSUME BufferSound, NEW n \in Nat, NEW data, Grown(n, data)
    PROVE  Content' = Content \o data
  <1>1. /\ readerIndex' = readerIndex /\ writerIndex' = writerIndex + n
        /\ readerIndex \in Nat /\ writerIndex \in Nat /\ readerIndex <= writerIndex
        /\ data \in Seq(Nat) /\ Len(data) = n
    BY DEF BufferSound, Grown
  <1>2. Holds(buf', len' + free', buf, writerIndex, data)
    BY Zenon DEF Grown
  <1>3. Numbers(buf, readerIndex, writerIndex)
    BY ReadableIsNat
  <1>4. Window(buf', readerIndex, writerIndex + n)
          = Window(buf, readerIndex, writerIndex) \o data
    <2> DEFINE c == buf'
               size == len' + free'
               v == writerIndex + n
    <2>1. Holds(c, size, buf, writerIndex, data)
      BY <1>2
    <2>2. /\ readerIndex \in Nat /\ writerIndex \in Nat
          /\ readerIndex <= writerIndex
          /\ v \in Nat /\ v = writerIndex + n
      BY <1>1
    <2> HIDE DEF c, size, v
    <2>3. Longer(c, v, buf, readerIndex, writerIndex, data)
      BY <1>1, <1>3, <2>1, <2>2, WindowAppend
    <2> QED
      BY <2>3, Zenon DEF c, v, Longer
  <1>5. Content' = Window(buf', readerIndex', writerIndex')
    BY DEF Content, Window, ReadableBytes
  <1>6. Content' = Window(buf', readerIndex, writerIndex + n)
    BY <1>1, <1>5, Zenon
  <1>7. Content = Window(buf, readerIndex, writerIndex)
    BY ContentIsWindow
  <1> QED
    BY <1>4, <1>6, <1>7, Zenon

\* What is taken is the front of what was readable.
LEMMA RetrieveGets ==
    ASSUME BufferSound, NEW n \in Nat, Retrieve(n)
    PROVE  /\ n \in 0..Len(Content)
           /\ Content' = SubSeq(Content, n + 1, Len(Content))
           /\ written' = written
  <1> DEFINE rest == SubSeq(Content, n + 1, Len(Content))
  <1>1. /\ Content \in Seq(Nat) /\ Len(Content) = writerIndex - readerIndex
        /\ \A i \in 1..(writerIndex - readerIndex) :
             Content[i] = buf[readerIndex + i - 1]
    BY ContentIsWindow
  <1>2. /\ readerIndex \in Nat /\ writerIndex \in Nat /\ readerIndex <= writerIndex
        /\ n \in 0..(writerIndex - readerIndex)
        /\ buf' = buf /\ written' = written
        /\ ReadableBytes = writerIndex - readerIndex
    BY DEF BufferSound, Retrieve, ReadableBytes
  <1>4. /\ Content' \in Seq(Nat) /\ Len(Content') = writerIndex' - readerIndex'
        /\ \A i \in 1..(writerIndex' - readerIndex') :
             Content'[i] = buf'[readerIndex' + i - 1]
    <2>1. Content' = Window(buf', readerIndex', writerIndex')
      BY DEF Content, Window, ReadableBytes
    <2>2. /\ readerIndex' \in Nat /\ writerIndex' \in Nat /\ readerIndex' <= writerIndex'
          /\ Numbers(buf', readerIndex', writerIndex')
      <3>1. /\ readerIndex' \in Nat /\ writerIndex' \in Nat
            /\ readerIndex' <= writerIndex' /\ writerIndex' <= writerIndex
        BY <1>2 DEF Retrieve
      <3>2. \A i \in readerIndex..(writerIndex - 1) : buf[i] \in Nat
        BY ReadableIsNat DEF Numbers
      <3>3. \A i \in readerIndex'..(writerIndex' - 1) : i \in readerIndex..(writerIndex - 1)
        <4>1. CASE n < ReadableBytes
          <5>1. readerIndex' = readerIndex + n /\ writerIndex' = writerIndex
            BY <4>1 DEF Retrieve
          <5> QED
            BY <1>2, <5>1
        <4>2. CASE ~(n < ReadableBytes)
          <5>1. readerIndex' = 0 /\ writerIndex' = 0
            BY <4>2 DEF Retrieve
          <5> QED
            BY <5>1
        <4> QED
          BY <4>1, <4>2
      <3>4. \A i \in readerIndex'..(writerIndex' - 1) : buf'[i] \in Nat
        BY <1>2, <3>2, <3>3, Zenon
      <3> QED
        BY <3>1, <3>4, Zenon DEF Numbers
    <2>3. /\ Window(buf', readerIndex', writerIndex') \in Seq(Nat)
          /\ Len(Window(buf', readerIndex', writerIndex')) = writerIndex' - readerIndex'
          /\ \A i \in 1..(writerIndex' - readerIndex') :
               Window(buf', readerIndex', writerIndex')[i] = buf'[readerIndex' + i - 1]
      <3> DEFINE b == buf'
                 r == readerIndex'
                 w == writerIndex'
      <3>1. r \in Nat /\ w \in Nat /\ r <= w /\ Numbers(b, r, w)
        BY <2>2, Zenon
      <3> HIDE DEF b, r, w
      <3>2. /\ Window(b, r, w) \in Seq(Nat) /\ Len(Window(b, r, w)) = w - r
            /\ \A i \in 1..(w - r) : Window(b, r, w)[i] = b[r + i - 1]
        BY <3>1, WindowType, Zenon DEF Lists
      <3> QED
        BY <3>2, Zenon DEF b, r, w
    <2> QED
      BY <2>1, <2>3, Zenon
  <1>5. Content' = rest
    <2>1. CASE n < writerIndex - readerIndex
      <3>1. readerIndex' = readerIndex + n /\ writerIndex' = writerIndex
        BY <1>2, <2>1 DEF Retrieve
      <3>2. \A i \in (n + 1)..(writerIndex - readerIndex) : Content[i] \in Nat
        BY <1>1, <1>2
      <3>3. /\ n + 1 \in Int /\ writerIndex - readerIndex \in Int
            /\ n + 1 <= writerIndex - readerIndex
            /\ (writerIndex - readerIndex) - (n + 1) + 1 = writerIndex - readerIndex - n
        BY <1>2, <2>1
      <3>4. /\ rest \in Seq(Nat) /\ Len(rest) = writerIndex - readerIndex - n
            /\ \A i \in 1..(writerIndex - readerIndex - n) :
                 rest[i] = Content[(n + 1) + i - 1]
        BY <1>1, <3>2, <3>3, SubSeqProperties
      <3> HIDE DEF rest
      <3>5. ASSUME NEW i \in 1..(writerIndex - readerIndex - n)
            PROVE  rest[i] = Content'[i]
        <4>1. /\ n + i \in 1..(writerIndex - readerIndex) /\ (n + 1) + i - 1 = n + i
              /\ i \in 1..(writerIndex' - readerIndex')
              /\ readerIndex + (n + i) - 1 = readerIndex' + i - 1
          BY <1>2, <2>1, <3>1
        <4>2. rest[i] = buf[readerIndex + (n + i) - 1]
          BY <1>1, <3>4, <4>1
        <4>3. Content'[i] = buf[readerIndex' + i - 1]
          BY <1>2, <1>4, <4>1
        <4> QED
          BY <4>1, <4>2, <4>3
      <3>6. Len(Content') = writerIndex - readerIndex - n
        BY <1>2, <1>4, <3>1
      <3> QED
        BY <1>4, <3>4, <3>5, <3>6, SeqEqual
    <2>2. CASE ~(n < writerIndex - readerIndex)
      <3>1. readerIndex' = 0 /\ writerIndex' = 0
        BY <1>2, <2>2 DEF Retrieve
      <3>2. Content' = <<>>
        BY <1>4, <3>1
      <3>3. n + 1 \in Int /\ Len(Content) \in Int /\ Len(Content) < n + 1
        <4>1. n = writerIndex - readerIndex
          BY <1>2, <2>2
        <4> QED
          BY <1>1, <4>1
      <3>4. rest = <<>>
        BY <3>3, SubSeqEmpty
      <3> QED
        BY <3>2, <3>4
    <2> QED
      BY <2>1, <2>2
  <1> QED
    BY <1>1, <1>2, <1>5

\* Every step is a step of the queue.
LEMMA QueueStep ==
    BufferSound /\ [Next]_vars => [Queue!Next]_<<Content, written>>
  <1> SUFFICES ASSUME BufferSound, [Next]_vars
               PROVE  [Queue!Next]_<<Content, written>>
    OBVIOUS
  <1>1. ASSUME NEW n \in 0..MaxWritten, Retrieve(n) PROVE Queue!Next
    <2>1. n \in Nat
      BY ConstantsAssumption
    <2>2. Queue!Get(n)
      BY <1>1, <2>1, RetrieveGets DEF Queue!Get
    <2> QED
      BY <2>2 DEF Queue!Next
  <1>2. ASSUME NEW n \in 0..MaxWritten, n \in 0..(MaxWritten - written),
               NEW k \in 0..n, Grown(n, Piece(k, n))
        PROVE  Queue!Next
    <2>1. n \in Nat
      BY ConstantsAssumption
    <2>2. Content' = Content \o Piece(k, n)
      BY <1>2, <2>1, GrownPuts
    <2>3. written' = written + n
      BY <1>2 DEF Grown
    <2>4. /\ \A i, j : Queue!Stream(i, j) = Stream(i, j)
          /\ \A data : Queue!CutAtNul(data) = Copied(data)
      BY DEF Queue!Stream, Stream, Queue!CutAtNul, Copied, Queue!NUL, NUL
    <2>5. Queue!Put(n, k)
      BY <1>2, <2>2, <2>3, <2>4 DEF Queue!Put, Piece
    <2> QED
      BY <2>5 DEF Queue!Next
  <1>3. ASSUME NEW n \in 0..MaxWritten, AppendBytes(n) PROVE Queue!Next
    <2>1. n \in 0..(MaxWritten - written)
      BY <1>3 DEF AppendBytes, Write
    <2>2. n \in Nat /\ 0 \in 0..n
      BY ConstantsAssumption
    <2> QED
      BY <1>2, <1>3, <2>1, <2>2, AppendGrows
  <1>4. ASSUME NEW n \in 0..MaxWritten, ReadFd(n) PROVE Queue!Next
    <2>1. n \in 0..(MaxWritten - written)
      BY <1>4 DEF ReadFd, Write
    <2> QED
      BY <1>2, <1>4, <2>1, ConstantsAssumption, ReadGrows
  <1>5. CASE UNCHANGED vars
    BY <1>5 DEF vars, Content, ReadableBytes
  <1> QED
    BY <1>1, <1>3, <1>4, <1>5 DEF Next

\* The readable bytes are a queue with a place for each byte written, none
\* doubled or out of order, wherever the block is moved to and wherever a read is
\* divided between the block and extrabuf; only what is behind a NUL of the same
\* append() is lost.
THEOREM BufferIsByteQueue == Spec => ImplementsByteQueue
  <1>1. Init => Queue!Init
    <2> SUFFICES ASSUME Init PROVE Queue!Init
      OBVIOUS
    <2>1. Content = <<>>
      BY DEF Init, Content, ReadableBytes
    <2> QED
      BY <2>1 DEF Init, Queue!Init
  <1> QED
    BY <1>1, QueueStep, BufferSafe, PTL DEF Spec, Queue!Spec, ImplementsByteQueue

-----------------------------------------------------------------------------
(* HttpData: every request that parses completely gets its own answer, for  *)
(* all paths, every finite sequence of headers and any number of clients    *)
(* whose reads the one handler takes in turn.                               *)

\* What handleRead can find.
ReadKinds ==
    [line : RequestLines \cup {None}, headers : Seq(HeaderLines), ended : BOOLEAN]

\* The value v of the last Connection header among the first k of read r.
LastOf(r, k, v) ==
    \/ v = None /\ \A i \in 1..k : r.headers[i].field # "Connection"
    \/ \E i \in 1..k : /\ r.headers[i].field = "Connection" /\ r.headers[i].value = v
                       /\ \A j \in (i + 1)..k : r.headers[j].field # "Connection"

\* Between two calls of onRequest nothing of the last request is left that
\* decides the next answer.
Forgotten ==
    /\ state = "kExpectRequestLine" /\ version = "kUnknownVersion"
    /\ requestHeaders = NoHeaders /\ statusCode = "kUnknownState"

\* The parser has the request line of the read, and its first k headers.
HasRead(k) ==
    /\ WellFormed(read.line) /\ path = read.line.path
    /\ version = "kHttp10" <=> read.line.version = "1.0"
    /\ requestHeaders \in [{"Connection", "other"} ->
                              {None, "close", "Keep-Alive", "other"}]
    /\ LastOf(read, k, requestHeaders["Connection"])

\* What is left of a read after its first k headers.
LeftAfter(k) ==
    input = [line |-> None, ended |-> read.ended,
             headers |-> SubSeq(read.headers, k + 1, Len(read.headers))]

\* A reply that was sent is the one the read asks for.
Answered ==
    reply.sent =>
        /\ (reply.status = "k200Ok") = (read.line.path \in Pages)
        /\ reply.status = "k200Ok" => reply.body = read.line.path
        /\ reply.shutdown = WantsClose(read)

\* How far onRequest is with the read.
Parsing ==
    /\ statusCode = "kUnknownState"
    /\ \/ Forgotten /\ input = read
       \/ /\ state = "kExpectHeaders"
          /\ \E k \in 0..Len(read.headers) : HasRead(k) /\ LeftAfter(k)

Answering ==
    Complete(read) =>
        /\ HasRead(Len(read.headers))
        /\ statusCode # "kUnknownState" => Answered

\* The inductive invariant.
HandlerIInv ==
    /\ phase \in {"idle", "parse", "answer"} /\ connected \in BOOLEAN
    /\ read \in ReadKinds
    /\ phase = "idle" => Forgotten /\ (Complete(read) => Answered)
    /\ phase = "parse" => Parsing
    /\ phase = "answer" => Answering

-----------------------------------------------------------------------------
(* Headers.                                                                 *)

\* The header lines of a read, and those that are left of them.
LEMMA HeadersOf ==
    ASSUME NEW r \in ReadKinds
    PROVE  /\ r.headers \in Seq(HeaderLines) /\ Len(r.headers) \in Nat
           /\ DOMAIN r.headers = 1..Len(r.headers)
           /\ \A i \in 1..Len(r.headers) :
                /\ r.headers[i].field \in {"Connection", "other"}
                /\ r.headers[i].value \in {"close", "Keep-Alive", "other"}
<1>1. r.headers \in Seq(HeaderLines)
    BY DEF ReadKinds
<1>2. /\ Len(r.headers) \in Nat /\ DOMAIN r.headers = 1..Len(r.headers)
      /\ \A i \in 1..Len(r.headers) : r.headers[i] \in HeaderLines
    BY <1>1
<1> QED
    BY <1>1, <1>2 DEF HeaderLines

\* Of a sequence nothing is left exactly after its last element.
LEMMA NothingLeft ==
    ASSUME NEW S, NEW s \in Seq(S), NEW k \in 0..Len(s), SubSeq(s, k + 1, Len(s)) = <<>>
    PROVE  k = Len(s)
<1>1. CASE k < Len(s)
  <2>1. SubSeq(s, k + 1, Len(s)) = [i \in 1..(Len(s) - k) |-> s[i + k]]
      BY SMT
  <2>2. 1 \in DOMAIN SubSeq(s, k + 1, Len(s))
      BY <1>1, <2>1
  <2> QED
      BY <2>2
<1> QED
    BY <1>1

\* addReqHeader with the next line: the last Connection header of one line more.
LEMMA NextHeader ==
    ASSUME NEW r \in ReadKinds, NEW k \in Nat, k < Len(r.headers),
           NEW v, LastOf(r, k, v), NEW w,
           w = IF r.headers[k + 1].field = "Connection"
                 THEN r.headers[k + 1].value ELSE v
    PROVE  LastOf(r, k + 1, w)
<1>1. 1..(k + 1) = (1..k) \cup {k + 1} /\ k + 1 \in 1..Len(r.headers)
    BY HeadersOf
<1>2. CASE r.headers[k + 1].field = "Connection"
  <2>1. (k + 2)..(k + 1) = {} /\ k + 1 \in 1..(k + 1) /\ (k + 1) + 1 = k + 2
      OBVIOUS
  <2> QED
      BY <1>2, <2>1 DEF LastOf
<1>3. CASE r.headers[k + 1].field # "Connection"
  <2>1. CASE v = None /\ \A i \in 1..k : r.headers[i].field # "Connection"
      BY <1>1, <1>3, <2>1 DEF LastOf
  <2>2. ASSUME NEW i \in 1..k, r.headers[i].field = "Connection",
               r.headers[i].value = v,
               \A j \in (i + 1)..k : r.headers[j].field # "Connection"
        PROVE  LastOf(r, k + 1, w)
    <3>1. \A j \in (i + 1)..(k + 1) : r.headers[j].field # "Connection"
      <4> SUFFICES ASSUME NEW j \in (i + 1)..(k + 1)
                   PROVE  r.headers[j].field # "Connection"
          OBVIOUS
      <4>1. j \in (i + 1)..k \/ j = k + 1
          OBVIOUS
      <4> QED
          BY <1>3, <2>2, <4>1
    <3> QED
        BY <1>1, <1>3, <2>2, <3>1 DEF LastOf
  <2> QED
      BY <2>1, <2>2 DEF LastOf
<1> QED
    BY <1>2, <1>3

\* With all headers read it is what the client wished.
LEMMA WishIs ==
    ASSUME NEW r \in ReadKinds, NEW v, LastOf(r, Len(r.headers), v)
    PROVE  Wish(r) = v
<1> DEFINE at == {i \in DOMAIN r.headers : r.headers[i].field = "Connection"}
           n == Len(r.headers)
<1>1. DOMAIN r.headers = 1..n /\ n \in Nat
    BY HeadersOf
<1>2. CASE v = None /\ \A i \in 1..n : r.headers[i].field # "Connection"
  <2>1. at = {}
      BY <1>1, <1>2
  <2> QED
      BY <1>2, <2>1 DEF Wish
<1>3. ASSUME NEW i \in 1..n, r.headers[i].field = "Connection",
             r.headers[i].value = v,
             \A j \in (i + 1)..n : r.headers[j].field # "Connection"
      PROVE  Wish(r) = v
  <2>1. i \in at /\ at \subseteq 1..n
      BY <1>1, <1>3
  <2>2. \A j \in at : j <= i
    <3> SUFFICES ASSUME NEW j \in at, ~(j <= i) PROVE FALSE
        OBVIOUS
    <3>1. j \in (i + 1)..n
        BY <1>1, <2>1
    <3> QED
        BY <1>3, <3>1
  <2>3. \A j \in at : (\A h \in at : h <= j) => j = i
    <3> SUFFICES ASSUME NEW j \in at, \A h \in at : h <= j PROVE j = i
        OBVIOUS
    <3>1. i <= j /\ j <= i /\ i \in Nat /\ j \in Nat
        BY <1>1, <2>1, <2>2
    <3> QED
        BY <3>1
  <2> HIDE DEF at
  <2>4. (CHOOSE j \in at : \A h \in at : h <= j) = i
      BY <2>1, <2>2, <2>3
  <2>5. Wish(r) = IF at = {} THEN None
                  ELSE r.headers[CHOOSE j \in at : \A h \in at : h <= j].value
      BY DEF Wish, at
  <2> QED
      BY <1>3, <2>1, <2>4, <2>5
<1> QED
    BY <1>2, <1>3 DEF LastOf

-----------------------------------------------------------------------------
(* The steps.                                                               *)

\* The object is as good as new when it is constructed.
LEMMA HandlerInvInit == HandlerInit => HandlerIInv
  BY DEF HandlerInit, HandlerIInv, Forgotten, Complete, ReadKinds, NoRead, Answered,
         NoReply

\* A read is parsed from its first line, whatever came before.
LEMMA ReceiveKeeps ==
    ASSUME HandlerIInv, NEW r \in Reads, Receive(r)
    PROVE  HandlerIInv'
<1>1. r \in ReadKinds
    BY HandlerAssumption DEF ReadKinds
<1>2. Parsing'
    BY DEF HandlerIInv, Receive, Parsing, Forgotten, requestVars, responseVars
<1> QED
    BY <1>1, <1>2 DEF HandlerIInv, Receive

\* The next client has not sent anything yet.
LEMMA NextClientKeeps ==
    ASSUME HandlerIInv, NextClient
    PROVE  HandlerIInv'
<1>1. NoRead \in ReadKinds /\ ~Complete(NoRead)
    BY DEF ReadKinds, NoRead, Complete
<1>2. Forgotten'
    BY DEF HandlerIInv, NextClient, Forgotten, requestVars, responseVars
<1> QED
    BY <1>1, <1>2 DEF HandlerIInv, NextClient

\* The request line fills the members the answer depends on, or fails.
LEMMA RequestLineKeeps ==
    ASSUME HandlerIInv, ParseRequestLine
    PROVE  HandlerIInv'
<1>1. /\ Parsing /\ Forgotten /\ input = read /\ read \in ReadKinds
      /\ read.line # None /\ ProcessRequestLine(read.line)
      /\ UNCHANGED <<connected, read, reply, requestHeaders, responseVars>>
    BY DEF HandlerIInv, Parsing, ParseRequestLine
<1>2. CASE WellFormed(read.line)
  <2>1. state' = "kExpectHeaders" /\ phase' = "parse" /\ input' = [read EXCEPT !.line = None]
      BY <1>1, <1>2 DEF ParseRequestLine
  <2>2. /\ MethodOf(read.line.method) # "kInvalid" /\ read.line.path # None
        /\ read.line.version # "other"
      BY <1>2 DEF WellFormed
  <2>3. path' = read.line.path /\ version' = VersionOf(read.line.version)
      BY <1>1, <2>2 DEF ProcessRequestLine
  <2>4. version' = "kHttp10" <=> read.line.version = "1.0"
      BY <1>1, <2>2, <2>3 DEF VersionOf, Forgotten
  <2>5. requestHeaders' = NoHeaders
      BY <1>1 DEF Forgotten
  <2>6. LastOf(read, 0, requestHeaders["Connection"])'
      BY <1>1, <2>5 DEF LastOf, NoHeaders
  <2>7. HasRead(0)'
      BY <1>1, <1>2, <2>3, <2>4, <2>5, <2>6 DEF HasRead, NoHeaders, WellFormed, MethodOf
  <2>8. LeftAfter(0)'
    <3>1. /\ input' = [read EXCEPT !.line = None] /\ read' = read
          /\ read \in ReadKinds /\ read.headers \in Seq(HeaderLines)
        BY <1>1, <2>1, HeadersOf
    <3>2. PICK l, h, e : read = [line |-> l, headers |-> h, ended |-> e]
        BY <3>1 DEF ReadKinds
    <3>3. input' = [line |-> None, ended |-> read.ended, headers |-> read.headers]
        BY <3>1, <3>2
    <3>4. SubSeq(read.headers, 1, Len(read.headers)) = read.headers
        BY <3>1
    <3> QED
        BY <3>1, <3>3, <3>4, 0 + 1 = 1 DEF LeftAfter
  <2>9. 0 \in 0..Len(read'.headers)
      BY <1>1, HeadersOf
  <2>10. Parsing'
      BY <1>1, <2>1, <2>7, <2>8, <2>9 DEF Parsing, responseVars
  <2> QED
      BY <1>1, <2>1, <2>10 DEF HandlerIInv
<1>3. CASE ~WellFormed(read.line)
  <2>1. phase' = "answer"
      BY <1>1, <1>3 DEF ParseRequestLine
  <2>2. ~Complete(read')
      BY <1>1, <1>3 DEF Complete, WellFormed, MethodOf
  <2>3. Answering'
      BY <2>2 DEF Answering
  <2> QED
      BY <1>1, <2>1, <2>3 DEF HandlerIInv
<1> QED
    BY <1>2, <1>3

\* A header line is added to those the parser has.
LEMMA HeaderKeeps ==
    ASSUME HandlerIInv, ParseHeader
    PROVE  HandlerIInv'
<1>1. /\ phase = "parse" /\ state = "kExpectHeaders" /\ input.headers # <<>>
      /\ read \in ReadKinds /\ statusCode = "kUnknownState"
      /\ UNCHANGED <<connected, phase, read, reply, version, state, path, statusCode>>
    BY DEF HandlerIInv, Parsing, ParseHeader, responseVars
<1>2. PICK k \in 0..Len(read.headers) : HasRead(k) /\ LeftAfter(k)
    BY <1>1 DEF HandlerIInv, Parsing, Forgotten
<1> DEFINE h == read.headers[k + 1]
<1>3. /\ k \in Nat /\ k < Len(read.headers) /\ k + 1 \in 1..Len(read.headers)
      /\ Head(input.headers) = h
      /\ Tail(input.headers) = SubSeq(read.headers, k + 2, Len(read.headers))
    BY <1>1, <1>2, HeadersOf DEF LeftAfter
<1>4. h.field \in {"Connection", "other"} /\ h.value \in {"close", "Keep-Alive", "other"}
    BY <1>1, <1>3, HeadersOf
<1>5. /\ requestHeaders' = [requestHeaders EXCEPT ![h.field] = h.value]
      /\ input' = [input EXCEPT !.headers = Tail(@)]
    BY <1>3 DEF ParseHeader
<1> HIDE DEF h
<1>6. requestHeaders' \in [{"Connection", "other"} -> {None, "close", "Keep-Alive", "other"}]
    BY <1>2, <1>4, <1>5 DEF HasRead
<1>7. requestHeaders'["Connection"] = IF h.field = "Connection" THEN h.value
                                      ELSE requestHeaders["Connection"]
    BY <1>2, <1>4, <1>5 DEF HasRead
<1>8. LastOf(read, k + 1, requestHeaders'["Connection"])
    BY <1>1, <1>2, <1>3, <1>7, NextHeader DEF HasRead, h
<1>9. HasRead(k + 1)'
  <2>1. LastOf(read, k + 1, requestHeaders["Connection"])'
      BY <1>1, <1>8 DEF LastOf
  <2>2. WellFormed(read.line)'
      BY <1>1, <1>2 DEF HasRead, WellFormed, MethodOf
  <2>3. path' = read'.line.path /\ (version' = "kHttp10" <=> read'.line.version = "1.0")
      BY <1>1, <1>2 DEF HasRead
  <2> QED
      BY <1>6, <2>1, <2>2, <2>3 DEF HasRead
<1>10. LeftAfter(k + 1)'
  <2>1. input' = [line |-> None, ended |-> read.ended, headers |-> Tail(input.headers)]
      BY <1>2, <1>5 DEF LeftAfter
  <2>2. (k + 1) + 1 = k + 2
      BY <1>3
  <2> QED
      BY <1>1, <1>3, <2>1, <2>2 DEF LeftAfter
<1>11. k + 1 \in 0..Len(read'.headers)
    BY <1>1, <1>3
<1>12. Parsing'
    BY <1>1, <1>9, <1>10, <1>11 DEF Parsing
<1> QED
    BY <1>1, <1>12 DEF HandlerIInv

\* The empty line: all headers of the read have been added.
LEMMA EndOfHeadersKeeps ==
    ASSUME HandlerIInv, EndOfHeaders
    PROVE  HandlerIInv'
<1>1. /\ phase = "parse" /\ state = "kExpectHeaders" /\ input.headers = <<>>
      /\ read \in ReadKinds /\ statusCode = "kUnknownState" /\ phase' = "answer"
      /\ UNCHANGED <<connected, read, reply, version, path, requestHeaders, statusCode>>
    BY DEF HandlerIInv, Parsing, EndOfHeaders, responseVars
<1>2. PICK k \in 0..Len(read.headers) : HasRead(k) /\ LeftAfter(k)
    BY <1>1 DEF HandlerIInv, Parsing, Forgotten
<1>3. k = Len(read.headers)
  <2>1. SubSeq(read.headers, k + 1, Len(read.headers)) = <<>>
      BY <1>1, <1>2 DEF LeftAfter
  <2> QED
      BY <1>1, <2>1, HeadersOf, NothingLeft
<1>4. HasRead(Len(read.headers))'
  <2>1. HasRead(k)'
      BY <1>1, <1>2 DEF HasRead, LastOf, WellFormed, MethodOf
  <2> QED
      BY <1>1, <1>3, <2>1
<1> QED
    BY <1>1, <1>4 DEF HandlerIInv, Answering

\* A read that ends before its headers is no complete request.
LEMMA NoMoreKeeps ==
    ASSUME HandlerIInv, NoMoreLines
    PROVE  HandlerIInv'
<1>1. /\ Parsing /\ read \in ReadKinds /\ phase' = "answer"
      /\ UNCHANGED <<connected, read>>
    BY DEF HandlerIInv, NoMoreLines
<1>2. ~Complete(read)
    BY <1>1 DEF NoMoreLines, Parsing, Forgotten, LeftAfter, Complete
<1>3. ~Complete(read')
    BY <1>1, <1>2
<1> QED
    BY <1>1, <1>3 DEF HandlerIInv, Answering

\* The answer is the one the read asks for.
LEMMA AnswerKeeps ==
    ASSUME HandlerIInv, Answer
    PROVE  HandlerIInv'
<1>1. /\ phase = "answer" /\ Answering /\ read \in ReadKinds /\ connected \in BOOLEAN
      /\ phase' = "answer" /\ connected' = (connected /\ ~Closes)
      /\ UNCHANGED <<read, version, path, requestHeaders>>
    BY DEF HandlerIInv, Answer, requestVars
<1>2. ASSUME Complete(read) PROVE HasRead(Len(read.headers))' /\ Answered'
  <2>1. HasRead(Len(read.headers))
      BY <1>1, <1>2 DEF Answering
  <2>2. HasRead(Len(read.headers))'
      BY <1>1, <2>1 DEF HasRead, LastOf
  <2>3. Wish(read) = requestHeaders["Connection"]
      BY <1>1, <2>1, WishIs DEF HasRead
  <2>4. Closes <=> WantsClose(read)
      BY <2>1, <2>3 DEF HasRead, Closes, WantsClose
  <2>5. /\ (statusCode' = "k200Ok") <=> (read.line.path \in Pages)
        /\ statusCode' = "k200Ok" => body' = read.line.path
      BY <2>1 DEF HasRead, Answer, Respond
  <2>6. /\ reply'.sent = connected /\ reply'.status = statusCode' /\ reply'.body = body'
        /\ reply'.shutdown = (connected /\ Closes)
      BY DEF Answer
  <2>7. WantsClose(read') <=> WantsClose(read)
      BY <1>1 DEF WantsClose, Wish
  <2> QED
      BY <1>1, <2>2, <2>4, <2>5, <2>6, <2>7 DEF Answered, WantsClose
<1>3. Complete(read') => Complete(read)
    BY <1>1
<1>4. Answering'
    BY <1>1, <1>2, <1>3 DEF Answering
<1> QED
    BY <1>1, <1>4 DEF HandlerIInv

\* clearAllContent leaves nothing that decides the next answer.
LEMMA ClearKeeps ==
    ASSUME HandlerIInv, Clear
    PROVE  HandlerIInv'
<1>1. /\ Answering /\ statusCode # "kUnknownState" /\ phase' = "idle"
      /\ UNCHANGED <<connected, read, reply>>
    BY DEF HandlerIInv, Clear
<1>2. Forgotten'
    BY DEF Clear, ClearAllContent, Forgotten
<1>3. (Complete(read) => Answered)'
  <2>1. Complete(read) => Answered
      BY <1>1 DEF Answering
  <2>2. read' = read /\ reply' = reply
      BY <1>1
  <2>3. Complete(read)' = Complete(read)
      BY <2>2 DEF Complete, WellFormed, MethodOf
  <2>4. WantsClose(read)' = WantsClose(read)
      BY <2>2 DEF WantsClose, Wish
  <2> QED
      BY <2>1, <2>2, <2>3, <2>4 DEF Answered
<1> QED
    BY <1>1, <1>2, <1>3 DEF HandlerIInv

\* A step of no one changes nothing.
LEMMA HandlerStutters ==
    ASSUME HandlerIInv, UNCHANGED handlerVars
    PROVE  HandlerIInv'
<1>1. /\ phase' = phase /\ connected' = connected /\ read' = read /\ input' = input
      /\ reply' = reply /\ state' = state /\ version' = version /\ path' = path
      /\ requestHeaders' = requestHeaders /\ statusCode' = statusCode
    BY DEF handlerVars, requestVars, responseVars
<1>2. Forgotten' = Forgotten /\ Answered' = Answered /\ Complete(read') = Complete(read)
    BY <1>1 DEF Forgotten, Answered, Complete, WellFormed, MethodOf, WantsClose, Wish
<1>3. \A k : HasRead(k)' = HasRead(k) /\ LeftAfter(k)' = LeftAfter(k)
    BY <1>1 DEF HasRead, LastOf, LeftAfter, WellFormed, MethodOf
<1>4. Parsing' = Parsing
    BY <1>1, <1>2, <1>3 DEF Parsing
<1>5. Answering' = Answering
    BY <1>1, <1>2, <1>3 DEF Answering
<1> QED
    BY <1>1, <1>2, <1>4, <1>5 DEF HandlerIInv

\* A request that arrives whole is answered as if it were the first one of the
\* object: by its own page, and the connection ends exactly if it asks for it.
THEOREM RequestsGetTheirAnswers == HandlerSafeSpec => []AnswersItsRequest
<1>1. HandlerIInv /\ [HandlerNext]_handlerVars => HandlerIInv'
    BY ReceiveKeeps, NextClientKeeps, RequestLineKeeps, HeaderKeeps, EndOfHeadersKeeps,
       NoMoreKeeps, AnswerKeeps, ClearKeeps, HandlerStutters DEF HandlerNext, HandlerStep
<1>2. HandlerIInv => AnswersItsRequest
    BY DEF HandlerIInv, Answered, AnswersItsRequest
<1> QED
    BY <1>1, <1>2, HandlerInvInit, PTL DEF HandlerSafeSpec

-----------------------------------------------------------------------------
(* Sums over finite sets, by induction on their subsets.                    *)

\* The element a fold takes next, and the function it computes on the subsets.
Pick(s) == CHOOSE x \in s : TRUE
Folds(g, f, S) ==
    g = [s \in SUBSET S |-> IF s = {} THEN 0 ELSE f[Pick(s)] + g[s \ {Pick(s)}]]

\* A well-founded relation has a least element in every set that has one.
LEMMA Minimal ==
    ASSUME NEW R, NEW D, IsWellFoundedOn(R, D), NEW B \in SUBSET D, B # {}
    PROVE  \E t \in B : \A u \in B : <<u, t>> \notin R
  BY WFMin, Zenon

\* A set of subsets of a finite set that has a set if it has all smaller ones has
\* them all.
LEMMA SubsetInduction ==
    ASSUME NEW S, IsFiniteSet(S), NEW A \in SUBSET (SUBSET S),
           \A t \in SUBSET S : (\A u \in SUBSET t : u # t => u \in A) => t \in A
    PROVE  S \in A
<1> SUFFICES ASSUME S \notin A PROVE FALSE
    OBVIOUS
<1> DEFINE B == (SUBSET S) \ A
           R == StrictSubsetOrdering(S)
<1>1. IsWellFoundedOn(R, SUBSET S)
  <2>1. IsWellFoundedOn(R, FiniteSubsetsOf(S))
      BY FS_StrictSubsetOrderingWellFounded
  <2>2. FiniteSubsetsOf(S) = SUBSET S
      BY FS_FiniteSubsetsOfFinite
  <2> HIDE DEF R
  <2> QED
      BY <2>1, <2>2, Zenon
<1>2. B \subseteq SUBSET S /\ B # {}
    OBVIOUS
<1> HIDE DEF B
<1>3. \E t \in B : \A u \in B : <<u, t>> \notin R
  <2> HIDE DEF R
  <2>1. B \in SUBSET (SUBSET S)
      BY <1>2
  <2> QED
      BY <1>1, <1>2, <2>1, Minimal
<1> PICK t \in B : \A u \in B : <<u, t>> \notin R
    BY <1>3
<1>4. t \in SUBSET S /\ t \notin A
    BY DEF B
<1>5. \A u \in SUBSET t : u # t => u \in A
  <2> SUFFICES ASSUME NEW u \in SUBSET t, u # t, u \notin A PROVE FALSE
      OBVIOUS
  <2>1. u \in B
      BY <1>4 DEF B
  <2>2. <<u, t>> \in R
      BY <1>4 DEF StrictSubsetOrdering
  <2> QED
      BY <2>1, <2>2
<1> QED
    BY <1>4, <1>5

\* What is left when the next element is taken is smaller.
LEMMA PickIn ==
    ASSUME NEW s, s # {}
    PROVE  Pick(s) \in s /\ s \ {Pick(s)} \in SUBSET s /\ s \ {Pick(s)} # s
  BY DEF Pick

\* What a fold g of f does with the set s.
Step(g, f, s) ==
    g[s] = IF s = {} THEN 0 ELSE f[Pick(s)] + g[s \ {Pick(s)}]

\* A fold does so with every subset.
LEMMA FoldAt ==
    ASSUME NEW f, NEW S, NEW g, Folds(g, f, S)
    PROVE  \A s \in SUBSET S : Step(g, f, s)
  BY Zenon DEF Folds, Step

\* The sum of a set is the same within every larger set.
LEMMA FoldsAgree ==
    ASSUME NEW f, NEW S, NEW T, NEW g, NEW h, Folds(g, f, S), Folds(h, f, T),
           NEW s, IsFiniteSet(s), s \subseteq S, s \subseteq T
    PROVE  g[s] = h[s]
<1> DEFINE A == {t \in SUBSET s : g[t] = h[t]}
<1>1. ASSUME NEW t \in SUBSET s, \A u \in SUBSET t : u # t => u \in A
      PROVE  t \in A
  <2>1. Step(g, f, t) /\ Step(h, f, t)
    <3>1. (\A u \in SUBSET S : Step(g, f, u)) /\ (\A u \in SUBSET T : Step(h, f, u))
        BY FoldAt
    <3> QED
        BY <3>1
  <2>2. t # {} => g[t \ {Pick(t)}] = h[t \ {Pick(t)}]
      BY <1>1, PickIn
  <2>3. g[t] = h[t]
    <3>1. CASE t = {}
        BY <2>1, <3>1 DEF Step
    <3>2. CASE t # {}
        BY <2>1, <2>2, <3>2 DEF Step
    <3> QED
        BY <3>1, <3>2
  <2> QED
      BY <2>3
<1> HIDE DEF A
<1>2. A \in SUBSET (SUBSET s)
    BY DEF A
<1>3. s \in A
    BY <1>1, <1>2, SubsetInduction
<1> QED
    BY <1>3 DEF A

\* The function a fold computes exists.
LEMMA FoldExists ==
    ASSUME NEW f, NEW S, IsFiniteSet(S)
    PROVE  \E g : Folds(g, f, S)
<1> DEFINE A == {t \in SUBSET S : \E g : Folds(g, f, t)}
           G(t) == CHOOSE g : Folds(g, f, t)
<1>1. ASSUME NEW t \in SUBSET S, \A u \in SUBSET t : u # t => u \in A
      PROVE  t \in A
  <2> DEFINE h == [s \in SUBSET t |-> IF s = {} THEN 0
                                      ELSE f[Pick(s)] + G(s \ {Pick(s)})[s \ {Pick(s)}]]
  <2>1. \A u \in SUBSET t : u # t => Folds(G(u), f, u)
      BY <1>1
  <2>2. \A u \in SUBSET t : IsFiniteSet(u)
      BY FS_Subset
  <2> HIDE DEF G
  <2>3. ASSUME NEW u \in SUBSET t, u # t PROVE h[u] = G(u)[u]
    <3>0. Step(G(u), f, u)
      <4>1. Folds(G(u), f, u)
          BY <2>1, <2>3
      <4>2. \A s \in SUBSET u : Step(G(u), f, s)
          BY <4>1, FoldAt
      <4> QED
          BY <4>2
    <3>1. CASE u = {}
      <4>1. G(u)[u] = 0
          BY <3>0, <3>1 DEF Step
      <4> QED
          BY <3>1, <4>1
    <3>2. CASE u # {}
      <4> DEFINE v == u \ {Pick(u)}
      <4>1. v \in SUBSET u /\ v # u /\ v # t /\ v \in SUBSET t
          BY <2>3, <3>2, PickIn
      <4>2. G(u)[u] = f[Pick(u)] + G(u)[v]
          BY <3>0, <3>2 DEF Step
      <4>3. h[u] = f[Pick(u)] + G(v)[v]
          BY <3>2
      <4> HIDE DEF v
      <4>4. Folds(G(u), f, u) /\ Folds(G(v), f, v) /\ IsFiniteSet(v)
          BY <2>1, <2>2, <2>3, <4>1
      <4>5. G(u)[v] = G(v)[v]
          BY <4>1, <4>4, FoldsAgree
      <4> QED
          BY <4>2, <4>3, <4>5
    <3> QED
        BY <3>1, <3>2
  <2>4. \A s \in SUBSET t : s # {} => h[s \ {Pick(s)}] = G(s \ {Pick(s)})[s \ {Pick(s)}]
    <3> SUFFICES ASSUME NEW s \in SUBSET t, s # {}
                 PROVE  s \ {Pick(s)} \in SUBSET t /\ s \ {Pick(s)} # t
        BY <2>3
    <3> QED
        BY PickIn
  <2>5. h = [s \in SUBSET t |-> IF s = {} THEN 0 ELSE f[Pick(s)] + h[s \ {Pick(s)}]]
    <3> DEFINE k == [s \in SUBSET t |-> IF s = {} THEN 0
                                        ELSE f[Pick(s)] + h[s \ {Pick(s)}]]
    <3>1. \A s \in SUBSET t : h[s] = k[s]
        BY <2>4
    <3>2. DOMAIN h = SUBSET t /\ DOMAIN k = SUBSET t
        OBVIOUS
    <3>3. h = [s \in SUBSET t |-> h[s]] /\ k = [s \in SUBSET t |-> k[s]]
        OBVIOUS
    <3> QED
        BY <3>1, <3>3
  <2> HIDE DEF h
  <2> QED
      BY <2>5 DEF Folds
<1>2. A \in SUBSET (SUBSET S)
    OBVIOUS
<1> HIDE DEF A
<1>3. S \in A
    BY <1>1, <1>2, SubsetInduction
<1> QED
    BY <1>3 DEF A

\* A sum is computed by such a function.
LEMMA SumIs ==
    ASSUME NEW f, NEW S
    PROVE SumFunctionOnSet(f, S) = (CHOOSE g : Folds(g, f, S))[S]
  BY Zenon DEF SumFunctionOnSet, FoldFunctionOnSet, MapThenFoldSet, Folds, Pick

\* The sum of a set is that of the next element and the rest.
LEMMA SumStep ==
    ASSUME NEW f, NEW S, IsFiniteSet(S)
    PROVE  SumFunctionOnSet(f, S) =
             IF S = {} THEN 0
             ELSE f[Pick(S)] + SumFunctionOnSet(f, S \ {Pick(S)})
<1> DEFINE G(t) == CHOOSE g : Folds(g, f, t)
           R == S \ {Pick(S)}
<1>1. Folds(G(S), f, S) /\ Folds(G(R), f, R) /\ IsFiniteSet(R)
    BY FoldExists, FS_RemoveElement
<1>2. SumFunctionOnSet(f, S) = G(S)[S] /\ SumFunctionOnSet(f, R) = G(R)[R]
    BY SumIs
<1> HIDE DEF G
<1>3. Step(G(S), f, S)
  <2>1. \A s \in SUBSET S : Step(G(S), f, s)
      BY <1>1, FoldAt
  <2> QED
      BY <2>1
<1>4. G(S)[R] = G(R)[R]
    BY <1>1, FoldsAgree
<1> QED
    BY <1>2, <1>3, <1>4 DEF Step

\* Nothing adds up to zero.
LEMMA SumEmpty == ASSUME NEW f PROVE SumFunctionOnSet(f, {}) = 0
<1>1. IsFiniteSet({})
    BY FS_EmptySet
<1> QED
    BY <1>1, SumStep

\* A sum of numbers is a number.
LEMMA SumType ==
    ASSUME NEW f, NEW S, IsFiniteSet(S), \A x \in S : f[x] \in Nat
    PROVE  SumFunctionOnSet(f, S) \in Nat
<1> DEFINE A == {t \in SUBSET S : SumFunctionOnSet(f, t) \in Nat}
<1>1. ASSUME NEW t \in SUBSET S, \A u \in SUBSET t : u # t => u \in A
      PROVE  t \in A
  <2>1. IsFiniteSet(t)
      BY FS_Subset
  <2>2. CASE t = {}
      BY <2>2, SumEmpty
  <2>3. CASE t # {}
    <3>1. SumFunctionOnSet(f, t) = f[Pick(t)] + SumFunctionOnSet(f, t \ {Pick(t)})
        BY <2>1, <2>3, SumStep
    <3>2. f[Pick(t)] \in Nat /\ SumFunctionOnSet(f, t \ {Pick(t)}) \in Nat
        BY <1>1, <2>3, PickIn
    <3> QED
        BY <3>1, <3>2
  <2> QED
      BY <2>2, <2>3
<1>2. A \in SUBSET (SUBSET S)
    OBVIOUS
<1> HIDE DEF A
<1>3. S \in A
    BY <1>1, <1>2, SubsetInduction
<1> QED
    BY <1>3 DEF A

\* Functions that agree on a set have the same sum.
LEMMA SumSame ==
    ASSUME NEW f, NEW g, NEW S, IsFiniteSet(S), \A x \in S : f[x] = g[x]
    PROVE  SumFunctionOnSet(f, S) = SumFunctionOnSet(g, S)
<1> DEFINE A == {t \in SUBSET S : SumFunctionOnSet(f, t) = SumFunctionOnSet(g, t)}
<1>1. ASSUME NEW t \in SUBSET S, \A u \in SUBSET t : u # t => u \in A
      PROVE  t \in A
  <2>1. IsFiniteSet(t)
      BY FS_Subset
  <2>2. CASE t = {}
      BY <2>2, SumEmpty
  <2>3. CASE t # {}
    <3>1. /\ SumFunctionOnSet(f, t) = f[Pick(t)] + SumFunctionOnSet(f, t \ {Pick(t)})
          /\ SumFunctionOnSet(g, t) = g[Pick(t)] + SumFunctionOnSet(g, t \ {Pick(t)})
        BY <2>1, <2>3, SumStep
    <3>2. /\ f[Pick(t)] = g[Pick(t)]
          /\ SumFunctionOnSet(f, t \ {Pick(t)}) = SumFunctionOnSet(g, t \ {Pick(t)})
        BY <1>1, <2>3, PickIn
    <3> QED
        BY <3>1, <3>2
  <2> QED
      BY <2>2, <2>3
<1>2. A \in SUBSET (SUBSET S)
    OBVIOUS
<1> HIDE DEF A
<1>3. S \in A
    BY <1>1, <1>2, SubsetInduction
<1> QED
    BY <1>3 DEF A

\* Any element can be taken out of a sum.
LEMMA SumWithout ==
    ASSUME NEW f, NEW S, IsFiniteSet(S), \A x \in S : f[x] \in Nat, NEW x \in S
    PROVE  SumFunctionOnSet(f, S) = f[x] + SumFunctionOnSet(f, S \ {x})
<1> DEFINE Out(t, y) == SumFunctionOnSet(f, t) = f[y] + SumFunctionOnSet(f, t \ {y})
           A == {t \in SUBSET S : \A y \in t : Out(t, y)}
<1>1. ASSUME NEW t \in SUBSET S, \A u \in SUBSET t : u # t => u \in A
      PROVE  t \in A
  <2> SUFFICES ASSUME NEW y \in t PROVE Out(t, y)
      OBVIOUS
  <2> DEFINE p == Pick(t)
             both == (t \ {p}) \ {y}
  <2>1. p \in t /\ IsFiniteSet(t) /\ Out(t, p)
      BY FS_Subset, PickIn, SumStep
  <2> HIDE DEF p
  <2>2. CASE y = p
      BY <2>1, <2>2
  <2>3. CASE y # p
    <3>1. t \ {p} \in A /\ y \in t \ {p} /\ t \ {y} \in A /\ p \in t \ {y}
        BY <1>1, <2>1, <2>3
    <3>2. Out(t \ {p}, y) /\ Out(t \ {y}, p)
        BY <3>1
    <3>3. (t \ {y}) \ {p} = both
        OBVIOUS
    <3>4. /\ SumFunctionOnSet(f, t) = f[p] + SumFunctionOnSet(f, t \ {p})
          /\ SumFunctionOnSet(f, t \ {p}) = f[y] + SumFunctionOnSet(f, both)
          /\ SumFunctionOnSet(f, t \ {y}) = f[p] + SumFunctionOnSet(f, both)
        BY <2>1, <3>2, <3>3
    <3>5. f[p] \in Nat /\ f[y] \in Nat /\ SumFunctionOnSet(f, both) \in Nat
      <4>1. f[p] \in Nat /\ f[y] \in Nat
          BY <2>1
      <4>2. IsFiniteSet(both)
          BY <2>1, FS_Subset
      <4>3. \A z \in both : f[z] \in Nat
          OBVIOUS
      <4> HIDE DEF both
      <4> QED
          BY <4>1, <4>2, <4>3, SumType
    <3> HIDE DEF both
    <3> QED
        BY <3>4, <3>5
  <2> QED
      BY <2>2, <2>3
<1>2. A \in SUBSET (SUBSET S)
    OBVIOUS
<1> HIDE DEF A
<1>3. S \in A
    BY <1>1, <1>2, SubsetInduction
<1> QED
    BY <1>3 DEF A

\* Summing from the second element on is summing what follows each.
LEMMA SumShift ==
    ASSUME NEW n \in Nat, NEW f, NEW g, \A i \in 1..n : g[i] = f[i + 1],
           \A i \in 1..(n + 1) : f[i] \in Nat
    PROVE  SumFunctionOnSet(g, 1..n) = SumFunctionOnSet(f, (1..(n + 1)) \ {1})
<1> DEFINE Up(t) == {i \in 2..(n + 1) : i - 1 \in t}
           A == {t \in SUBSET (1..n) : SumFunctionOnSet(g, t) = SumFunctionOnSet(f, Up(t))}
<1>0. IsFiniteSet(1..n) /\ \A t : IsFiniteSet(Up(t))
  <2>1. IsFiniteSet(1..n) /\ IsFiniteSet(2..(n + 1))
      BY FS_Interval, 1 \in Int, 2 \in Int, n \in Int, n + 1 \in Int
  <2>2. \A t : Up(t) \in SUBSET (2..(n + 1))
      OBVIOUS
  <2> HIDE DEF Up
  <2> QED
      BY <2>1, <2>2, FS_Subset
<1>1. ASSUME NEW t \in SUBSET (1..n), \A u \in SUBSET t : u # t => u \in A
      PROVE  t \in A
  <2>1. IsFiniteSet(t)
      BY <1>0, FS_Subset
  <2>2. CASE t = {}
    <3>1. Up(t) = {}
        BY <2>2
    <3> HIDE DEF Up
    <3> QED
        BY <2>2, <3>1, SumEmpty
  <2>3. CASE t # {}
    <3> DEFINE p == Pick(t)
    <3>1. p \in t /\ t \ {p} \in A
        BY <1>1, <2>3, PickIn
    <3>2. SumFunctionOnSet(g, t) = g[p] + SumFunctionOnSet(g, t \ {p})
        BY <2>1, <2>3, SumStep
    <3> HIDE DEF p
    <3>3. p \in 1..n /\ p + 1 \in Up(t) /\ Up(t) \ {p + 1} = Up(t \ {p})
        BY <3>1
    <3>4. \A i \in Up(t) : f[i] \in Nat
        OBVIOUS
    <3> DEFINE U == Up(t)
    <3>5. IsFiniteSet(U) /\ p + 1 \in U /\ \A i \in U : f[i] \in Nat
        BY <1>0, <3>3, <3>4
    <3> HIDE DEF U
    <3>6. SumFunctionOnSet(f, U) = f[p + 1] + SumFunctionOnSet(f, U \ {p + 1})
        BY <3>5, SumWithout
    <3>7. SumFunctionOnSet(g, t \ {p}) = SumFunctionOnSet(f, Up(t \ {p}))
        BY <3>1
    <3>8. U \ {p + 1} = Up(t \ {p}) /\ g[p] = f[p + 1]
        BY <3>3 DEF U
    <3>9. SumFunctionOnSet(g, t) = SumFunctionOnSet(f, U)
      <4> HIDE DEF Up
      <4> QED
          BY <3>2, <3>6, <3>7, <3>8
    <3> QED
        BY <3>9 DEF U
  <2> QED
      BY <2>2, <2>3
<1>2. A \in SUBSET (SUBSET (1..n))
    OBVIOUS
<1>3. Up(1..n) = (1..(n + 1)) \ {1}
    OBVIOUS
<1> HIDE DEF A, Up
<1>4. 1..n \in A
  <2> DEFINE D == 1..n
  <2>1. /\ IsFiniteSet(D) /\ A \in SUBSET (SUBSET D)
        /\ \A t \in SUBSET D : (\A u \in SUBSET t : u # t => u \in A) => t \in A
      BY <1>0, <1>1, <1>2
  <2> HIDE DEF D
  <2>2. D \in A
      BY <2>1, SubsetInduction
  <2> QED
      BY <2>2 DEF D
<1> QED
    BY <1>3, <1>4 DEF A

\* The last element of a sequence taken out of its sum.
LEMMA SumLast ==
    ASSUME NEW n \in Nat, NEW f, \A i \in 1..(n + 1) : f[i] \in Nat
    PROVE  SumFunctionOnSet(f, 1..(n + 1)) = f[n + 1] + SumFunctionOnSet(f, 1..n)
<1> DEFINE D == 1..(n + 1)
           last == n + 1
<1>1. IsFiniteSet(D)
    BY FS_Interval, 1 \in Int, n + 1 \in Int
<1>2. last \in D /\ D \ {last} = 1..n /\ \A i \in D : f[i] \in Nat
    OBVIOUS
<1> HIDE DEF D, last
<1>3. SumFunctionOnSet(f, D) = f[last] + SumFunctionOnSet(f, D \ {last})
    BY <1>1, <1>2, SumWithout
<1>4. SumFunctionOnSet(f, D \ {last}) = SumFunctionOnSet(f, 1..n)
    BY <1>2
<1> QED
    BY <1>3, <1>4, Zenon DEF D, last

\* g is f and one number more.
Extended(f, g, n) ==
    /\ DOMAIN f = 1..n /\ DOMAIN g = 1..(n + 1)
    /\ \A i \in 1..n : g[i] = f[i]
    /\ \A i \in 1..(n + 1) : g[i] \in Nat

\* Then it has the sum of both.
LEMMA SumExtended ==
    ASSUME NEW n \in Nat, NEW f, NEW g, Extended(f, g, n)
    PROVE  SumFunction(g) = SumFunction(f) + g[n + 1]
<1>1. IsFiniteSet(1..n)
    BY FS_Interval, 1 \in Int, n \in Int
<1>2. \A i \in 1..n : g[i] = f[i]
    BY DEF Extended
<1>3. \A i \in 1..(n + 1) : g[i] \in Nat
    BY DEF Extended
<1>4. SumFunctionOnSet(g, 1..(n + 1)) = g[n + 1] + SumFunctionOnSet(g, 1..n)
    BY <1>3, SumLast
<1>5. SumFunctionOnSet(g, 1..n) = SumFunctionOnSet(f, 1..n)
    BY <1>1, <1>2, SumSame
<1>6. g[n + 1] \in Nat /\ SumFunctionOnSet(g, 1..n) \in Nat
  <2>1. g[n + 1] \in Nat /\ \A i \in 1..n : g[i] \in Nat
      BY <1>3
  <2> QED
      BY <1>1, <2>1, SumType
<1>7. SumFunctionOnSet(g, 1..(n + 1)) = SumFunctionOnSet(g, 1..n) + g[n + 1]
    BY <1>4, <1>6
<1> QED
    BY <1>5, <1>7, Zenon DEF SumFunction, Extended

\* The first element of a sequence taken out of its sum.
LEMMA SumFirst ==
    ASSUME NEW n \in Nat, NEW f, \A i \in 1..(n + 1) : f[i] \in Nat
    PROVE  SumFunctionOnSet(f, 1..(n + 1)) = f[1] + SumFunctionOnSet(f, (1..(n + 1)) \ {1})
<1> DEFINE D == 1..(n + 1)
           first == 1
<1>1. IsFiniteSet(D)
    BY FS_Interval, 1 \in Int, n + 1 \in Int
<1>2. first \in D /\ \A i \in D : f[i] \in Nat
    OBVIOUS
<1> HIDE DEF D, first
<1>3. SumFunctionOnSet(f, D) = f[first] + SumFunctionOnSet(f, D \ {first})
    BY <1>1, <1>2, SumWithout
<1> QED
    BY <1>3 DEF D, first

\* g is f without the first number.
Shortened(f, g, n) ==
    /\ DOMAIN f = 1..(n + 1) /\ DOMAIN g = 1..n
    /\ \A i \in 1..n : g[i] = f[i + 1]
    /\ \A i \in 1..(n + 1) : f[i] \in Nat

\* Then f has the sum of both.
LEMMA SumShortened ==
    ASSUME NEW n \in Nat, NEW f, NEW g, Shortened(f, g, n)
    PROVE  SumFunction(f) = f[1] + SumFunction(g)
<1>1. \A i \in 1..(n + 1) : f[i] \in Nat
    BY DEF Shortened
<1>2. SumFunctionOnSet(g, 1..n) = SumFunctionOnSet(f, (1..(n + 1)) \ {1})
    BY SumShift DEF Shortened
<1>3. SumFunctionOnSet(f, 1..(n + 1))
          = f[1] + SumFunctionOnSet(f, (1..(n + 1)) \ {1})
    BY <1>1, SumFirst
<1> QED
    BY <1>2, <1>3, Zenon DEF SumFunction, Shortened

-----------------------------------------------------------------------------
(* WebBench: what the clients count and the parent adds up is what happened, *)
(* for every number of clients and every command line.                      *)

Places ==
    {"none", "asleep", "dial", "test", "socket", "write", "written", "check", "read",
     "exited", "killed"}

Reports == [speed : Nat, failed : Nat]

Exited == {c \in Ids : pc[c] = "exited"}

\* The types of what a benchmark has.
SocketTypes ==
    /\ fds \in [Ids -> Nat] /\ leaked \in [Ids -> Nat]
    /\ DOMAIN sock = Ids /\ DOMAIN answer = Ids

BenchTypes ==
    /\ options \in Options
    /\ forked \in 0..Clients /\ left \in Int
    /\ total \in Reports
    /\ pipe \in Seq(Reports)
    /\ pc \in [Ids -> Places]
    /\ speed \in [Ids -> Nat] /\ failed \in [Ids -> Nat] /\ trips \in [Ids -> Nat]
    /\ SocketTypes

\* A client counts what it does, owns one socket at most, and none where it is
\* about to get one; the clients not yet forked do nothing.
ClientFacts(c) ==
    /\ pc[c] \in {"none", "asleep", "dial", "test"} => speed[c] + failed[c] = trips[c]
    /\ pc[c] = "exited" => speed[c] + failed[c] \in {trips[c], trips[c] - 1}
    /\ pc[c] \in {"socket", "write", "written", "check", "read", "killed"} =>
           speed[c] + failed[c] = trips[c] - 1
    /\ fds[c] = leaked[c] + (IF Live(sock[c]) THEN 1 ELSE 0)
    /\ pc[c] \in {"none", "asleep", "dial", "socket", "exited", "killed"} => ~Live(sock[c])
    /\ c > forked => pc[c] = "none"

\* Without -k a client is not in a connection when it starts over.
OneShotFacts(c) ==
    /\ pc[c] # "dial"
    /\ pc[c] = "test" => ~Live(sock[c])

\* The totals and the pipe hold what the clients that exited have counted.
TotalsFacts ==
    /\ total.speed + SumFunction([i \in DOMAIN pipe |-> pipe[i].speed])
           = SumFunctionOnSet(speed, Exited)
    /\ total.failed + SumFunction([i \in DOMAIN pipe |-> pipe[i].failed])
           = SumFunctionOnSet(failed, Exited)
    /\ Cardinality(Exited) = Len(pipe) + (Clients - left)

BenchIInv ==
    /\ BenchTypes
    /\ \A c \in Ids : ClientFacts(c) /\ (~options.keepAlive => OneShotFacts(c))
    /\ TotalsFacts

\* The number of clients.
LEMMA ClientsType == Clients \in Nat /\ Clients # 0
  BY BenchAssumption

\* The set of the clients that exited, which is finite, and its sums.
LEMMA ExitedIsFinite == IsFiniteSet(Ids) /\ Cardinality(Ids) = Clients /\ IsFiniteSet(Exited)
<1>1. IsFiniteSet(1..Clients) /\ Cardinality(1..Clients) = Clients
  <2>1. 1 \in Int /\ Clients \in Int /\ Clients \in Nat
      BY BenchAssumption
  <2> QED
      BY <2>1, FS_Interval
<1>2. Exited \in SUBSET Ids
    BY DEF Exited
<1> QED
    BY <1>1, <1>2, FS_Subset DEF Ids

\* What the invariant says of the totals is what TotalsAddUp says.
LEMMA InvariantSaysTotals == ASSUME BenchIInv PROVE TotalsAddUp
<1>1. ASSUME left = 0 PROVE Exited = Ids
  <2>1. Cardinality(Exited) = Len(pipe) + Clients /\ Len(pipe) \in Nat /\ Clients \in Nat
      BY <1>1, BenchAssumption DEF BenchIInv, BenchTypes, TotalsFacts
  <2>2. Exited \subseteq Ids
      BY DEF Exited
  <2>3. /\ Cardinality(Exited) <= Cardinality(Ids)
        /\ Cardinality(Exited) = Cardinality(Ids) => Exited = Ids
      BY <2>2, ExitedIsFinite, FS_Subset
  <2> QED
      BY <2>1, <2>3, ExitedIsFinite
<1> QED
    BY <1>1 DEF BenchIInv, TotalsFacts, TotalsAddUp, Exited

\* The invariant implies the property.
LEMMA InvariantSettlesTrips == ASSUME BenchIInv PROVE TripsSettled
<1>1. CountsAddUp
  <2> SUFFICES ASSUME NEW c \in Ids
               PROVE  LET counted == speed[c] + failed[c] IN
                      CASE pc[c] \in {"none", "asleep", "dial", "test"} -> counted = trips[c]
                        [] pc[c] = "exited" -> counted \in {trips[c], trips[c] - 1}
                        [] OTHER -> counted = trips[c] - 1
      BY DEF CountsAddUp
  <2>1. ClientFacts(c) /\ pc[c] \in Places
      BY DEF BenchIInv, BenchTypes
  <2> QED
      BY <2>1 DEF ClientFacts, Places
<1>2. SocketsClosed
    BY DEF BenchIInv, ClientFacts, SocketsClosed
<1> QED
    BY <1>1, <1>2, InvariantSaysTotals DEF TripsSettled

\* The invariant holds at first.
LEMMA BenchInvInit == ASSUME BenchInit PROVE BenchIInv
<1>1. BenchTypes
  <2>1. /\ pc \in [Ids -> Places]
        /\ speed \in [Ids -> Nat] /\ failed \in [Ids -> Nat] /\ trips \in [Ids -> Nat]
        /\ fds \in [Ids -> Nat] /\ leaked \in [Ids -> Nat]
        /\ DOMAIN sock = Ids /\ DOMAIN answer = Ids
      BY DEF BenchInit, Places
  <2>2. options \in Options /\ total \in Reports
      BY DEF BenchInit, Reports
  <2>3. pipe \in Seq(Reports)
    <3>1. pipe = <<>>
        BY DEF BenchInit
    <3> QED
        BY <3>1
  <2>4. forked \in 0..Clients /\ left \in Int
    <3>1. forked = 0 /\ left = Clients
        BY DEF BenchInit
    <3> QED
        BY <3>1, ClientsType
  <2> QED
      BY <2>1, <2>2, <2>3, <2>4 DEF BenchTypes, SocketTypes
<1>2. \A c \in Ids : ClientFacts(c) /\ (~options.keepAlive => OneShotFacts(c))
  <2> SUFFICES ASSUME NEW c \in Ids PROVE ClientFacts(c) /\ OneShotFacts(c)
      OBVIOUS
  <2>1. /\ pc[c] = "none" /\ sock[c] = "none" /\ speed[c] = 0 /\ failed[c] = 0
        /\ trips[c] = 0 /\ fds[c] = 0 /\ leaked[c] = 0
      BY DEF BenchInit
  <2> QED
      BY <2>1 DEF ClientFacts, OneShotFacts, Live
<1>3. TotalsFacts
  <2>1. Exited = {} /\ pipe = <<>> /\ total = [speed |-> 0, failed |-> 0] /\ left = Clients
      BY DEF BenchInit, Exited
  <2>2. /\ SumFunction([i \in DOMAIN pipe |-> pipe[i].speed]) = 0
        /\ SumFunction([i \in DOMAIN pipe |-> pipe[i].failed]) = 0
    <3>1. DOMAIN [i \in DOMAIN pipe |-> pipe[i].speed] = {}
        BY <2>1
    <3>2. DOMAIN [i \in DOMAIN pipe |-> pipe[i].failed] = {}
        BY <2>1
    <3> QED
        BY <3>1, <3>2, SumEmpty DEF SumFunction
  <2>3. Cardinality({}) = 0 /\ Len(<<>>) = 0
      BY FS_EmptySet
  <2> QED
      BY <2>1, <2>2, <2>3, SumEmpty, BenchAssumption DEF TotalsFacts
<1> QED
    BY <1>1, <1>2, <1>3 DEF BenchIInv

\* A step after which the same clients have exited, with the same counts.
LEMMA TotalsKept ==
    ASSUME TotalsFacts, UNCHANGED <<pipe, total, left>>,
           Exited' = Exited, \A c \in Exited : speed'[c] = speed[c] /\ failed'[c] = failed[c]
    PROVE  TotalsFacts'
<1>1. /\ SumFunctionOnSet(speed, Exited) = SumFunctionOnSet(speed', Exited)
      /\ SumFunctionOnSet(failed, Exited) = SumFunctionOnSet(failed', Exited)
    BY ExitedIsFinite, SumSame
<1> QED
    BY <1>1 DEF TotalsFacts

\* The socket after a read that failed.
Closed == IF options.keepAlive THEN "closed" ELSE "none"

\* The facts about one client.
Facts(c) == ClientFacts(c) /\ (~options.keepAlive => OneShotFacts(c))

\* A step in which client i has no part.
Same(i) ==
    /\ pc'[i] = pc[i] /\ speed'[i] = speed[i] /\ failed'[i] = failed[i]
    /\ trips'[i] = trips[i] /\ sock'[i] = sock[i] /\ fds'[i] = fds[i]
    /\ leaked'[i] = leaked[i]

\* It keeps the facts about that client.
LEMMA OthersKeep ==
    ASSUME NEW i, Facts(i), UNCHANGED <<options, forked>>, Same(i)
    PROVE  Facts(i)'
  BY DEF Facts, ClientFacts, OneShotFacts, Same

\* A step of one client, or about its connection, that does not report.
LEMMA ClientStepKeeps ==
    ASSUME BenchIInv, NEW c \in Ids, BenchTypes', Facts(c)',
           UNCHANGED <<parentVars, pipe>>, \A i \in Ids \ {c} : Same(i),
           pc[c] # "exited", pc'[c] # "exited"
    PROVE  BenchIInv'
<1>1. UNCHANGED <<options, forked, total, left, pipe>>
    BY DEF parentVars
<1>2. ASSUME NEW i \in Ids PROVE Facts(i)'
  <2>1. CASE i = c
      BY <2>1
  <2>2. CASE i # c
      BY <1>1, <2>2, OthersKeep DEF BenchIInv, Facts
  <2> QED
      BY <2>1, <2>2
<1>3. TotalsFacts'
  <2>1. Exited' = Exited /\ \A i \in Exited : speed'[i] = speed[i] /\ failed'[i] = failed[i]
      BY DEF Exited, Same
  <2> QED
      BY <1>1, <2>1, TotalsKept DEF BenchIInv
<1> QED
    BY <1>2, <1>3 DEF BenchIInv, Facts

\* close() leaves no socket behind.
LEMMA CloseKeeps ==
    ASSUME SocketTypes, NEW c \in Ids, NEW s, ~Live(s), Close(c, s),
           fds[c] = leaked[c] + (IF Live(sock[c]) THEN 1 ELSE 0)
    PROVE  SocketTypes' /\ sock'[c] = s /\ fds'[c] = leaked'[c]
<1>1. leaked[c] \in Nat /\ fds[c] \in Nat
    BY DEF SocketTypes
<1>2. (IF Live(sock[c]) THEN fds[c] - 1 ELSE fds[c]) = leaked[c]
    BY <1>1
<1>3. fds' = [fds EXCEPT ![c] = leaked[c]]
    BY <1>2 DEF Close
<1>4. fds' \in [Ids -> Nat] /\ fds'[c] = leaked[c]
    BY <1>1, <1>3 DEF SocketTypes
<1> QED
    BY <1>4 DEF Close, SocketTypes

\* A call of Socket() that connects.
LEMMA ConnectedKeeps ==
    ASSUME SocketTypes, NEW c \in Ids, Connected(c)
    PROVE  SocketTypes' /\ sock'[c] = "open" /\ fds'[c] = fds[c] + 1 /\ leaked' = leaked
  BY DEF SocketTypes, Connected

\* A call of Socket() that does not connect.
LEMMA NotConnectedKeeps ==
    ASSUME SocketTypes, NEW c \in Ids, NotConnected(c)
    PROVE  /\ SocketTypes' /\ sock' = sock
           /\ \/ fds'[c] = fds[c] /\ leaked'[c] = leaked[c]
              \/ fds'[c] = fds[c] + 1 /\ leaked'[c] = leaked[c] + 1
<1>1. UNCHANGED <<sock, answer>>
    BY DEF NotConnected
<1>2. CASE UNCHANGED <<fds, leaked>>
    BY <1>1, <1>2 DEF SocketTypes
<1>3. CASE /\ fds' = [fds EXCEPT ![c] = @ + 1]
           /\ leaked' = [leaked EXCEPT ![c] = @ + 1]
    BY <1>1, <1>3 DEF SocketTypes
<1> QED
    BY <1>2, <1>3 DEF NotConnected

\* A trip that succeeds, from a place inside the loop.
LEMMA SucceedsKeeps ==
    ASSUME BenchTypes, NEW c \in Ids, ClientFacts(c), Succeeds(c),
           pc[c] \in {"socket", "write", "written", "check", "read"},
           UNCHANGED <<parentVars, pipe, timerexpired, failed, trips>>
    PROVE  BenchTypes' /\ Facts(c)'
<1>1. /\ pc' = [pc EXCEPT ![c] = "test"] /\ speed' = [speed EXCEPT ![c] = @ + 1]
      /\ pc' \in [Ids -> Places] /\ pc'[c] = "test"
      /\ speed' \in [Ids -> Nat] /\ speed'[c] = speed[c] + 1
    BY DEF BenchTypes, Places, Succeeds, Goto
<1>2. /\ speed[c] \in Nat /\ failed[c] \in Nat /\ trips[c] \in Nat
      /\ speed[c] + failed[c] = trips[c] - 1
      /\ failed'[c] = failed[c] /\ trips'[c] = trips[c]
      /\ forked' = forked /\ ~(c > forked) /\ options' = options
    BY DEF BenchTypes, ClientFacts, parentVars
<1>3. CASE options.keepAlive
  <2>1. UNCHANGED <<sock, answer, fds, leaked>>
      BY <1>3 DEF Succeeds, sockVars
  <2>2. BenchTypes'
      BY <1>1, <2>1 DEF BenchTypes, SocketTypes, parentVars
  <2>3. ClientFacts(c)'
      BY <1>1, <1>2, <2>1 DEF ClientFacts, Live
  <2> QED
      BY <1>2, <1>3, <2>2, <2>3 DEF Facts
<1>4. CASE ~options.keepAlive
  <2>1. Close(c, "none")
      BY <1>4 DEF Succeeds
  <2>2. SocketTypes' /\ sock'[c] = "none" /\ fds'[c] = leaked'[c]
    <3>1. ~Live("none")
        BY DEF Live
    <3> QED
        BY <2>1, <3>1, CloseKeeps DEF BenchTypes, ClientFacts
  <2>3. BenchTypes'
      BY <1>1, <2>2 DEF BenchTypes, parentVars
  <2>4. ClientFacts(c)'
    <3>1. leaked'[c] \in Nat
        BY <2>2 DEF SocketTypes
    <3> QED
        BY <1>1, <1>2, <2>2, <3>1 DEF ClientFacts, Live
  <2>5. OneShotFacts(c)'
      BY <1>1, <2>2 DEF OneShotFacts, Live
  <2> QED
      BY <2>3, <2>4, <2>5 DEF Facts
<1> QED
    BY <1>3, <1>4

\* After its sleep: nothing is counted yet, no connection is open.
LEMMA BeginKeeps == ASSUME BenchIInv, NEW c \in Ids, Begin(c) PROVE BenchIInv'
<1> USE DEF parentVars, countVars
<1>0. BenchTypes /\ Facts(c)
    BY DEF BenchIInv, Facts
<1>1. BenchTypes'
    BY <1>0 DEF BenchTypes, SocketTypes, Places, Begin, Goto, sockVars
<1>2. Facts(c)'
    BY <1>0
       DEF BenchTypes, SocketTypes, Facts, ClientFacts, OneShotFacts, Live, Begin, Goto,
           sockVars
<1>3. UNCHANGED <<parentVars, pipe>> /\ \A i \in Ids \ {c} : Same(i)
    BY <1>0 DEF BenchTypes, SocketTypes, Same, Begin, Goto, sockVars
<1>4. pc[c] # "exited" /\ pc'[c] # "exited"
    BY <1>0 DEF BenchTypes, Facts, ClientFacts, Live, Begin, Goto, sockVars
<1> QED
    BY <1>0, <1>1, <1>2, <1>3, <1>4, ClientStepKeeps

\* A keep-alive client gets its connection where it has none.
LEMMA DialConnectsKeeps == ASSUME BenchIInv, NEW c \in Ids, DialConnects(c) PROVE BenchIInv'
<1> USE DEF parentVars, countVars
<1>0. BenchTypes /\ Facts(c)
    BY DEF BenchIInv, Facts
<1>1. BenchTypes'
    BY <1>0 DEF BenchTypes, SocketTypes, Places, DialConnects, Connected, Goto
<1>2. Facts(c)'
    BY <1>0
       DEF BenchTypes, SocketTypes, Facts, ClientFacts, OneShotFacts, Live, DialConnects,
           Connected, Goto
<1>3. UNCHANGED <<parentVars, pipe>> /\ \A i \in Ids \ {c} : Same(i)
    BY <1>0 DEF BenchTypes, SocketTypes, Same, DialConnects, Connected, Goto
<1>4. pc[c] # "exited" /\ pc'[c] # "exited"
    BY <1>0 DEF BenchTypes, Facts, ClientFacts, Live, DialConnects, Connected, Goto
<1> QED
    BY <1>0, <1>1, <1>2, <1>3, <1>4, ClientStepKeeps

\* A trip begins, which is the one that is not counted yet.
LEMMA TestKeeps == ASSUME BenchIInv, NEW c \in Ids, Test(c) PROVE BenchIInv'
<1> USE DEF parentVars, countVars
<1>0. BenchTypes /\ Facts(c)
    BY DEF BenchIInv, Facts
<1>1. BenchTypes'
    BY <1>0 DEF BenchTypes, SocketTypes, Places, Test, Goto, sockVars
<1>2. Facts(c)'
    BY <1>0
       DEF BenchTypes, SocketTypes, Facts, ClientFacts, OneShotFacts, Live, Test, Goto,
           sockVars
<1>3. UNCHANGED <<parentVars, pipe>> /\ \A i \in Ids \ {c} : Same(i)
    BY <1>0 DEF BenchTypes, SocketTypes, Same, Test, Goto, sockVars
<1>4. pc[c] # "exited" /\ pc'[c] # "exited"
    BY <1>0 DEF BenchTypes, Facts, ClientFacts, Live, Test, Goto, sockVars
<1> QED
    BY <1>0, <1>1, <1>2, <1>3, <1>4, ClientStepKeeps

\* The request is written.
LEMMA WriteWorksKeeps == ASSUME BenchIInv, NEW c \in Ids, WriteWorks(c) PROVE BenchIInv'
<1> USE DEF parentVars, countVars
<1>0. BenchTypes /\ Facts(c)
    BY DEF BenchIInv, Facts
<1>1. BenchTypes'
    BY <1>0 DEF BenchTypes, SocketTypes, Places, WriteWorks, Goto
<1>2. Facts(c)'
    BY <1>0
       DEF BenchTypes, SocketTypes, Facts, ClientFacts, OneShotFacts, Live, WriteWorks,
           Goto
<1>3. UNCHANGED <<parentVars, pipe>> /\ \A i \in Ids \ {c} : Same(i)
    BY <1>0 DEF BenchTypes, SocketTypes, Same, WriteWorks, Goto
<1>4. pc[c] # "exited" /\ pc'[c] # "exited"
    BY <1>0 DEF BenchTypes, Facts, ClientFacts, Live, WriteWorks, Goto
<1> QED
    BY <1>0, <1>1, <1>2, <1>3, <1>4, ClientStepKeeps

\* SIGPIPE: the trip is not counted and the socket is gone.
LEMMA WriteKillsKeeps == ASSUME BenchIInv, NEW c \in Ids, WriteKills(c) PROVE BenchIInv'
<1> USE DEF parentVars, countVars
<1>0. BenchTypes /\ Facts(c)
    BY DEF BenchIInv, Facts
<1>1. BenchTypes'
    BY <1>0 DEF BenchTypes, SocketTypes, Places, WriteKills, CloseAll, Goto
<1>2. Facts(c)'
    BY <1>0
       DEF BenchTypes, SocketTypes, Facts, ClientFacts, OneShotFacts, Live, WriteKills,
           CloseAll, Goto
<1>3. UNCHANGED <<parentVars, pipe>> /\ \A i \in Ids \ {c} : Same(i)
    BY <1>0 DEF BenchTypes, SocketTypes, Same, WriteKills, CloseAll, Goto
<1>4. pc[c] # "exited" /\ pc'[c] # "exited"
    BY <1>0 DEF BenchTypes, Facts, ClientFacts, Live, WriteKills, CloseAll, Goto
<1> QED
    BY <1>0, <1>1, <1>2, <1>3, <1>4, ClientStepKeeps

\* The alarm sets a flag.
LEMMA RingSetsFlagKeeps == ASSUME BenchIInv, NEW c \in Ids, RingSetsFlag(c) PROVE BenchIInv'
<1> USE DEF parentVars, countVars
<1>0. BenchTypes /\ Facts(c)
    BY DEF BenchIInv, Facts
<1>1. BenchTypes'
    BY <1>0 DEF BenchTypes, SocketTypes, Places, RingSetsFlag, Ring, sockVars
<1>2. Facts(c)'
    BY <1>0
       DEF BenchTypes, SocketTypes, Facts, ClientFacts, OneShotFacts, Live, RingSetsFlag,
           Ring, sockVars
<1>3. UNCHANGED <<parentVars, pipe>> /\ \A i \in Ids \ {c} : Same(i)
    BY <1>0 DEF BenchTypes, SocketTypes, Same, RingSetsFlag, Ring, sockVars
<1>4. pc[c] # "exited" /\ pc'[c] # "exited"
    BY <1>0 DEF BenchTypes, Facts, ClientFacts, Live, RingSetsFlag, Ring, sockVars
<1> QED
    BY <1>0, <1>1, <1>2, <1>3, <1>4, ClientStepKeeps

\* The server answers.
LEMMA ServerAnswersKeeps == ASSUME BenchIInv, NEW c \in Ids, ServerAnswers(c) PROVE BenchIInv'
<1> USE DEF parentVars, countVars
<1>0. BenchTypes /\ Facts(c)
    BY DEF BenchIInv, Facts
<1>1. BenchTypes'
    BY <1>0 DEF BenchTypes, SocketTypes, Places, ServerAnswers
<1>2. Facts(c)'
    BY <1>0
       DEF BenchTypes, SocketTypes, Facts, ClientFacts, OneShotFacts, Live, ServerAnswers
<1>3. UNCHANGED <<parentVars, pipe>> /\ \A i \in Ids \ {c} : Same(i)
    BY <1>0 DEF BenchTypes, SocketTypes, Same, ServerAnswers
<1>4. pc[c] # "exited" /\ pc'[c] # "exited"
    BY <1>0 DEF BenchTypes, Facts, ClientFacts, Live, ServerAnswers
<1> QED
    BY <1>0, <1>1, <1>2, <1>3, <1>4, ClientStepKeeps

\* The server ends a connection, which stays the client's to close.
LEMMA EndKeeps == ASSUME BenchIInv, NEW c \in Ids, End(c) PROVE BenchIInv'
<1> USE DEF parentVars, countVars
<1>0. BenchTypes /\ Facts(c)
    BY DEF BenchIInv, Facts
<1>1. BenchTypes'
    BY <1>0 DEF BenchTypes, SocketTypes, Places, End
<1>2. Facts(c)'
    BY <1>0 DEF BenchTypes, SocketTypes, Facts, ClientFacts, OneShotFacts, Live, End
<1>3. UNCHANGED <<parentVars, pipe>> /\ \A i \in Ids \ {c} : Same(i)
    BY <1>0 DEF BenchTypes, SocketTypes, Same, End
<1>4. pc[c] # "exited" /\ pc'[c] # "exited"
    BY <1>0 DEF BenchTypes, Facts, ClientFacts, Live, End
<1> QED
    BY <1>0, <1>1, <1>2, <1>3, <1>4, ClientStepKeeps

\* A connection is reset, which stays the client's to close.
LEMMA ResetKeeps == ASSUME BenchIInv, NEW c \in Ids, Reset(c) PROVE BenchIInv'
<1> USE DEF parentVars, countVars
<1>0. BenchTypes /\ Facts(c)
    BY DEF BenchIInv, Facts
<1>1. BenchTypes'
    BY <1>0 DEF BenchTypes, SocketTypes, Places, Reset
<1>2. Facts(c)'
    BY <1>0 DEF BenchTypes, SocketTypes, Facts, ClientFacts, OneShotFacts, Live, Reset
<1>3. UNCHANGED <<parentVars, pipe>> /\ \A i \in Ids \ {c} : Same(i)
    BY <1>0 DEF BenchTypes, SocketTypes, Same, Reset
<1>4. pc[c] # "exited" /\ pc'[c] # "exited"
    BY <1>0 DEF BenchTypes, Facts, ClientFacts, Live, Reset
<1> QED
    BY <1>0, <1>1, <1>2, <1>3, <1>4, ClientStepKeeps

\* The trip counts without an answer.
LEMMA ForcedKeeps == ASSUME BenchIInv, NEW c \in Ids, Forced(c) PROVE BenchIInv'
<1> USE DEF parentVars, countVars
<1>0. BenchTypes /\ Facts(c)
    BY DEF BenchIInv, Facts
<1>1. BenchTypes' /\ Facts(c)'
  <2>1. Succeeds(c) /\ UNCHANGED <<parentVars, pipe, timerexpired, failed, trips>>
      BY DEF Forced
  <2>2. pc[c] \in {"socket", "write", "written", "check", "read"}
      BY DEF Forced
  <2> QED
      BY <1>0, <2>1, <2>2, SucceedsKeeps DEF Facts
<1>2. UNCHANGED <<parentVars, pipe>> /\ \A i \in Ids \ {c} : Same(i)
    BY <1>0 DEF BenchTypes, SocketTypes, Same, Forced, Succeeds, Close, Goto, sockVars
<1>3. pc[c] # "exited" /\ pc'[c] # "exited"
    BY <1>0
       DEF BenchTypes, Facts, ClientFacts, Live, Forced, Succeeds, Close, Goto, sockVars
<1> QED
    BY <1>0, <1>1, <1>2, <1>3, ClientStepKeeps

\* The trip counts when the connection ends.
LEMMA ReadEndKeeps == ASSUME BenchIInv, NEW c \in Ids, ReadEnd(c) PROVE BenchIInv'
<1> USE DEF parentVars, countVars
<1>0. BenchTypes /\ Facts(c)
    BY DEF BenchIInv, Facts
<1>1. BenchTypes' /\ Facts(c)'
  <2>1. Succeeds(c) /\ UNCHANGED <<parentVars, pipe, timerexpired, failed, trips>>
      BY DEF ReadEnd
  <2>2. pc[c] \in {"socket", "write", "written", "check", "read"}
      BY DEF ReadEnd
  <2> QED
      BY <1>0, <2>1, <2>2, SucceedsKeeps DEF Facts
<1>2. UNCHANGED <<parentVars, pipe>> /\ \A i \in Ids \ {c} : Same(i)
    BY <1>0 DEF BenchTypes, SocketTypes, Same, ReadEnd, Succeeds, Close, Goto, sockVars
<1>3. pc[c] # "exited" /\ pc'[c] # "exited"
    BY <1>0
       DEF BenchTypes, Facts, ClientFacts, Live, ReadEnd, Succeeds, Close, Goto, sockVars
<1> QED
    BY <1>0, <1>1, <1>2, <1>3, ClientStepKeeps

\* A write that fails counts as a failure and closes the socket.
LEMMA WriteFailsKeeps == ASSUME BenchIInv, NEW c \in Ids, WriteFails(c) PROVE BenchIInv'
<1> USE DEF parentVars, countVars
<1>0. BenchTypes /\ Facts(c)
    BY DEF BenchIInv, Facts
<1>1. BenchTypes' /\ Facts(c)'
  <2>1. Close(c, "none") /\ ~Live("none")
      BY DEF WriteFails, Live
  <2>2. SocketTypes' /\ sock'[c] = "none" /\ fds'[c] = leaked'[c]
      BY <1>0, <2>1, CloseKeeps DEF BenchTypes, Facts, ClientFacts
  <2>3. BenchTypes'
      BY <1>0, <2>2 DEF BenchTypes, Places, WriteFails, Fails, Goto
  <2>4. /\ failed'[c] = failed[c] + 1 /\ speed'[c] = speed[c] /\ trips'[c] = trips[c]
        /\ pc'[c] = IF options.keepAlive THEN "dial" ELSE "test"
        /\ speed[c] + failed[c] = trips[c] - 1 /\ ~(c > forked) /\ forked' = forked
        /\ options' = options
      BY <1>0 DEF BenchTypes, Facts, ClientFacts, WriteFails, Fails, Goto
  <2>5. speed[c] \in Nat /\ failed[c] \in Nat /\ trips[c] \in Nat /\ leaked'[c] \in Nat
      BY <1>0, <2>2 DEF BenchTypes, SocketTypes
  <2>6. ClientFacts(c)'
      BY <2>1, <2>2, <2>4, <2>5 DEF ClientFacts
  <2>7. ~options.keepAlive => OneShotFacts(c)'
      BY <2>1, <2>2, <2>4 DEF OneShotFacts
  <2> QED
      BY <2>3, <2>4, <2>6, <2>7 DEF Facts
<1>2. UNCHANGED <<parentVars, pipe>> /\ \A i \in Ids \ {c} : Same(i)
    BY <1>0 DEF BenchTypes, SocketTypes, Same, WriteFails, Fails, Close, Goto
<1>3. pc[c] # "exited" /\ pc'[c] # "exited"
    BY <1>0 DEF BenchTypes, Facts, ClientFacts, Live, WriteFails, Fails, Close, Goto
<1> QED
    BY <1>0, <1>1, <1>2, <1>3, ClientStepKeeps

\* A shutdown that fails counts as a failure and closes the socket.
LEMMA ShutdownFailsKeeps == ASSUME BenchIInv, NEW c \in Ids, ShutdownFails(c) PROVE BenchIInv'
<1> USE DEF parentVars, countVars
<1>0. BenchTypes /\ Facts(c)
    BY DEF BenchIInv, Facts
<1>1. BenchTypes' /\ Facts(c)'
  <2>1. Close(c, "none") /\ ~Live("none")
      BY DEF ShutdownFails, Live
  <2>2. SocketTypes' /\ sock'[c] = "none" /\ fds'[c] = leaked'[c]
      BY <1>0, <2>1, CloseKeeps DEF BenchTypes, Facts, ClientFacts
  <2>3. BenchTypes'
      BY <1>0, <2>2 DEF BenchTypes, Places, ShutdownFails, Fails, Goto
  <2>4. /\ failed'[c] = failed[c] + 1 /\ speed'[c] = speed[c] /\ trips'[c] = trips[c]
        /\ pc'[c] = "test"
        /\ speed[c] + failed[c] = trips[c] - 1 /\ ~(c > forked) /\ forked' = forked
        /\ options' = options
      BY <1>0 DEF BenchTypes, Facts, ClientFacts, ShutdownFails, Fails, Goto
  <2>5. speed[c] \in Nat /\ failed[c] \in Nat /\ trips[c] \in Nat /\ leaked'[c] \in Nat
      BY <1>0, <2>2 DEF BenchTypes, SocketTypes
  <2>6. ClientFacts(c)'
      BY <2>1, <2>2, <2>4, <2>5 DEF ClientFacts
  <2>7. ~options.keepAlive => OneShotFacts(c)'
      BY <2>1, <2>2, <2>4 DEF OneShotFacts
  <2> QED
      BY <2>3, <2>4, <2>6, <2>7 DEF Facts
<1>2. UNCHANGED <<parentVars, pipe>> /\ \A i \in Ids \ {c} : Same(i)
    BY <1>0 DEF BenchTypes, SocketTypes, Same, ShutdownFails, Fails, Close, Goto
<1>3. pc[c] # "exited" /\ pc'[c] # "exited"
    BY <1>0 DEF BenchTypes, Facts, ClientFacts, Live, ShutdownFails, Fails, Close, Goto
<1> QED
    BY <1>0, <1>1, <1>2, <1>3, ClientStepKeeps

\* A read that fails counts as a failure and closes the socket.
LEMMA ReadResetKeeps == ASSUME BenchIInv, NEW c \in Ids, ReadReset(c) PROVE BenchIInv'
<1> USE DEF parentVars, countVars
<1>0. BenchTypes /\ Facts(c)
    BY DEF BenchIInv, Facts
<1>1. BenchTypes' /\ Facts(c)'
  <2>1. Close(c, Closed) /\ ~Live(Closed)
      BY DEF Closed, ReadReset, ReadFails, Live
  <2>2. SocketTypes' /\ sock'[c] = Closed /\ fds'[c] = leaked'[c]
      BY <1>0, <2>1, CloseKeeps DEF BenchTypes, Facts, ClientFacts
  <2>3. BenchTypes'
      BY <1>0, <2>2 DEF BenchTypes, Places, ReadReset, ReadFails, Fails, Goto
  <2>4. /\ failed'[c] = failed[c] + 1 /\ speed'[c] = speed[c] /\ trips'[c] = trips[c]
        /\ pc'[c] = "test"
        /\ speed[c] + failed[c] = trips[c] - 1 /\ ~(c > forked) /\ forked' = forked
        /\ options' = options
      BY <1>0 DEF BenchTypes, Facts, ClientFacts, ReadReset, ReadFails, Fails, Goto
  <2>5. speed[c] \in Nat /\ failed[c] \in Nat /\ trips[c] \in Nat /\ leaked'[c] \in Nat
      BY <1>0, <2>2 DEF BenchTypes, SocketTypes
  <2>6. ClientFacts(c)'
      BY <2>1, <2>2, <2>4, <2>5 DEF ClientFacts
  <2>7. ~options.keepAlive => OneShotFacts(c)'
      BY <2>1, <2>2, <2>4 DEF OneShotFacts
  <2> QED
      BY <2>3, <2>4, <2>6, <2>7 DEF Facts
<1>2. UNCHANGED <<parentVars, pipe>> /\ \A i \in Ids \ {c} : Same(i)
    BY <1>0 DEF BenchTypes, SocketTypes, Same, ReadReset, ReadFails, Fails, Close, Goto
<1>3. pc[c] # "exited" /\ pc'[c] # "exited"
    BY <1>0
       DEF BenchTypes, Facts, ClientFacts, Live, ReadReset, ReadFails, Fails, Close, Goto
<1> QED
    BY <1>0, <1>1, <1>2, <1>3, ClientStepKeeps

\* So does a read that the alarm interrupts.
LEMMA RingInterruptsKeeps == ASSUME BenchIInv, NEW c \in Ids, RingInterrupts(c) PROVE BenchIInv'
<1> USE DEF parentVars, countVars
<1>0. BenchTypes /\ Facts(c)
    BY DEF BenchIInv, Facts
<1>1. BenchTypes' /\ Facts(c)'
  <2>1. Close(c, Closed) /\ ~Live(Closed)
      BY DEF Closed, RingInterrupts, Ring, ReadFails, Live
  <2>2. SocketTypes' /\ sock'[c] = Closed /\ fds'[c] = leaked'[c]
      BY <1>0, <2>1, CloseKeeps DEF BenchTypes, Facts, ClientFacts
  <2>3. BenchTypes'
      BY <1>0, <2>2 DEF BenchTypes, Places, RingInterrupts, Ring, ReadFails, Fails, Goto
  <2>4. /\ failed'[c] = failed[c] + 1 /\ speed'[c] = speed[c] /\ trips'[c] = trips[c]
        /\ pc'[c] = "test"
        /\ speed[c] + failed[c] = trips[c] - 1 /\ ~(c > forked) /\ forked' = forked
        /\ options' = options
      BY <1>0
         DEF BenchTypes, Facts, ClientFacts, RingInterrupts, Ring, ReadFails, Fails, Goto
  <2>5. speed[c] \in Nat /\ failed[c] \in Nat /\ trips[c] \in Nat /\ leaked'[c] \in Nat
      BY <1>0, <2>2 DEF BenchTypes, SocketTypes
  <2>6. ClientFacts(c)'
      BY <2>1, <2>2, <2>4, <2>5 DEF ClientFacts
  <2>7. ~options.keepAlive => OneShotFacts(c)'
      BY <2>1, <2>2, <2>4 DEF OneShotFacts
  <2> QED
      BY <2>3, <2>4, <2>6, <2>7 DEF Facts
<1>2. UNCHANGED <<parentVars, pipe>> /\ \A i \in Ids \ {c} : Same(i)
    BY <1>0
       DEF BenchTypes, SocketTypes, Same, RingInterrupts, Ring, ReadFails, Fails, Close,
           Goto
<1>3. pc[c] # "exited" /\ pc'[c] # "exited"
    BY <1>0
       DEF BenchTypes, Facts, ClientFacts, Live, RingInterrupts, Ring, ReadFails, Fails,
           Close, Goto
<1> QED
    BY <1>0, <1>1, <1>2, <1>3, ClientStepKeeps

\* Socket() fails: what it leaves open is counted as leaked.
LEMMA DialFailsKeeps == ASSUME BenchIInv, NEW c \in Ids, DialFails(c) PROVE BenchIInv'
<1> USE DEF parentVars, countVars
<1>0. BenchTypes /\ Facts(c)
    BY DEF BenchIInv, Facts
<1>1. BenchTypes' /\ Facts(c)'
  <2>1. /\ SocketTypes' /\ sock' = sock
        /\ \/ fds'[c] = fds[c] /\ leaked'[c] = leaked[c]
           \/ fds'[c] = fds[c] + 1 /\ leaked'[c] = leaked[c] + 1
    <3>1. SocketTypes /\ NotConnected(c)
        BY <1>0 DEF BenchTypes, DialFails
    <3> QED
        BY <3>1, NotConnectedKeeps
  <2>2. BenchTypes'
      BY <1>0, <2>1 DEF BenchTypes, DialFails
  <2>3. fds'[c] = leaked'[c] + (IF Live(sock[c]) THEN 1 ELSE 0)
      BY <1>0, <2>1 DEF BenchTypes, SocketTypes, Facts, ClientFacts
  <2>4. Facts(c)'
      BY <1>0, <2>1, <2>3 DEF DialFails, Facts, ClientFacts, OneShotFacts
  <2> QED
      BY <2>2, <2>4
<1>2. UNCHANGED <<parentVars, pipe>> /\ \A i \in Ids \ {c} : Same(i)
    BY <1>0 DEF BenchTypes, SocketTypes, Same, DialFails, NotConnected, Goto
<1>3. pc[c] # "exited" /\ pc'[c] # "exited"
    BY <1>0 DEF BenchTypes, DialFails, NotConnected, Goto
<1> QED
    BY <1>0, <1>1, <1>2, <1>3, ClientStepKeeps

\* A client without -k gets its connection, or counts a failure.
LEMMA NewSocketKeeps == ASSUME BenchIInv, NEW c \in Ids, NewSocket(c) PROVE BenchIInv'
<1> USE DEF parentVars, countVars
<1>0. BenchTypes /\ Facts(c)
    BY DEF BenchIInv, Facts
<1>1. BenchTypes' /\ Facts(c)'
  <2>0. pc[c] = "socket" /\ pc' \in [Ids -> Places]
      BY <1>0 DEF BenchTypes, Places, NewSocket, Goto
  <2>1. CASE Connected(c) /\ Goto(c, "write") /\ UNCHANGED failed
    <3>1. SocketTypes' /\ sock'[c] = "open" /\ fds'[c] = fds[c] + 1 /\ leaked' = leaked
        BY <1>0, <2>1, ConnectedKeeps DEF BenchTypes
    <3>2. BenchTypes'
        BY <1>0, <2>0, <2>1, <3>1 DEF BenchTypes, NewSocket
    <3>3. Facts(c)'
        BY <1>0, <2>0, <2>1, <3>1
          
              DEF BenchTypes, SocketTypes, Facts, ClientFacts, OneShotFacts, Live,
                  NewSocket, Goto
    <3> QED
        BY <3>2, <3>3
  <2>2. CASE NotConnected(c) /\ Fails(c) /\ Goto(c, "test")
    <3>1. /\ SocketTypes' /\ sock' = sock
          /\ \/ fds'[c] = fds[c] /\ leaked'[c] = leaked[c]
             \/ fds'[c] = fds[c] + 1 /\ leaked'[c] = leaked[c] + 1
      <4>1. SocketTypes /\ NotConnected(c)
          BY <1>0, <2>2 DEF BenchTypes
      <4> QED
          BY <4>1, NotConnectedKeeps
    <3>2. BenchTypes'
        BY <1>0, <2>0, <2>2, <3>1 DEF BenchTypes, NewSocket, Fails
    <3>3. fds'[c] = leaked'[c] + (IF Live(sock[c]) THEN 1 ELSE 0)
        BY <1>0, <3>1 DEF BenchTypes, SocketTypes, Facts, ClientFacts
    <3>4. /\ failed'[c] = failed[c] + 1 /\ speed'[c] = speed[c] /\ trips'[c] = trips[c]
          /\ pc'[c] = "test" /\ ~Live(sock[c]) /\ ~(c > forked) /\ forked' = forked
          /\ speed[c] + failed[c] = trips[c] - 1 /\ options' = options
        BY <1>0, <2>0, <2>2 DEF BenchTypes, Facts, ClientFacts, NewSocket, Fails, Goto
    <3>5. speed[c] \in Nat /\ failed[c] \in Nat /\ trips[c] \in Nat
        BY <1>0 DEF BenchTypes
    <3>6. Facts(c)'
        BY <3>1, <3>3, <3>4, <3>5 DEF Facts, ClientFacts, OneShotFacts
    <3> QED
        BY <3>2, <3>6
  <2> QED
      BY <2>1, <2>2 DEF NewSocket
<1>2. UNCHANGED <<parentVars, pipe>> /\ \A i \in Ids \ {c} : Same(i)
    BY <1>0
       DEF BenchTypes, SocketTypes, Same, NewSocket, Connected, NotConnected, Fails, Goto
<1>3. pc[c] # "exited" /\ pc'[c] # "exited"
    BY <1>0 DEF BenchTypes, NewSocket, Connected, NotConnected, Fails, Goto
<1> QED
    BY <1>0, <1>1, <1>2, <1>3, ClientStepKeeps

\* The flag is looked at before a read.
LEMMA CheckKeeps == ASSUME BenchIInv, NEW c \in Ids, Check(c) PROVE BenchIInv'
<1> USE DEF parentVars, countVars
<1>0. BenchTypes /\ Facts(c)
    BY DEF BenchIInv, Facts
<1>1. BenchTypes' /\ Facts(c)'
  <2>1. pc[c] \in {"written", "check"}
      BY DEF Check
  <2>2. CASE Succeeds(c)
    <3>1. UNCHANGED <<parentVars, pipe, timerexpired, failed, trips>>
        BY DEF Check
    <3> QED
        BY <1>0, <2>1, <2>2, <3>1, SucceedsKeeps DEF Facts
  <2>3. CASE Goto(c, "read") /\ UNCHANGED <<speed, sockVars>>
      BY <1>0, <2>1, <2>3 DEF BenchTypes, SocketTypes, Places, Facts, ClientFacts,
                              OneShotFacts, Live, Check, Goto, sockVars
  <2> QED
      BY <2>2, <2>3 DEF Check
<1>2. UNCHANGED <<parentVars, pipe>> /\ \A i \in Ids \ {c} : Same(i)
    BY <1>0 DEF BenchTypes, SocketTypes, Same, Check, Succeeds, Close, Goto, sockVars
<1>3. pc[c] # "exited" /\ pc'[c] # "exited"
    BY <1>0 DEF BenchTypes, Check, Succeeds, Close, Goto, sockVars
<1> QED
    BY <1>0, <1>1, <1>2, <1>3, ClientStepKeeps

\* A read that gives something.
LEMMA ReadDataKeeps == ASSUME BenchIInv, NEW c \in Ids, ReadData(c) PROVE BenchIInv'
<1> USE DEF parentVars, countVars
<1>0. BenchTypes /\ Facts(c)
    BY DEF BenchIInv, Facts
<1>1. BenchTypes' /\ Facts(c)'
  <2>1. pc[c] = "read" /\ DOMAIN answer' = Ids
      BY <1>0 DEF BenchTypes, SocketTypes, ReadData
  <2>2. CASE options.keepAlive /\ speed' = [speed EXCEPT ![c] = @ + 1] /\ Goto(c, "test")
    <3>1. BenchTypes'
        BY <1>0, <2>1, <2>2 DEF BenchTypes, SocketTypes, Places, ReadData, Goto
    <3>2. /\ speed'[c] = speed[c] + 1 /\ failed'[c] = failed[c] /\ trips'[c] = trips[c]
          /\ pc'[c] = "test" /\ sock' = sock /\ fds' = fds /\ leaked' = leaked
          /\ speed[c] + failed[c] = trips[c] - 1 /\ ~(c > forked) /\ forked' = forked
          /\ options' = options
        BY <1>0, <2>1, <2>2 DEF BenchTypes, Facts, ClientFacts, ReadData, Goto
    <3>3. speed[c] \in Nat /\ failed[c] \in Nat /\ trips[c] \in Nat
        BY <1>0 DEF BenchTypes
    <3>4. Facts(c)'
        BY <1>0, <2>2, <3>2, <3>3 DEF Facts, ClientFacts
    <3> QED
        BY <3>1, <3>4
  <2>3. CASE ~options.keepAlive /\ Goto(c, "check") /\ UNCHANGED speed
      BY <1>0, <2>1, <2>3 DEF BenchTypes, SocketTypes, Places, Facts, ClientFacts,
                              OneShotFacts, Live, ReadData, Goto
  <2> QED
      BY <2>2, <2>3 DEF ReadData
<1>2. UNCHANGED <<parentVars, pipe>> /\ \A i \in Ids \ {c} : Same(i)
    BY <1>0 DEF BenchTypes, SocketTypes, Same, ReadData, Goto
<1>3. pc[c] # "exited" /\ pc'[c] # "exited"
    BY <1>0 DEF BenchTypes, ReadData, Goto
<1> QED
    BY <1>0, <1>1, <1>2, <1>3, ClientStepKeeps

\* A report is added to the pipe.
LEMMA ReportAdded ==
    ASSUME BenchTypes, NEW r \in Reports, pipe' = Append(pipe, r)
    PROVE  /\ SumFunction([i \in DOMAIN pipe' |-> pipe'[i].speed])
                  = SumFunction([i \in DOMAIN pipe |-> pipe[i].speed]) + r.speed
           /\ SumFunction([i \in DOMAIN pipe' |-> pipe'[i].failed])
                  = SumFunction([i \in DOMAIN pipe |-> pipe[i].failed]) + r.failed
<1> DEFINE n == Len(pipe)
           f == [i \in DOMAIN pipe |-> pipe[i].speed]
           g == [i \in DOMAIN pipe' |-> pipe'[i].speed]
           h == [i \in DOMAIN pipe |-> pipe[i].failed]
           k == [i \in DOMAIN pipe' |-> pipe'[i].failed]
<1>1. /\ pipe \in Seq(Reports) /\ n \in Nat
      /\ pipe' \in Seq(Reports) /\ Len(pipe') = n + 1
      /\ pipe'[n + 1] = r /\ \A i \in 1..n : pipe'[i] = pipe[i]
    BY DEF BenchTypes
<1>2. DOMAIN pipe = 1..n /\ DOMAIN pipe' = 1..(n + 1)
    BY <1>1
<1>3. \A i \in 1..(n + 1) : pipe'[i].speed \in Nat /\ pipe'[i].failed \in Nat
  <2> SUFFICES ASSUME NEW i \in 1..(n + 1)
               PROVE  pipe'[i].speed \in Nat /\ pipe'[i].failed \in Nat
      OBVIOUS
  <2>1. pipe'[i] \in Reports
      BY <1>1, <1>2, ElementOfSeq
  <2> QED
      BY <2>1 DEF Reports
<1> HIDE DEF n
<1>4. Extended(f, g, n) /\ g[n + 1] = r.speed
    BY <1>1, <1>2, <1>3 DEF Extended
<1>5. Extended(h, k, n) /\ k[n + 1] = r.failed
    BY <1>1, <1>2, <1>3 DEF Extended
<1>6. n \in Nat
    BY <1>1
<1> HIDE DEF f, g, h, k
<1>7. SumFunction(g) = SumFunction(f) + r.speed
  <2>1. SumFunction(g) = SumFunction(f) + g[n + 1]
      BY <1>4, <1>6, SumExtended
  <2> QED
      BY <1>4, <2>1
<1>8. SumFunction(k) = SumFunction(h) + r.failed
  <2>1. SumFunction(k) = SumFunction(h) + k[n + 1]
      BY <1>5, <1>6, SumExtended
  <2> QED
      BY <1>5, <2>1
<1> QED
    BY <1>7, <1>8 DEF f, g, h, k

\* The first report is taken out of the pipe.
LEMMA ReportTaken ==
    ASSUME BenchTypes, pipe # <<>>, pipe' = Tail(pipe)
    PROVE  /\ SumFunction([i \in DOMAIN pipe |-> pipe[i].speed])
                  = Head(pipe).speed + SumFunction([i \in DOMAIN pipe' |-> pipe'[i].speed])
           /\ SumFunction([i \in DOMAIN pipe |-> pipe[i].failed])
                  = Head(pipe).failed + SumFunction([i \in DOMAIN pipe' |-> pipe'[i].failed])
<1> DEFINE n == Len(pipe')
           f == [i \in DOMAIN pipe |-> pipe[i].speed]
           g == [i \in DOMAIN pipe' |-> pipe'[i].speed]
           h == [i \in DOMAIN pipe |-> pipe[i].failed]
           k == [i \in DOMAIN pipe' |-> pipe'[i].failed]
<1>1. /\ pipe \in Seq(Reports) /\ n \in Nat
      /\ pipe' \in Seq(Reports) /\ Len(pipe) = n + 1
      /\ pipe[1] = Head(pipe) /\ \A i \in 1..n : pipe'[i] = pipe[i + 1]
    BY DEF BenchTypes
<1>2. DOMAIN pipe' = 1..n /\ DOMAIN pipe = 1..(n + 1)
    BY <1>1
<1>3. \A i \in 1..(n + 1) : pipe[i].speed \in Nat /\ pipe[i].failed \in Nat
  <2> SUFFICES ASSUME NEW i \in 1..(n + 1)
               PROVE  pipe[i].speed \in Nat /\ pipe[i].failed \in Nat
      OBVIOUS
  <2>1. pipe[i] \in Reports
      BY <1>1, <1>2, ElementOfSeq
  <2> QED
      BY <2>1 DEF Reports
<1> HIDE DEF n
<1>4. Shortened(f, g, n) /\ f[1] = Head(pipe).speed
    BY <1>1, <1>2, <1>3 DEF Shortened
<1>5. Shortened(h, k, n) /\ h[1] = Head(pipe).failed
    BY <1>1, <1>2, <1>3 DEF Shortened
<1>6. n \in Nat
    BY <1>1
<1> HIDE DEF f, g, h, k
<1>7. SumFunction(f) = Head(pipe).speed + SumFunction(g)
  <2>1. SumFunction(f) = f[1] + SumFunction(g)
      BY <1>4, <1>6, SumShortened
  <2> QED
      BY <1>4, <2>1
<1>8. SumFunction(h) = Head(pipe).failed + SumFunction(k)
  <2>1. SumFunction(h) = h[1] + SumFunction(k)
      BY <1>5, <1>6, SumShortened
  <2> QED
      BY <1>5, <2>1
<1> QED
    BY <1>7, <1>8 DEF f, g, h, k

\* The sums of a sequence of reports are numbers.
LEMMA PipeSums ==
    ASSUME NEW p \in Seq(Reports)
    PROVE  /\ SumFunction([i \in DOMAIN p |-> p[i].speed]) \in Nat
           /\ SumFunction([i \in DOMAIN p |-> p[i].failed]) \in Nat
<1> DEFINE f == [i \in DOMAIN p |-> p[i].speed]
           h == [i \in DOMAIN p |-> p[i].failed]
           D == DOMAIN p
<1>1. IsFiniteSet(D)
  <2>1. D = 1..Len(p) /\ 1 \in Int /\ Len(p) \in Int
      OBVIOUS
  <2> HIDE DEF D
  <2> QED
      BY <2>1, FS_Interval
<1>2. \A i \in D : f[i] \in Nat /\ h[i] \in Nat
  <2> SUFFICES ASSUME NEW i \in D PROVE f[i] \in Nat /\ h[i] \in Nat
      OBVIOUS
  <2>1. i \in 1..Len(p)
      OBVIOUS
  <2>2. p[i] \in Reports
      BY <2>1, ElementOfSeq
  <2> QED
      BY <2>2 DEF Reports
<1>3. DOMAIN f = D /\ DOMAIN h = D
    OBVIOUS
<1> HIDE DEF f, h, D
<1>4. SumFunctionOnSet(f, D) \in Nat /\ SumFunctionOnSet(h, D) \in Nat
    BY <1>1, <1>2, SumType
<1>5. SumFunction(f) \in Nat /\ SumFunction(h) \in Nat
    BY <1>3, <1>4 DEF SumFunction
<1> QED
    BY <1>5 DEF f, h

\* The sums over the clients that exited are numbers.
LEMMA ExitedSums ==
    ASSUME BenchTypes
    PROVE  SumFunctionOnSet(speed, Exited) \in Nat /\ SumFunctionOnSet(failed, Exited) \in Nat
<1>1. \A c \in Exited : speed[c] \in Nat /\ failed[c] \in Nat
    BY DEF BenchTypes, Exited
<1> QED
    BY <1>1, ExitedIsFinite, SumType

\* A count that moves within a total, or joins it, as the sums below do.
LEMMA TotalsMove ==
    ASSUME NEW a \in Nat, NEW b \in Nat, NEW x \in Nat, NEW y \in Nat
    PROVE  /\ a + b = y => a + (b + x) = x + y
           /\ a + (x + b) = y => (a + x) + b = y
  OBVIOUS

\* A report adds a client to those that exited, and its counts to the pipe.
LEMMA ReportKeeps == ASSUME BenchIInv, NEW c \in Ids, Report(c) PROVE BenchIInv'
<1> USE DEF parentVars
<1> DEFINE r == [speed |-> speed[c], failed |-> failed'[c]]
<1>0. BenchTypes /\ Facts(c) /\ TotalsFacts
    BY DEF BenchIInv, Facts
<1>1. /\ speed[c] \in Nat /\ failed[c] \in Nat /\ trips[c] \in Nat
      /\ speed[c] + failed[c] = trips[c] /\ ~(c > forked)
      /\ speed' = speed /\ trips' = trips /\ forked' = forked /\ options' = options
      /\ pc[c] = "test"
    BY <1>0 DEF BenchTypes, Facts, ClientFacts, Report
<1>2. /\ failed' \in [Ids -> Nat] /\ failed'[c] \in {failed[c], failed[c] - 1}
      /\ \A i \in Ids \ {c} : failed'[i] = failed[i]
    BY <1>0 DEF BenchTypes, Report
<1>3. /\ pc' \in [Ids -> Places] /\ pc'[c] = "exited"
      /\ \A i \in Ids \ {c} : pc'[i] = pc[i]
    BY <1>0 DEF BenchTypes, Places, Report, Goto
<1>4. /\ SocketTypes' /\ sock'[c] = "none" /\ fds'[c] = 0 /\ leaked'[c] = 0
      /\ \A i \in Ids \ {c} : sock'[i] = sock[i] /\ fds'[i] = fds[i] /\ leaked'[i] = leaked[i]
    BY <1>0 DEF BenchTypes, SocketTypes, Report, CloseAll
<1>5. r \in Reports /\ pipe' = Append(pipe, r)
    BY <1>1, <1>2 DEF Report, Reports
<1>6. BenchTypes'
  <2>1. pipe' \in Seq(Reports)
      BY <1>0, <1>5, AppendProperties DEF BenchTypes
  <2> QED
      BY <1>0, <1>2, <1>3, <1>4, <2>1 DEF BenchTypes, Report
<1>7. ASSUME NEW i \in Ids PROVE Facts(i)'
  <2>1. CASE i = c
    <3>1. ClientFacts(c)'
        BY <1>1, <1>2, <1>3, <1>4 DEF ClientFacts, Live
    <3>2. OneShotFacts(c)'
        BY <1>3 DEF OneShotFacts
    <3> QED
        BY <2>1, <3>1, <3>2 DEF Facts
  <2>2. CASE i # c
    <3>1. Same(i)
        BY <1>1, <1>2, <1>3, <1>4, <2>2 DEF Same
    <3> QED
        BY <1>1, <3>1, OthersKeep DEF BenchIInv, Facts
  <2> QED
      BY <2>1, <2>2
<1>8. TotalsFacts'
  <2> DEFINE X == Exited'
  <2>1. c \in X /\ X \ {c} = Exited /\ c \notin Exited /\ X = Exited \cup {c}
      BY <1>1, <1>3 DEF Exited
  <2>2. IsFiniteSet(X) /\ Cardinality(X) = Cardinality(Exited) + 1
      BY <2>1, ExitedIsFinite, FS_AddElement
  <2>3. \A i \in X : speed[i] \in Nat /\ failed'[i] \in Nat
      BY <1>0, <1>2 DEF BenchTypes, Exited
  <2>4. \A i \in Exited : failed'[i] = failed[i]
      BY <1>2, <2>1 DEF Exited
  <2>5. SumFunctionOnSet(failed', Exited) = SumFunctionOnSet(failed, Exited)
      BY <2>4, ExitedIsFinite, SumSame
  <2> HIDE DEF X
  <2>6. /\ SumFunctionOnSet(speed, X) = speed[c] + SumFunctionOnSet(speed, X \ {c})
        /\ SumFunctionOnSet(failed', X) = failed'[c] + SumFunctionOnSet(failed', X \ {c})
      BY <2>1, <2>2, <2>3, SumWithout
  <2>7. /\ SumFunctionOnSet(speed', X) = speed[c] + SumFunctionOnSet(speed, Exited)
        /\ SumFunctionOnSet(failed', X) = failed'[c] + SumFunctionOnSet(failed, Exited)
      BY <1>1, <2>1, <2>5, <2>6
  <2>8. /\ SumFunction([i \in DOMAIN pipe' |-> pipe'[i].speed])
               = SumFunction([i \in DOMAIN pipe |-> pipe[i].speed]) + speed[c]
        /\ SumFunction([i \in DOMAIN pipe' |-> pipe'[i].failed])
               = SumFunction([i \in DOMAIN pipe |-> pipe[i].failed]) + failed'[c]
    <3>1. r.speed = speed[c] /\ r.failed = failed'[c]
        OBVIOUS
    <3> HIDE DEF r
    <3> QED
        BY <1>0, <1>5, <3>1, ReportAdded
  <2>9. total' = total /\ left' = left /\ Len(pipe') = Len(pipe) + 1
    <3>1. pipe \in Seq(Reports)
        BY <1>0 DEF BenchTypes
    <3> HIDE DEF r
    <3> QED
        BY <1>5, <3>1, AppendProperties DEF Report
  <2>10. /\ total.speed \in Nat /\ total.failed \in Nat /\ speed[c] \in Nat /\ failed'[c] \in Nat
         /\ SumFunctionOnSet(speed, Exited) \in Nat /\ SumFunctionOnSet(failed, Exited) \in Nat
         /\ SumFunction([i \in DOMAIN pipe |-> pipe[i].speed]) \in Nat
         /\ SumFunction([i \in DOMAIN pipe |-> pipe[i].failed]) \in Nat
         /\ Len(pipe) \in Nat /\ left \in Int /\ Clients \in Nat
    <3>1. total.speed \in Nat /\ total.failed \in Nat /\ Len(pipe) \in Nat /\ left \in Int
        BY <1>0 DEF BenchTypes, Reports
    <3>2. pipe \in Seq(Reports)
        BY <1>0 DEF BenchTypes
    <3> QED
        BY <1>0, <1>1, <1>2, <3>1, <3>2, PipeSums, ExitedSums, ClientsType
  <2>11. total.speed + (SumFunction([i \in DOMAIN pipe |-> pipe[i].speed]) + speed[c])
             = speed[c] + SumFunctionOnSet(speed, Exited)
    <3>1. total.speed + SumFunction([i \in DOMAIN pipe |-> pipe[i].speed])
              = SumFunctionOnSet(speed, Exited)
        BY <1>0, Zenon DEF TotalsFacts
    <3> QED
        BY <2>10, <3>1, TotalsMove
  <2>12. total.failed + (SumFunction([i \in DOMAIN pipe |-> pipe[i].failed]) + failed'[c])
             = failed'[c] + SumFunctionOnSet(failed, Exited)
    <3>1. total.failed + SumFunction([i \in DOMAIN pipe |-> pipe[i].failed])
              = SumFunctionOnSet(failed, Exited)
        BY <1>0, Zenon DEF TotalsFacts
    <3> QED
        BY <2>10, <3>1, TotalsMove
  <2>13. Cardinality(X) = Len(pipe') + (Clients - left')
    <3>1. Cardinality(Exited) = Len(pipe) + (Clients - left)
        BY <1>0, Zenon DEF TotalsFacts
    <3>2. Len(pipe) \in Nat /\ left \in Int /\ Clients \in Nat
        BY <2>10, Zenon
    <3> QED
        BY <2>2, <2>9, <3>1, <3>2
  <2> QED
      BY <2>7, <2>8, <2>9, <2>11, <2>12, <2>13 DEF TotalsFacts, X
<1> QED
    BY <1>6, <1>7, <1>8 DEF BenchIInv, Facts

\* A step of the parent that neither forks nor reads.
LEMMA ParentKeeps ==
    ASSUME BenchIInv,
           UNCHANGED <<options, forked, left, total, pipe, pc, countVars, sockVars>>
    PROVE  BenchIInv'
<1> USE DEF countVars, sockVars
<1>1. BenchTypes'
    BY DEF BenchIInv, BenchTypes, SocketTypes
<1>2. ASSUME NEW i \in Ids PROVE Facts(i)'
    BY OthersKeep DEF BenchIInv, Facts, Same
<1>3. TotalsFacts'
  <2>1. Exited' = Exited /\ \A i \in Exited : speed'[i] = speed[i] /\ failed'[i] = failed[i]
      BY DEF Exited
  <2> QED
      BY <2>1, TotalsKept DEF BenchIInv
<1> QED
    BY <1>1, <1>2, <1>3 DEF BenchIInv, Facts

\* The parent forks the next client.
LEMMA ForkKeeps == ASSUME BenchIInv, Fork PROVE BenchIInv'
<1>0. BenchTypes /\ \A i \in Ids : Facts(i)
    BY DEF BenchIInv, Facts
<1>1. CASE forked' = forked + 1 /\ pc' = [pc EXCEPT ![forked'] = "asleep"]
  <2> DEFINE c == forked'
  <2>1. /\ c \in Ids /\ forked \in 0..Clients /\ forked' \in 0..Clients /\ c > forked
        /\ ~(c > forked')
      BY <1>0, <1>1, ClientsType DEF BenchTypes, Fork, Ids
  <2>2. /\ UNCHANGED <<options, left, total, pipe, speed, failed, trips, sock, answer, fds,
                        leaked>>
      BY DEF Fork, countVars, sockVars
  <2>3. pc[c] = "none" /\ Facts(c) /\ speed[c] + failed[c] = trips[c] /\ ~Live(sock[c])
      BY <1>0, <2>1 DEF Facts, ClientFacts
  <2> HIDE DEF c
  <2>4. pc' = [pc EXCEPT ![c] = "asleep"]
      BY <1>1 DEF c
  <2>5. /\ pc' \in [Ids -> Places] /\ pc'[c] = "asleep"
        /\ \A i \in Ids \ {c} : pc'[i] = pc[i]
      BY <1>0, <2>1, <2>4 DEF BenchTypes, Places
  <2>6. BenchTypes'
      BY <1>0, <2>1, <2>2, <2>5 DEF BenchTypes, SocketTypes
  <2>7. ASSUME NEW i \in Ids PROVE Facts(i)'
    <3>1. CASE i = c
        BY <2>1, <2>2, <2>3, <2>5, <3>1 DEF Facts, ClientFacts, OneShotFacts
    <3>2. CASE i # c
      <4>1. i > forked' => i > forked
          BY <1>1, <2>1 DEF Ids
      <4>2. Facts(i) /\ pc'[i] = pc[i]
          BY <1>0, <2>5, <3>2
      <4> QED
          BY <2>2, <4>1, <4>2 DEF Facts, ClientFacts, OneShotFacts
    <3> QED
        BY <3>1, <3>2
  <2>8. TotalsFacts'
    <3>1. Exited' = Exited
        BY <2>3, <2>5 DEF Exited
    <3> QED
        BY <2>2, <3>1, TotalsKept DEF BenchIInv
  <2> QED
      BY <2>6, <2>7, <2>8 DEF BenchIInv, Facts
<1>2. CASE UNCHANGED <<forked, pc>>
    BY <1>2, ParentKeeps DEF Fork
<1> QED
    BY <1>1, <1>2 DEF Fork

\* What the parent reads moves from the pipe to its totals.
LEMMA ReadReportKeeps == ASSUME BenchIInv, ReadReport PROVE BenchIInv'
<1>0. BenchTypes /\ TotalsFacts
    BY DEF BenchIInv
<1>1. /\ pipe # <<>> /\ pipe' = Tail(pipe) /\ left' = left - 1
      /\ total' = [speed |-> total.speed + Head(pipe).speed,
                   failed |-> total.failed + Head(pipe).failed]
      /\ UNCHANGED <<options, forked, pc, speed, failed, trips, sock, answer, fds, leaked>>
    BY DEF ReadReport, countVars, sockVars
<1>2. /\ pipe \in Seq(Reports) /\ pipe' \in Seq(Reports) /\ Head(pipe) \in Reports
      /\ Len(pipe') = Len(pipe) - 1 /\ Len(pipe) \in Nat
    BY <1>0, <1>1, HeadTailProperties DEF BenchTypes
<1>3. /\ total.speed \in Nat /\ total.failed \in Nat
      /\ Head(pipe).speed \in Nat /\ Head(pipe).failed \in Nat /\ left \in Int
    BY <1>0, <1>2 DEF BenchTypes, Reports
<1>4. BenchTypes'
  <2>1. total' \in Reports
      BY <1>1, <1>3 DEF Reports
  <2> QED
      BY <1>0, <1>1, <1>2, <1>3, <2>1 DEF BenchTypes, SocketTypes
<1>5. ASSUME NEW i \in Ids PROVE Facts(i)'
    BY <1>1, OthersKeep DEF BenchIInv, Facts, Same
<1>6. TotalsFacts'
  <2>1. Exited' = Exited
      BY <1>1 DEF Exited
  <2>2. /\ SumFunction([i \in DOMAIN pipe |-> pipe[i].speed])
               = Head(pipe).speed + SumFunction([i \in DOMAIN pipe' |-> pipe'[i].speed])
        /\ SumFunction([i \in DOMAIN pipe |-> pipe[i].failed])
               = Head(pipe).failed + SumFunction([i \in DOMAIN pipe' |-> pipe'[i].failed])
      BY <1>0, <1>1, ReportTaken
  <2>3. /\ SumFunction([i \in DOMAIN pipe' |-> pipe'[i].speed]) \in Nat
        /\ SumFunction([i \in DOMAIN pipe' |-> pipe'[i].failed]) \in Nat
      BY <1>2, PipeSums
  <2>4. /\ total'.speed = total.speed + Head(pipe).speed
        /\ total'.failed = total.failed + Head(pipe).failed
      BY <1>1
  <2>5. total'.speed + SumFunction([i \in DOMAIN pipe' |-> pipe'[i].speed])
            = SumFunctionOnSet(speed, Exited)
    <3>1. total.speed + (Head(pipe).speed + SumFunction([i \in DOMAIN pipe' |-> pipe'[i].speed]))
              = SumFunctionOnSet(speed, Exited)
        BY <1>0, <2>2, Zenon DEF TotalsFacts
    <3>2. SumFunctionOnSet(speed, Exited) \in Nat
        BY <1>0, ExitedSums
    <3> QED
        BY <1>3, <2>3, <2>4, <3>1, <3>2, TotalsMove
  <2>6. total'.failed + SumFunction([i \in DOMAIN pipe' |-> pipe'[i].failed])
            = SumFunctionOnSet(failed, Exited)
    <3>1. total.failed + (Head(pipe).failed + SumFunction([i \in DOMAIN pipe' |-> pipe'[i].failed]))
              = SumFunctionOnSet(failed, Exited)
        BY <1>0, <2>2, Zenon DEF TotalsFacts
    <3>2. SumFunctionOnSet(failed, Exited) \in Nat
        BY <1>0, ExitedSums
    <3> QED
        BY <1>3, <2>3, <2>4, <3>1, <3>2, TotalsMove
  <2>7. Cardinality(Exited) = Len(pipe') + (Clients - left')
    <3>1. Cardinality(Exited) = Len(pipe) + (Clients - left)
        BY <1>0, Zenon DEF TotalsFacts
    <3>2. /\ Len(pipe) \in Nat /\ left \in Int /\ Clients \in Nat
          /\ Len(pipe') = Len(pipe) - 1 /\ left' = left - 1
        BY <1>1, <1>2, <1>3, ClientsType, Zenon
    <3> QED
        BY <3>1, <3>2
  <2> QED
      BY <1>1, <2>1, <2>5, <2>6, <2>7 DEF TotalsFacts
<1> QED
    BY <1>4, <1>5, <1>6 DEF BenchIInv, Facts

\* A step of a client.
LEMMA ClientKeeps == ASSUME BenchIInv, NEW c \in Ids, ClientStep(c) PROVE BenchIInv'
  BY BeginKeeps, DialConnectsKeeps, DialFailsKeeps, TestKeeps, NewSocketKeeps, WriteWorksKeeps,
     WriteFailsKeeps, WriteKillsKeeps, ShutdownFailsKeeps, ForcedKeeps, CheckKeeps,
     ReadDataKeeps, ReadEndKeeps, ReadResetKeeps, ReportKeeps
     DEF ClientStep

\* Requests, reports and sockets are accounted for: TripsSettled, for every number
\* of clients and every set of options, whenever the server ends or resets a
\* connection and the alarms ring (webbench.c, bench() and benchcore()).
THEOREM BenchmarkIsReliable == BenchSafeSpec => []TripsSettled
<1>1. BenchInit => BenchIInv
    BY BenchInvInit
<1>2. BenchIInv /\ [BenchNext]_benchVars => BenchIInv'
  <2> SUFFICES ASSUME BenchIInv, [BenchNext]_benchVars PROVE BenchIInv'
      OBVIOUS
  <2>1. CASE BuildRequest
      BY <2>1, ParentKeeps DEF BuildRequest
  <2>2. CASE Probe
      BY <2>2, ParentKeeps DEF Probe
  <2>3. CASE Fork
      BY <2>3, ForkKeeps
  <2>4. CASE ReadReport
      BY <2>4, ReadReportKeeps
  <2>5. ASSUME NEW c \in Ids, ClientStep(c) PROVE BenchIInv'
      BY <2>5, ClientKeeps
  <2>6. ASSUME NEW c \in Ids, RingInterrupts(c) \/ RingSetsFlag(c) PROVE BenchIInv'
      BY <2>6, RingInterruptsKeeps, RingSetsFlagKeeps
  <2>7. ASSUME NEW c \in Ids, ServerAnswers(c) \/ End(c) \/ Reset(c) PROVE BenchIInv'
      BY <2>7, ServerAnswersKeeps, EndKeeps, ResetKeeps
  <2>8. CASE UNCHANGED benchVars
      BY <2>8, ParentKeeps DEF benchVars, parentVars
  <2> QED
      BY <2>1, <2>2, <2>3, <2>4, <2>5, <2>6, <2>7, <2>8 DEF BenchNext, ParentStep
<1>3. BenchIInv => TripsSettled
    BY InvariantSettlesTrips
<1> QED
    BY <1>1, <1>2, <1>3, PTL DEF BenchSafeSpec

=============================================================================
