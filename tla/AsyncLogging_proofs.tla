------------------------- MODULE AsyncLogging_proofs -------------------------
(* Proofs about AsyncLogging and its LogFile for any buffer size, batch     *)
(* size, number of lines, roll size, intervals and clock.                   *)
EXTENDS AsyncLogging, SequenceTheorems, WellFoundedInduction, TLAPS

\* The back end has a batch only while it drops and writes, and cuts it before
\* it writes.
BatchInHand ==
    /\ phase \notin {"drop", "write"} => buffersToWrite = <<>>
    /\ phase # "write" => output = 0
    /\ phase = "write" => Len(buffersToWrite) <= MaxBatch

\* The current file was opened at the last roll, and the clock has a time.  Only
\* writing leaves lines in the FILE's buffer.
FilesKept ==
    /\ Output!FilesSorted
    /\ Output!Last(files).opened = lastRoll
    /\ now \in 1..MaxTime
    /\ phase # "write" => Output!AllFlushed

\* The inductive invariant.
IInv ==
    /\ TypeOK
    /\ BatchInHand
    /\ BackEndReady
    /\ FilesKept
    /\ LogComplete

-----------------------------------------------------------------------------
(* Induction, and what FlattenSeq computes.                                 *)

\* A set of numbers that is not empty has a least one.
LEMMA LeastNumber ==
    ASSUME NEW S \in SUBSET Nat, S # {}
    PROVE  \E x \in S : \A y \in S : x <= y
<1> DEFINE Less == OpToRel(<, Nat)
<1>1. \E x \in S : \A y \in S : <<y, x>> \notin Less
  <2>1. IsWellFoundedOn(Less, Nat)
      BY NatLessThanWellFounded
  <2> HIDE DEF Less
  <2> QED
      BY <2>1, WFMin, Zenon
<1>2. \A x, y \in Nat : <<y, x>> \notin Less => x <= y
    BY DEF OpToRel
<1> HIDE DEF Less
<1> QED
    BY <1>1, <1>2

\* What holds of 0 and, with a number, of the next one, holds of all.
LEMMA Inductive ==
    ASSUME NEW S \in SUBSET Nat, 0 \in S, \A n \in S : n + 1 \in S
    PROVE  S = Nat
<1> SUFFICES ASSUME Nat \ S # {} PROVE FALSE
    OBVIOUS
<1>1. PICK m \in Nat \ S : \A k \in Nat \ S : m <= k
    BY LeastNumber
<1>2. m # 0 /\ m - 1 \in Nat /\ ~(m <= m - 1) /\ (m - 1) + 1 = m
    BY <1>1
<1>3. m - 1 \in S
    BY <1>1, <1>2
<1> QED
    BY <1>1, <1>2, <1>3

\* f[i] is the concatenation of the first i sequences of s.
Concats(f, s, n) == f = [i \in 1..n |-> IF i = 1 THEN s[i] ELSE f[i - 1] \o s[i]]

\* Each of them but the first continues the one before it.
LEMMA ConcatsAt ==
    ASSUME NEW f, NEW s, NEW n, Concats(f, s, n), NEW i \in 1..n
    PROVE  f[i] = IF i = 1 THEN s[i] ELSE f[i - 1] \o s[i]
  BY Zenon DEF Concats

\* They exist for every number of sequences.
LEMMA PrefixesExist == ASSUME NEW s PROVE \A n \in Nat : \E f : Concats(f, s, n)
<1> DEFINE S == {n \in Nat : \E f : Concats(f, s, n)}
<1>1. 0 \in S
  <2>1. Concats([i \in 1..0 |-> i], s, 0)
      BY DEF Concats
  <2> QED
      BY <2>1
<1>2. ASSUME NEW n \in S PROVE n + 1 \in S
  <2>1. PICK f : Concats(f, s, n)
      OBVIOUS
  <2> DEFINE g == [i \in 1..(n + 1) |-> IF i # n + 1 THEN f[i]
                     ELSE IF i = 1 THEN s[i] ELSE f[i - 1] \o s[i]]
  <2>2. Concats(g, s, n + 1)
    <3>1. ASSUME NEW i \in 1..(n + 1)
          PROVE  g[i] = IF i = 1 THEN s[i] ELSE g[i - 1] \o s[i]
      <4>1. CASE i = n + 1
          BY <4>1
      <4>2. CASE i # n + 1
        <5>1. i \in 1..n /\ i # n + 1 /\ (i # 1 => i - 1 \in 1..n /\ i - 1 # n + 1)
            BY <4>2
        <5>2. f[i] = IF i = 1 THEN s[i] ELSE f[i - 1] \o s[i]
            BY <2>1, <5>1, Zenon DEF Concats
        <5> QED
            BY <5>1, <5>2
      <4> QED
          BY <4>1, <4>2
    <3> QED
        BY <3>1 DEF Concats
  <2> QED
      BY <2>2
<1> HIDE DEF S
<1>3. S = Nat
    BY <1>1, <1>2, Inductive DEF S
<1> QED
    BY <1>3 DEF S

\* FlattenSeq is the last of them.
LEMMA FlattenIs ==
    ASSUME NEW E, NEW s \in Seq(E), s # <<>>
    PROVE  \E f : Concats(f, s, Len(s)) /\ FlattenSeq(s) = f[Len(s)]
<1> DEFINE f == CHOOSE g : Concats(g, s, Len(s))
<1>1. Concats(f, s, Len(s))
  <2>1. Len(s) \in Nat
      OBVIOUS
  <2>2. \E g : Concats(g, s, Len(s))
      BY <2>1, PrefixesExist
  <2> QED
      BY <2>2
<1>2. FlattenSeq(s) = f[Len(s)]
    BY DEF FlattenSeq, Concats
<1> QED
    BY <1>1, <1>2

\* The first n elements are the same.
Agree(s, t, n) == \A i \in 1..n : s[i] = t[i]

\* Two of them agree where both are defined, if their sequences do.
LEMMA PrefixesAgree ==
    ASSUME NEW s, NEW t, NEW f, NEW g, NEW m \in Nat, NEW n \in Nat, m <= n,
           Concats(f, s, m), Concats(g, t, n), Agree(s, t, m)
    PROVE  Agree(f, g, m)
<1> DEFINE S == {i \in Nat : i \in 1..m => f[i] = g[i]}
<1>1. 0 \in S
    OBVIOUS
<1>2. ASSUME NEW i \in S PROVE i + 1 \in S
  <2> SUFFICES ASSUME i + 1 \in 1..m PROVE f[i + 1] = g[i + 1]
      OBVIOUS
  <2>1. /\ f[i + 1] = IF i + 1 = 1 THEN s[i + 1] ELSE f[(i + 1) - 1] \o s[i + 1]
        /\ g[i + 1] = IF i + 1 = 1 THEN t[i + 1] ELSE g[(i + 1) - 1] \o t[i + 1]
    <3>1. i + 1 \in 1..n
        OBVIOUS
    <3> QED
        BY <3>1, ConcatsAt
  <2>2. i + 1 # 1 => f[(i + 1) - 1] = g[(i + 1) - 1]
      OBVIOUS
  <2> QED
      BY <2>1, <2>2 DEF Agree
<1> HIDE DEF S
<1>3. S = Nat
    BY <1>1, <1>2, Inductive DEF S
<1> QED
    BY <1>3 DEF S, Agree

\* Nothing flattens to nothing.
LEMMA FlattenEmpty == FlattenSeq(<<>>) = <<>>
  BY DEF FlattenSeq

\* One sequence more is concatenated at the end.
LEMMA FlattenAppend ==
    ASSUME NEW E, NEW s \in Seq(Seq(E)), NEW x \in Seq(E)
    PROVE  FlattenSeq(Append(s, x)) = FlattenSeq(s) \o x
<1> DEFINE t == Append(s, x)
           n == Len(s)
<1>1. /\ t \in Seq(Seq(E)) /\ t # <<>> /\ Len(t) = n + 1 /\ n \in Nat
      /\ t[n + 1] = x /\ \A i \in 1..n : s[i] = t[i]
    BY AppendProperties
<1> HIDE DEF t
<1>2. PICK g : Concats(g, t, n + 1) /\ FlattenSeq(t) = g[n + 1]
    BY <1>1, FlattenIs
<1>3. g[n + 1] = IF n + 1 = 1 THEN x ELSE g[(n + 1) - 1] \o x
  <2>1. n + 1 \in 1..(n + 1)
      BY <1>1
  <2> QED
      BY <1>1, <1>2, <2>1, ConcatsAt
<1>4. CASE s = <<>>
  <2>1. n = 0 /\ <<>> \o x = x
      BY <1>4
  <2>2. FlattenSeq(t) = x
      BY <1>2, <1>3, <2>1
  <2> QED
      BY <1>4, <2>1, <2>2, FlattenEmpty DEF t
<1>5. CASE s # <<>>
  <2>1. PICK f : Concats(f, s, n) /\ FlattenSeq(s) = f[n]
      BY <1>5, FlattenIs
  <2>2. n \in 1..n /\ (n + 1) - 1 = n /\ n + 1 # 1
      BY <1>1, <1>5
  <2>3. \A i \in 1..n : f[i] = g[i]
    <3>1. n <= n + 1 /\ n + 1 \in Nat /\ Agree(s, t, n)
        BY <1>1 DEF Agree
    <3> HIDE DEF n
    <3>2. Agree(f, g, n)
        BY <1>1, <1>2, <2>1, <3>1, PrefixesAgree
    <3> QED
        BY <3>2 DEF Agree
  <2> QED
      BY <1>2, <1>3, <2>1, <2>2, <2>3 DEF t
<1> QED
    BY <1>4, <1>5

\* What holds of the empty sequence and, with a sequence, of one element more,
\* holds of all sequences.
LEMMA InductiveOnSequences ==
    ASSUME NEW E, NEW G \in SUBSET Seq(E), <<>> \in G,
           \A s \in G, x \in E : Append(s, x) \in G
    PROVE  G = Seq(E)
<1> DEFINE S == {n \in Nat : \A s \in Seq(E) : Len(s) = n => s \in G}
<1>1. 0 \in S
    OBVIOUS
<1>2. ASSUME NEW n \in S PROVE n + 1 \in S
  <2> SUFFICES ASSUME NEW s \in Seq(E), Len(s) = n + 1 PROVE s \in G
      OBVIOUS
  <2>1. PICK t \in Seq(E), x \in E : s = Append(t, x)
    <3>1. s # <<>>
        OBVIOUS
    <3> QED
        BY <3>1, SequenceEmptyOrAppend, Zenon
  <2>2. Len(t) = n
      BY <2>1
  <2> QED
      BY <2>1, <2>2
<1> HIDE DEF S
<1>3. S = Nat
    BY <1>1, <1>2, Inductive DEF S
<1>4. ASSUME NEW s \in Seq(E) PROVE s \in G
  <2>1. Len(s) \in S
      BY <1>3
  <2> QED
      BY <2>1 DEF S
<1> QED
    BY <1>4

\* What is flattened is a sequence of the same elements.
LEMMA FlattenType ==
    ASSUME NEW E, NEW s \in Seq(Seq(E))
    PROVE  FlattenSeq(s) \in Seq(E)
<1> DEFINE G == {t \in Seq(Seq(E)) : FlattenSeq(t) \in Seq(E)}
<1>1. <<>> \in G
  <2>1. <<>> \in Seq(E) /\ <<>> \in Seq(Seq(E))
      OBVIOUS
  <2> QED
      BY <2>1, FlattenEmpty, Zenon
<1>2. ASSUME NEW t \in G, NEW x \in Seq(E) PROVE Append(t, x) \in G
  <2>1. Append(t, x) \in Seq(Seq(E))
      BY AppendProperties
  <2> QED
      BY <2>1, FlattenAppend, ConcatProperties
<1> HIDE DEF G
<1>3. G = Seq(Seq(E))
    BY <1>1, <1>2, InductiveOnSequences DEF G
<1> QED
    BY <1>3 DEF G

\* One sequence flattens to itself.
LEMMA FlattenOne ==
    ASSUME NEW E, NEW x \in Seq(E)
    PROVE  FlattenSeq(<<x>>) = x
<1>1. <<x>> = Append(<<>>, x) /\ <<>> \in Seq(Seq(E)) /\ <<>> \o x = x
    OBVIOUS
<1> QED
    BY <1>1, FlattenAppend, FlattenEmpty

\* Concatenation is associative.
LEMMA Regroup ==
    ASSUME NEW E, NEW a \in Seq(E), NEW b \in Seq(E), NEW c \in Seq(E)
    PROVE  (a \o b) \o c = a \o (b \o c)
  BY ConcatAssociative, SMTT(30)

\* In particular for numbers.
LEMMA RegroupNumbers == \A a, b, c \in Seq(Nat) : (a \o b) \o c = a \o (b \o c)
<1>1. ASSUME NEW a \in Seq(Nat), NEW b \in Seq(Nat), NEW c \in Seq(Nat)
      PROVE  (a \o b) \o c = a \o (b \o c)
    BY Regroup
<1> QED
    BY <1>1, Zenon

\* Concatenating and flattening can be exchanged.
LEMMA FlattenConcat ==
    ASSUME NEW E, NEW s \in Seq(Seq(E)), NEW t \in Seq(Seq(E))
    PROVE  FlattenSeq(s \o t) = FlattenSeq(s) \o FlattenSeq(t)
<1> DEFINE G == {u \in Seq(Seq(E)) :
                    FlattenSeq(s \o u) = FlattenSeq(s) \o FlattenSeq(u)}
<1>1. <<>> \in G
  <2>1. FlattenSeq(s) \in Seq(E)
      BY FlattenType
  <2>2. s \o <<>> = s /\ FlattenSeq(s) \o <<>> = FlattenSeq(s)
      BY <2>1, ConcatEmptySeq
  <2>3. <<>> \in Seq(Seq(E))
      OBVIOUS
  <2> QED
      BY <2>2, <2>3, FlattenEmpty, Zenon
<1>2. ASSUME NEW u \in G, NEW x \in Seq(E) PROVE Append(u, x) \in G
  <2>1. /\ Append(u, x) \in Seq(Seq(E)) /\ s \o u \in Seq(Seq(E))
        /\ FlattenSeq(s) \in Seq(E) /\ FlattenSeq(u) \in Seq(E)
      BY AppendProperties, ConcatProperties, FlattenType
  <2>2. s \o Append(u, x) = Append(s \o u, x)
    <3>1. u \in Seq(Seq(E)) /\ <<x>> \in Seq(Seq(E))
        OBVIOUS
    <3>2. Append(u, x) = u \o <<x>> /\ Append(s \o u, x) = (s \o u) \o <<x>>
        BY <2>1, AppendIsConcat
    <3> QED
        BY <3>1, <3>2, Regroup
  <2>3. FlattenSeq(Append(s \o u, x)) = FlattenSeq(s \o u) \o x
      BY <2>1, FlattenAppend
  <2>4. FlattenSeq(Append(u, x)) = FlattenSeq(u) \o x
      BY FlattenAppend
  <2>5. (FlattenSeq(s) \o FlattenSeq(u)) \o x = FlattenSeq(s) \o (FlattenSeq(u) \o x)
    <3>1. \A a, b \in Seq(E) : (a \o b) \o x = a \o (b \o x)
        BY ConcatAssociative, SMTT(30)
    <3> QED
        BY <2>1, <3>1, Zenon
  <2> QED
      BY <2>1, <2>2, <2>3, <2>4, <2>5
<1> HIDE DEF G
<1>3. G = Seq(Seq(E))
    BY <1>1, <1>2, InductiveOnSequences DEF G
<1> QED
    BY <1>3 DEF G

\* The positions of a concatenation are those of its parts.
LEMMA ConcatAt ==
    ASSUME NEW E, NEW s \in Seq(E), NEW t \in Seq(E)
    PROVE  /\ \A i \in DOMAIN s : i \in DOMAIN (s \o t) /\ (s \o t)[i] = s[i]
           /\ \A i \in DOMAIN t :
                Len(s) + i \in DOMAIN (s \o t) /\ (s \o t)[Len(s) + i] = t[i]
           /\ \A i \in DOMAIN (s \o t) :
                i \in DOMAIN s \/ \E k \in DOMAIN t : i = Len(s) + k
           /\ DOMAIN s = 1..Len(s) /\ DOMAIN t = 1..Len(t)
           /\ DOMAIN (s \o t) \subseteq Nat /\ Len(s) \in Nat /\ Len(t) \in Nat
<1>1. /\ DOMAIN s = 1..Len(s) /\ DOMAIN t = 1..Len(t)
      /\ DOMAIN (s \o t) = 1..(Len(s) + Len(t))
      /\ Len(s) \in Nat /\ Len(t) \in Nat
    BY ConcatProperties
<1>2. \A i \in DOMAIN s : i \in DOMAIN (s \o t) /\ (s \o t)[i] = s[i]
    BY <1>1, ConcatProperties
<1>3. \A i \in DOMAIN t :
         Len(s) + i \in DOMAIN (s \o t) /\ (s \o t)[Len(s) + i] = t[i]
    BY <1>1, ConcatProperties
<1>4. ASSUME NEW i \in DOMAIN (s \o t), i \notin DOMAIN s
      PROVE  \E k \in DOMAIN t : i = Len(s) + k
  <2>1. i - Len(s) \in 1..Len(t) /\ i = Len(s) + (i - Len(s))
      BY <1>1, <1>4
  <2> QED
      BY <1>1, <2>1
<1> QED
    BY <1>1, <1>2, <1>3, <1>4

\* So are its elements.
LEMMA ElementsConcat ==
    ASSUME NEW E, NEW s \in Seq(E), NEW t \in Seq(E)
    PROVE  ToSet(s \o t) = ToSet(s) \cup ToSet(t)
<1>1. ASSUME NEW x \in ToSet(s \o t) PROVE x \in ToSet(s) \cup ToSet(t)
  <2>1. PICK i \in DOMAIN (s \o t) : x = (s \o t)[i]
      BY DEF ToSet
  <2> QED
      BY <2>1, ConcatAt DEF ToSet
<1>2. ASSUME NEW x \in ToSet(s) PROVE x \in ToSet(s \o t)
    BY ConcatAt DEF ToSet
<1>3. ASSUME NEW x \in ToSet(t) PROVE x \in ToSet(s \o t)
  <2>1. PICK i \in DOMAIN t : x = t[i]
      BY DEF ToSet
  <2>2. Len(s) + i \in DOMAIN (s \o t) /\ x = (s \o t)[Len(s) + i]
      BY <2>1, ConcatAt
  <2> QED
      BY <2>2, Zenon DEF ToSet
<1> QED
    BY <1>1, <1>2, <1>3

\* The elements grow from first to last.
Ascending(s) == \A i, j \in DOMAIN s : i < j => s[i] < s[j]

\* Every element of S is smaller than every element of T.
Below(S, T) == \A x \in S, y \in T : x < y

\* A concatenation ascends when its parts do and the first is below the second.
LEMMA AscendingConcat ==
    ASSUME NEW s \in Seq(Nat), NEW t \in Seq(Nat)
    PROVE  Ascending(s \o t) <=>
             Ascending(s) /\ Ascending(t) /\ Below(ToSet(s), ToSet(t))
<1> DEFINE u == s \o t
           n == Len(s)
<1>0. /\ \A i \in DOMAIN s : i \in DOMAIN u /\ u[i] = s[i]
      /\ \A i \in DOMAIN t : n + i \in DOMAIN u /\ u[n + i] = t[i]
      /\ \A i \in DOMAIN u : i \in DOMAIN s \/ \E k \in DOMAIN t : i = n + k
      /\ DOMAIN s = 1..n /\ DOMAIN t = 1..Len(t)
      /\ DOMAIN u \subseteq Nat /\ n \in Nat /\ Len(t) \in Nat
    BY ConcatAt
<1> HIDE DEF u, n
<1>1. ASSUME Ascending(u) PROVE Ascending(s)
    BY <1>0, <1>1 DEF Ascending
<1>2. ASSUME Ascending(u) PROVE Ascending(t)
  <2> SUFFICES ASSUME NEW i \in DOMAIN t, NEW j \in DOMAIN t, i < j PROVE t[i] < t[j]
      BY DEF Ascending
  <2>1. n + i \in DOMAIN u /\ n + j \in DOMAIN u /\ n + i < n + j
      BY <1>0
  <2> QED
      BY <1>0, <1>2, <2>1 DEF Ascending
<1>3. ASSUME Ascending(u) PROVE Below(ToSet(s), ToSet(t))
  <2> SUFFICES ASSUME NEW i \in DOMAIN s, NEW j \in DOMAIN t PROVE s[i] < t[j]
      BY DEF Below, ToSet
  <2>1. i \in DOMAIN u /\ n + j \in DOMAIN u /\ i < n + j
      BY <1>0
  <2> QED
      BY <1>0, <1>3, <2>1 DEF Ascending
<1>4. ASSUME Ascending(s), Ascending(t), Below(ToSet(s), ToSet(t)) PROVE Ascending(u)
  <2> SUFFICES ASSUME NEW i \in DOMAIN u, NEW j \in DOMAIN u, i < j
               PROVE  u[i] < u[j]
      BY DEF Ascending
  <2>1. CASE j \in DOMAIN s
    <3>1. i \in DOMAIN s
        BY <1>0, <2>1
    <3> QED
        BY <1>0, <1>4, <2>1, <3>1 DEF Ascending
  <2>2. CASE i \in DOMAIN s /\ j \notin DOMAIN s
    <3>1. PICK k \in DOMAIN t : j = n + k
        BY <1>0, <2>2
    <3>2. u[i] = s[i] /\ u[j] = t[k] /\ s[i] \in ToSet(s) /\ t[k] \in ToSet(t)
        BY <1>0, <2>2, <3>1 DEF ToSet
    <3> QED
        BY <1>4, <3>2 DEF Below
  <2>3. CASE i \notin DOMAIN s
    <3>1. PICK k \in DOMAIN t : i = n + k
        BY <1>0, <2>3
    <3>2. PICK l \in DOMAIN t : j = n + l
      <4>1. j \notin DOMAIN s
          BY <1>0, <3>1
      <4> QED
          BY <1>0, <4>1, Zenon
    <3>3. k < l /\ u[i] = t[k] /\ u[j] = t[l]
        BY <1>0, <3>1, <3>2
    <3> QED
        BY <1>4, <3>3 DEF Ascending
  <2> QED
      BY <2>1, <2>2, <2>3
<1> QED
    BY <1>1, <1>2, <1>3, <1>4 DEF u

-----------------------------------------------------------------------------
(* The files.                                                               *)

\* What LogFile's type invariant says of a file.
FileObjects == [opened : 1..MaxTime, lines : Seq(Nat), flushed : Nat]

\* The lines of each file.
FileLines(fs) == [i \in DOMAIN fs |-> fs[i].lines]

\* Sequences over a set are sequences over a larger one.
LEMMA LargerSet ==
    ASSUME NEW S, NEW T, S \subseteq T, NEW s \in Seq(S)
    PROVE  s \in Seq(T)
  OBVIOUS

\* What the types say of the log.
LEMMA LogTypes ==
    ASSUME TypeOK
    PROVE  /\ currentBuffer \in Seq(Nat) /\ buffers \in Seq(Seq(Nat))
           /\ buffersToWrite \in Seq(Seq(Nat))
           /\ files \in Seq(FileObjects) /\ files # <<>>
           /\ Len(files) \in Nat /\ Len(files) # 0
           /\ {now, startOfPeriod, lastRoll, lastFlush, count} \subseteq Nat
           /\ appended \in 0..MaxLines /\ MaxLines \in Nat
           /\ output \in 0..Len(buffersToWrite) /\ dropped \in SUBSET Lines
<1>1. /\ currentBuffer \in Buffers /\ buffers \in Seq(Buffers)
      /\ buffersToWrite \in Seq(Buffers) /\ appended \in 0..MaxLines
      /\ output \in 0..Len(buffersToWrite) /\ dropped \in SUBSET Lines
      /\ files \in Seq(FileObjects) /\ files # <<>>
      /\ {now, startOfPeriod, lastRoll, lastFlush, count} \subseteq Nat
    BY Zenon DEF TypeOK, Output!TypeOK, FileObjects
<1>2. Lines \subseteq Nat
    BY DEF Lines
<1>3. Buffers \subseteq Seq(Nat)
    BY <1>2, LargerSet DEF Buffers
<1>4. buffers \in Seq(Seq(Nat)) /\ buffersToWrite \in Seq(Seq(Nat))
    BY <1>1, <1>3, LargerSet
<1>5. Len(files) \in Nat /\ Len(files) # 0
    BY <1>1
<1> QED
    BY <1>1, <1>3, <1>4, <1>5, ConstantsAssumption

\* The parts of a file, and what changes when one of them does.
LEMMA FileParts ==
    ASSUME NEW o \in FileObjects
    PROVE  /\ o.opened \in 1..MaxTime /\ o.lines \in Seq(Nat) /\ o.flushed \in Nat
           /\ \A x \in Seq(Nat) :
                /\ [o EXCEPT !.lines = x] \in FileObjects
                /\ [o EXCEPT !.lines = x].lines = x
                /\ [o EXCEPT !.lines = x].opened = o.opened
           /\ \A m \in Nat :
                /\ [o EXCEPT !.flushed = m] \in FileObjects
                /\ [o EXCEPT !.flushed = m].flushed = m
                /\ [o EXCEPT !.flushed = m].lines = o.lines
                /\ [o EXCEPT !.flushed = m].opened = o.opened
  BY DEF FileObjects

\* The lines of the files are sequences of lines.
LEMMA FileLinesType ==
    ASSUME NEW fs \in Seq(FileObjects)
    PROVE  FileLines(fs) \in Seq(Seq(Nat)) /\ Len(FileLines(fs)) = Len(fs)
<1>1. DOMAIN fs = 1..Len(fs) /\ Len(fs) \in Nat
    OBVIOUS
<1>2. \A i \in 1..Len(fs) : fs[i].lines \in Seq(Nat)
  <2>1. \A i \in 1..Len(fs) : fs[i] \in FileObjects
      OBVIOUS
  <2> QED
      BY <2>1, FileParts, Zenon
<1> QED
    BY <1>1, <1>2 DEF FileLines

\* append() writes behind the lines of the current file.
LEMMA ExtendedFiles ==
    ASSUME NEW fs \in Seq(FileObjects), fs # <<>>, NEW x \in Seq(Nat)
    PROVE  LET n == Len(fs)
               ts == Output!Extended(fs, x) IN
             /\ ts \in Seq(FileObjects) /\ ts # <<>> /\ Len(ts) = n
             /\ \A i \in 1..n : ts[i].opened = fs[i].opened
             /\ \A i \in 1..n : i # n => ts[i] = fs[i]
             /\ FlattenSeq(FileLines(ts)) = FlattenSeq(FileLines(fs)) \o x
<1> DEFINE n == Len(fs)
           ts == Output!Extended(fs, x)
           y == fs[n].lines
<1>0. n \in Nat /\ n \in 1..n /\ fs[n] \in FileObjects /\ y \in Seq(Nat)
  <2>1. n \in Nat /\ n \in 1..n /\ fs[n] \in FileObjects
      OBVIOUS
  <2> QED
      BY <2>1, FileParts, Zenon
<1>1. ts = [fs EXCEPT ![n] = [fs[n] EXCEPT !.lines = y \o x]]
    BY DEF Output!Extended
<1>2. y \o x \in Seq(Nat)
    BY <1>0, ConcatProperties
<1> DEFINE o == [fs[n] EXCEPT !.lines = y \o x]
<1>3. o \in FileObjects /\ o.lines = y \o x /\ o.opened = fs[n].opened
    BY <1>0, <1>2, FileParts, Zenon
<1>a. ts = [fs EXCEPT ![n] = o]
    BY <1>1
<1> HIDE DEF o, ts
<1>4. ts \in Seq(FileObjects) /\ Len(ts) = n /\ ts # <<>>
    BY <1>0, <1>a, <1>3
<1>5. /\ \A i \in 1..n : ts[i].opened = fs[i].opened
      /\ \A i \in 1..n : i # n => ts[i] = fs[i]
      /\ ts[n].lines = y \o x
    BY <1>0, <1>3, <1>a
<1>6. /\ FileLines(fs) \in Seq(Seq(Nat)) /\ Len(FileLines(fs)) = n
      /\ FileLines(ts) \in Seq(Seq(Nat)) /\ Len(FileLines(ts)) = n
    BY <1>4, FileLinesType
<1>7. /\ FileLines(fs)[n] = y /\ FileLines(ts)[n] = y \o x
      /\ \A i \in 1..n : i # n => FileLines(ts)[i] = FileLines(fs)[i]
    BY <1>0, <1>4, <1>5 DEF FileLines
<1> HIDE DEF y
<1>8. PICK u \in Seq(Seq(Nat)), z \in Seq(Nat) : FileLines(fs) = Append(u, z)
  <2>1. FileLines(fs) # <<>>
      BY <1>0, <1>6
  <2> QED
      BY <1>6, <2>1, SequenceEmptyOrAppend, Zenon
<1>9. z = y /\ Len(u) = n - 1 /\ \A i \in 1..(n - 1) : u[i] = FileLines(fs)[i]
    BY <1>0, <1>6, <1>7, <1>8, AppendProperties
<1>10. FileLines(ts) = Append(u, y \o x)
  <2>1. /\ Append(u, y \o x) \in Seq(Seq(Nat)) /\ Len(Append(u, y \o x)) = n
        /\ Append(u, y \o x)[n] = y \o x
        /\ \A i \in 1..(n - 1) : Append(u, y \o x)[i] = u[i]
      BY <1>0, <1>2, <1>9, AppendProperties
  <2> DEFINE v == Append(u, y \o x)
  <2> HIDE DEF v
  <2>2. ASSUME NEW i \in 1..n PROVE FileLines(ts)[i] = v[i]
    <3>1. CASE i = n
        BY <1>7, <2>1, <3>1 DEF v
    <3>2. CASE i # n
      <4>1. i \in 1..(n - 1)
          BY <1>0, <3>2
      <4> QED
          BY <1>7, <1>9, <2>1, <3>2, <4>1 DEF v
    <3> QED
        BY <3>1, <3>2
  <2>3. FileLines(ts) = v
      BY <1>6, <2>1, <2>2, SeqEqual DEF v
  <2> QED
      BY <2>3 DEF v
<1>11. /\ FlattenSeq(FileLines(ts)) = FlattenSeq(u) \o (y \o x)
       /\ FlattenSeq(FileLines(fs)) = FlattenSeq(u) \o y
       /\ FlattenSeq(u) \in Seq(Nat)
    BY <1>0, <1>2, <1>8, <1>9, <1>10, FlattenAppend, FlattenType
<1>12. FlattenSeq(FileLines(ts)) = FlattenSeq(FileLines(fs)) \o x
  <2>1. (FlattenSeq(u) \o y) \o x = FlattenSeq(u) \o (y \o x)
      BY <1>0, <1>11, RegroupNumbers
  <2> QED
      BY <1>11, <2>1
<1> QED
    BY <1>4, <1>5, <1>12 DEF ts

\* A flush leaves the lines where they are.
LEMMA FlushedFiles ==
    ASSUME NEW fs \in Seq(FileObjects), fs # <<>>
    PROVE  LET n == Len(fs)
               ts == Output!Flushed(fs) IN
             /\ ts \in Seq(FileObjects) /\ ts # <<>> /\ Len(ts) = n
             /\ \A i \in 1..n : ts[i].opened = fs[i].opened
             /\ \A i \in 1..n : i # n => ts[i] = fs[i]
             /\ ts[n].flushed = Len(ts[n].lines)
             /\ FileLines(ts) = FileLines(fs)
<1> DEFINE n == Len(fs)
           ts == Output!Flushed(fs)
<1>0. n \in Nat /\ n \in 1..n /\ fs[n] \in FileObjects /\ Len(fs[n].lines) \in Nat
  <2>1. n \in Nat /\ n \in 1..n /\ fs[n] \in FileObjects
      OBVIOUS
  <2>2. fs[n].lines \in Seq(Nat)
      BY <2>1, FileParts, Zenon
  <2> QED
      BY <2>1, <2>2, LenProperties
<1> DEFINE o == [fs[n] EXCEPT !.flushed = Len(fs[n].lines)]
<1>1. ts = [fs EXCEPT ![n] = o]
    BY DEF Output!Flushed, Output!Last
<1>2. /\ o \in FileObjects /\ o.flushed = Len(o.lines)
      /\ o.opened = fs[n].opened /\ o.lines = fs[n].lines
    BY <1>0, FileParts, Zenon
<1> HIDE DEF o, ts
<1>3. ts \in Seq(FileObjects) /\ Len(ts) = n /\ ts # <<>> /\ DOMAIN ts = DOMAIN fs
    BY <1>0, <1>1, <1>2
<1>4. /\ \A i \in 1..n : ts[i].opened = fs[i].opened /\ ts[i].lines = fs[i].lines
      /\ \A i \in 1..n : i # n => ts[i] = fs[i]
      /\ ts[n].flushed = Len(ts[n].lines)
    BY <1>0, <1>1, <1>2
<1>5. FileLines(ts) = FileLines(fs)
  <2>1. DOMAIN fs = 1..n
      BY <1>0
  <2> QED
      BY <1>3, <1>4, <2>1 DEF FileLines
<1> QED
    BY <1>3, <1>4, <1>5 DEF ts

\* A new file is empty and comes last.
LEMMA RolledFiles ==
    ASSUME NEW fs \in Seq(FileObjects), now \in 1..MaxTime
    PROVE  LET n == Len(fs)
               ts == Append(fs, Output!NewFile) IN
             /\ ts \in Seq(FileObjects) /\ ts # <<>> /\ Len(ts) = n + 1
             /\ \A i \in 1..n : ts[i] = fs[i]
             /\ ts[n + 1].opened = now
             /\ FlattenSeq(FileLines(ts)) = FlattenSeq(FileLines(fs))
<1> DEFINE n == Len(fs)
           ts == Append(fs, Output!NewFile)
<1>0. /\ Output!NewFile \in FileObjects /\ Output!NewFile.opened = now
      /\ Output!NewFile.lines = <<>> /\ n \in Nat
    BY DEF Output!NewFile, FileObjects
<1>1. /\ ts \in Seq(FileObjects) /\ ts # <<>> /\ Len(ts) = n + 1
      /\ \A i \in 1..n : ts[i] = fs[i]
      /\ ts[n + 1] = Output!NewFile
    BY <1>0, AppendProperties
<1>2. /\ FileLines(fs) \in Seq(Seq(Nat)) /\ Len(FileLines(fs)) = n
      /\ FileLines(ts) \in Seq(Seq(Nat)) /\ Len(FileLines(ts)) = n + 1
    BY <1>1, FileLinesType
<1>3. /\ \A i \in 1..n : FileLines(ts)[i] = FileLines(fs)[i]
      /\ FileLines(ts)[n + 1] = <<>>
    BY <1>0, <1>1 DEF FileLines
<1>4. FileLines(ts) = Append(FileLines(fs), <<>>)
  <2> DEFINE us == Append(FileLines(fs), <<>>)
  <2>1. /\ us \in Seq(Seq(Nat)) /\ Len(us) = n + 1 /\ us[n + 1] = <<>>
        /\ \A i \in 1..n : us[i] = FileLines(fs)[i]
      BY <1>2, AppendProperties
  <2>2. \A i \in 1..(n + 1) : FileLines(ts)[i] = us[i]
      BY <1>0, <1>3, <2>1
  <2> HIDE DEF us
  <2>3. FileLines(ts) = us
      BY <1>2, <2>1, <2>2, SeqEqual
  <2> QED
      BY <2>3 DEF us
<1>5. FlattenSeq(FileLines(ts)) = FlattenSeq(FileLines(fs)) \o <<>>
  <2>1. <<>> \in Seq(Nat)
      OBVIOUS
  <2> QED
      BY <1>2, <1>4, <2>1, FlattenAppend
<1>6. FlattenSeq(FileLines(fs)) \o <<>> = FlattenSeq(FileLines(fs))
    BY <1>2, FlattenType, ConcatEmptySeq
<1> QED
    BY <1>0, <1>1, <1>5, <1>6

\* Files with ascending names, all but the last on disk, that last one opened
\* at time t.
FilesUpTo(fs, t) ==
    /\ \A i, j \in 1..Len(fs) : i < j =>
         fs[i].opened < fs[j].opened /\ fs[i].flushed = Len(fs[i].lines)
    /\ fs[Len(fs)].opened = t

\* It is FilesSorted with the time of the last roll.
LEMMA SortedFiles ==
    ASSUME NEW fs \in Seq(FileObjects), NEW t, files = fs
    PROVE  Output!FilesSorted /\ Output!Last(files).opened = t <=> FilesUpTo(fs, t)
<1>1. DOMAIN files = 1..Len(fs)
    OBVIOUS
<1> QED
    BY <1>1 DEF Output!FilesSorted, Output!Last, FilesUpTo

\* Writing to the current file or flushing it does not disturb the others.
LEMMA WrittenUpTo ==
    ASSUME NEW fs \in Seq(FileObjects), fs # <<>>, NEW t, FilesUpTo(fs, t),
           NEW ts \in Seq(FileObjects), Len(ts) = Len(fs),
           \A i \in 1..Len(fs) : ts[i].opened = fs[i].opened,
           \A i \in 1..Len(fs) : i # Len(fs) => ts[i] = fs[i]
    PROVE  FilesUpTo(ts, t)
<1>1. Len(fs) \in Nat /\ Len(fs) \in 1..Len(fs)
    OBVIOUS
<1>2. ASSUME NEW i \in 1..Len(fs), NEW j \in 1..Len(fs), i < j
      PROVE  ts[i].opened < ts[j].opened /\ ts[i].flushed = Len(ts[i].lines)
  <2>1. fs[i].opened < fs[j].opened /\ fs[i].flushed = Len(fs[i].lines)
      BY <1>2, Zenon DEF FilesUpTo
  <2>2. i # Len(fs)
      BY <1>1, <1>2
  <2> QED
      BY <2>1, <2>2, Zenon
<1>3. ts[Len(fs)].opened = t
    BY <1>1, Zenon DEF FilesUpTo
<1> QED
    BY <1>2, <1>3, Zenon DEF FilesUpTo

\* ts has one file more than fs, opened at time u.
Continues(ts, fs, u) ==
    /\ Len(ts) = Len(fs) + 1
    /\ \A i \in 1..Len(fs) : ts[i] = fs[i]
    /\ ts[Len(fs) + 1].opened = u

\* The last file is on disk.
LastOnDisk(fs) == fs[Len(fs)].flushed = Len(fs[Len(fs)].lines)

\* A file opened later follows files that are all on disk.
LEMMA RolledUpTo ==
    ASSUME NEW fs \in Seq(FileObjects), fs # <<>>, NEW t \in Nat, FilesUpTo(fs, t),
           LastOnDisk(fs), NEW ts, NEW u \in Nat, u > t, Continues(ts, fs, u)
    PROVE  FilesUpTo(ts, u)
<1> DEFINE n == Len(fs)
<1>1. /\ n \in Nat /\ n \in 1..n
      /\ fs[n].flushed = Len(fs[n].lines)
      /\ Len(ts) = n + 1 /\ ts[n + 1].opened = u
      /\ \A i \in 1..n : ts[i] = fs[i]
    BY DEF LastOnDisk, Continues
<1>2. ASSUME NEW i \in 1..n PROVE fs[i].opened \in Nat /\ fs[i].opened <= t
  <2>1. fs[i].opened \in Nat
    <3>1. fs[i] \in FileObjects
        OBVIOUS
    <3>2. fs[i].opened \in 1..MaxTime
        BY <3>1, FileParts, Zenon
    <3> QED
        BY <3>2
  <2>2. CASE i = n
      BY <2>1, <2>2 DEF FilesUpTo
  <2>3. CASE i # n
    <3>1. i < n
        BY <1>1, <2>3
    <3>2. fs[i].opened < fs[n].opened /\ fs[n].opened = t
        BY <1>1, <3>1, Zenon DEF FilesUpTo
    <3> QED
        BY <2>1, <3>2
  <2> QED
      BY <2>2, <2>3
<1>3. ASSUME NEW i \in 1..(n + 1), NEW j \in 1..(n + 1), i < j
      PROVE  ts[i].opened < ts[j].opened /\ ts[i].flushed = Len(ts[i].lines)
  <2>1. i \in 1..n /\ ts[i] = fs[i]
      BY <1>1, <1>3
  <2>2. CASE j \in 1..n
    <3>1. ts[j] = fs[j]
        BY <1>1, <2>2
    <3> QED
        BY <1>3, <2>1, <2>2, <3>1, Zenon DEF FilesUpTo
  <2>3. CASE j = n + 1
    <3>1. ts[i].opened < ts[j].opened
        BY <1>1, <1>2, <2>1, <2>3
    <3>2. fs[i].flushed = Len(fs[i].lines)
      <4>1. CASE i = n
          BY <1>1, <4>1
      <4>2. CASE i # n
        <5>1. i < n
            BY <1>1, <2>1, <4>2
        <5> QED
            BY <1>1, <2>1, <5>1, Zenon DEF FilesUpTo
      <4> QED
          BY <4>1, <4>2
    <3> QED
        BY <2>1, <3>1, <3>2
  <2>4. j \in 1..n \/ j = n + 1
      BY <1>1
  <2> QED
      BY <2>2, <2>3, <2>4
<1> QED
    BY <1>1, <1>3 DEF FilesUpTo

\* The start of a period is a time.
LEMMA PeriodType ==
    ASSUME NEW t \in Nat
    PROVE  Output!Period(t) \in Nat
<1>1. kRollPerSeconds \in Nat /\ kRollPerSeconds # 0
    BY ConstantsAssumption
<1>2. t \div kRollPerSeconds \in Nat
    BY <1>1
<1> HIDE DEF ConstantsAssumption
<1>3. \A p \in Nat : p * kRollPerSeconds \in Nat
    BY <1>1
<1> QED
    BY <1>2, <1>3 DEF Output!Period

\* The lines written so far are the lines of the files one after the other.
LEMMA WrittenIs == WrittenLines = FlattenSeq(FileLines(files))
  BY Zenon DEF WrittenLines, FileLines

\* What append() may do to the files when it has written.
LEMMA AppendCases ==
    ASSUME TypeOK, NEW x, Output!AppendLines(x), now' = now
    PROVE  LET fs == Output!Extended(files, x) IN
             /\ {now', startOfPeriod', lastRoll', lastFlush', count'} \subseteq Nat
             /\ \/ files' = fs /\ lastRoll' = lastRoll
                \/ files' = Output!Flushed(fs) /\ lastRoll' = lastRoll
                \/ /\ now > lastRoll /\ lastRoll' = now
                   /\ files' = Append(Output!Flushed(fs), Output!NewFile)
<1> DEFINE fs == Output!Extended(files, x)
           Long == Len(Output!Last(fs).lines) > rollSize
           Written == files' = fs /\ lastRoll' = lastRoll
           Flushed == files' = Output!Flushed(fs) /\ lastRoll' = lastRoll
           Rolled == /\ now > lastRoll /\ lastRoll' = now
                     /\ files' = Append(Output!Flushed(fs), Output!NewFile)
           Times == {startOfPeriod', lastRoll', lastFlush'} \subseteq Nat
<1>1. /\ {now, startOfPeriod, lastRoll, lastFlush, count} \subseteq Nat
      /\ Output!Period(now) \in Nat /\ flushEveryN \in Nat
    BY LogTypes, PeriodType, ConstantsAssumption
<1>2. ASSUME Output!RollFile(fs) PROVE Times /\ (Written \/ Rolled)
    BY <1>1, <1>2 DEF Output!RollFile, Output!Later
<1>3. ASSUME Output!RollOrFlush(fs) PROVE Times /\ (Written \/ Flushed \/ Rolled)
  <2>1. CASE Output!Period(now) # startOfPeriod
      BY <1>2, <1>3, <2>1 DEF Output!RollOrFlush
  <2>2. CASE Output!Period(now) = startOfPeriod
      BY <1>1, <1>3, <2>2 DEF Output!RollOrFlush
  <2> QED
      BY <2>1, <2>2
<1>4. \A c \in Nat : Output!Counted(c) \in Nat
    BY <1>1 DEF Output!Counted
<1>5. \/ count' = Output!Counted(count + 1) /\ Output!RollFile(fs)
      \/ count' = 0 /\ Output!RollOrFlush(fs)
      \/ /\ count' = Output!Counted(count + 2) /\ files' = fs
         /\ UNCHANGED <<startOfPeriod, lastRoll, lastFlush>>
    BY DEF Output!AppendLines
<1>6. count' \in Nat /\ Times /\ (Written \/ Flushed \/ Rolled)
  <2>0. count \in Nat /\ count + 1 \in Nat /\ count + 2 \in Nat
      BY <1>1
  <2> HIDE DEF fs
  <2>1. CASE count' = Output!Counted(count + 1) /\ Output!RollFile(fs)
      BY <1>2, <1>4, <2>0, <2>1
  <2>2. CASE count' = 0 /\ Output!RollOrFlush(fs)
      BY <1>3, <2>2
  <2>3. CASE /\ count' = Output!Counted(count + 2) /\ files' = fs
             /\ UNCHANGED <<startOfPeriod, lastRoll, lastFlush>>
      BY <1>1, <1>4, <2>0, <2>3
  <2> QED
      BY <1>5, <2>1, <2>2, <2>3
<1> QED
    BY <1>1, <1>6

\* append() writes its lines behind those written before, and keeps the files
\* in order.
LEMMA AppendEffect ==
    ASSUME TypeOK, FilesUpTo(files, lastRoll), now \in 1..MaxTime,
           NEW x \in Seq(Nat), Output!AppendLines(x), now' = now
    PROVE  /\ {now', startOfPeriod', lastRoll', lastFlush', count'} \subseteq Nat
           /\ files' \in Seq(FileObjects) /\ files' # <<>>
           /\ FilesUpTo(files', lastRoll')
           /\ FlattenSeq(FileLines(files')) = FlattenSeq(FileLines(files)) \o x
<1>1. PICK fs : fs = Output!Extended(files, x)
    OBVIOUS
<1>2. PICK gs : gs = Output!Flushed(fs)
    OBVIOUS
<1>3. PICK hs : hs = Append(gs, Output!NewFile)
    OBVIOUS
<1>4. /\ {now', startOfPeriod', lastRoll', lastFlush', count'} \subseteq Nat
      /\ \/ files' = fs /\ lastRoll' = lastRoll
         \/ files' = gs /\ lastRoll' = lastRoll
         \/ now > lastRoll /\ lastRoll' = now /\ files' = hs
    BY <1>1, <1>2, <1>3, AppendCases
<1>5. files \in Seq(FileObjects) /\ files # <<>> /\ lastRoll \in Nat /\ now \in Nat
    BY LogTypes
<1>6. /\ fs \in Seq(FileObjects) /\ fs # <<>> /\ Len(fs) = Len(files)
      /\ \A i \in 1..Len(files) : fs[i].opened = files[i].opened
      /\ \A i \in 1..Len(files) : i # Len(files) => fs[i] = files[i]
      /\ FlattenSeq(FileLines(fs)) = FlattenSeq(FileLines(files)) \o x
    BY <1>1, <1>5, ExtendedFiles
<1>7. FilesUpTo(fs, lastRoll)
    BY <1>5, <1>6, WrittenUpTo, Zenon
<1>8. /\ gs \in Seq(FileObjects) /\ gs # <<>> /\ Len(gs) = Len(fs)
      /\ \A i \in 1..Len(fs) : gs[i].opened = fs[i].opened
      /\ \A i \in 1..Len(fs) : i # Len(fs) => gs[i] = fs[i]
      /\ gs[Len(fs)].flushed = Len(gs[Len(fs)].lines)
      /\ FileLines(gs) = FileLines(fs)
    BY <1>2, <1>6, FlushedFiles
<1>9. FilesUpTo(gs, lastRoll)
    BY <1>6, <1>7, <1>8, WrittenUpTo, Zenon
<1>10. /\ hs \in Seq(FileObjects) /\ hs # <<>> /\ Len(hs) = Len(gs) + 1
       /\ \A i \in 1..Len(gs) : hs[i] = gs[i]
       /\ hs[Len(gs) + 1].opened = now
       /\ FlattenSeq(FileLines(hs)) = FlattenSeq(FileLines(gs))
    BY <1>3, <1>8, RolledFiles
<1>11. ASSUME now > lastRoll PROVE FilesUpTo(hs, now)
  <2>1. LastOnDisk(gs)
      BY <1>8 DEF LastOnDisk
  <2>2. Continues(hs, gs, now)
      BY <1>10 DEF Continues
  <2> QED
      BY <1>5, <1>8, <1>9, <1>10, <1>11, <2>1, <2>2, RolledUpTo, Zenon
<1>12. CASE files' = fs /\ lastRoll' = lastRoll
    BY <1>4, <1>6, <1>7, <1>12
<1>13. CASE files' = gs /\ lastRoll' = lastRoll
    BY <1>4, <1>6, <1>8, <1>9, <1>13
<1>14. CASE now > lastRoll /\ lastRoll' = now /\ files' = hs
    BY <1>4, <1>6, <1>8, <1>10, <1>11, <1>14
<1> QED
    BY <1>4, <1>12, <1>13, <1>14

-----------------------------------------------------------------------------
(* The steps.  The first lemma about an action says what it does to the     *)
(* batch, in terms the later ones need.                                     *)

\* What is kept of a batch is its beginning.
LEMMA KeptIs ==
    ASSUME NEW E, NEW b \in Seq(E)
    PROVE  /\ Kept(b) \in Seq(E)
           /\ Len(Kept(b)) <= MaxBatch
           /\ Len(b) >= 2 => Len(Kept(b)) >= 2
           /\ Len(b) >= 1 => Len(Kept(b)) >= 1
<1>1. Len(b) \in Nat /\ MaxBatch \in Nat /\ MaxBatch >= 2
    BY ConstantsAssumption
<1>2. CASE Len(b) > MaxBatch
  <2>1. SubSeq(b, 1, 2) \in Seq(E) /\ Len(SubSeq(b, 1, 2)) = 2
      BY <1>1, <1>2, SubSeqProperties
  <2> QED
      BY <1>1, <1>2, <2>1 DEF Kept
<1>3. CASE ~(Len(b) > MaxBatch)
    BY <1>1, <1>3 DEF Kept
<1> QED
    BY <1>2, <1>3

\* The initial states satisfy the invariant.
LEMMA InitIInv == Init => IInv
<1> SUFFICES ASSUME Init PROVE IInv
    OBVIOUS
<1>1. /\ appended = 0 /\ currentBuffer = <<>> /\ nextBuffer = TRUE /\ buffers = <<>>
      /\ newBuffer1 = TRUE /\ newBuffer2 = TRUE /\ buffersToWrite = <<>>
      /\ phase = "test" /\ signalled = FALSE /\ running = TRUE
      /\ stop = "not called" /\ output = 0 /\ dropped = {}
    BY Zenon DEF Init
<1>2. /\ now = 1 /\ files = <<Output!NewFile>> /\ count = 0
      /\ startOfPeriod = Output!Period(now) /\ lastRoll = now /\ lastFlush = now
    BY Zenon DEF Init, Output!Init
<1>3. MaxLines \in Nat /\ MaxTime \in Nat /\ now \in 1..MaxTime
    BY <1>2, ConstantsAssumption
<1>4. /\ Output!NewFile \in FileObjects /\ Output!NewFile.opened = now
      /\ Output!NewFile.lines = <<>> /\ Output!NewFile.flushed = 0
    BY <1>3 DEF Output!NewFile, FileObjects
<1>5. Output!TypeOK
  <2>1. Output!Period(now) \in Nat
      BY <1>3, PeriodType
  <2>2. files \in Seq(FileObjects) /\ files # <<>>
      BY <1>2, <1>4
  <2> QED
      BY <1>2, <1>3, <2>1, <2>2 DEF Output!TypeOK, FileObjects
<1>6. TypeOK
  <2>1. <<>> \in Buffers
      BY ConstantsAssumption DEF Buffers
  <2>2. 0 \in 0..MaxLines /\ 0 \in 0..Len(<<>>) /\ {} \in SUBSET Lines
      BY <1>3
  <2>3. <<>> \in Seq(Buffers)
      OBVIOUS
  <2> QED
      BY <1>1, <1>5, <2>1, <2>2, <2>3, Zenon DEF TypeOK
<1>7. BatchInHand
    BY <1>1 DEF BatchInHand
<1>8. BackEndReady
    BY <1>1 DEF BackEndReady, SparesAtHand, NoFullBufferWaits
<1>9. FilesKept
  <2>1. Len(files) = 1 /\ DOMAIN files = {1} /\ files[1] = Output!NewFile
      BY <1>2
  <2>2. Output!FilesSorted
      BY <2>1 DEF Output!FilesSorted
  <2>3. Output!Last(files).opened = lastRoll /\ Output!AllFlushed
      BY <1>2, <1>4, <2>1 DEF Output!Last, Output!AllFlushed
  <2> QED
      BY <1>3, <2>2, <2>3 DEF FilesKept
<1>10. LogComplete
  <2>1. WrittenLines = <<>>
    <3>1. FileLines(files) = <<Output!NewFile.lines>>
        BY <1>2 DEF FileLines
    <3>2. <<>> \in Seq(Nat)
        OBVIOUS
    <3>3. FlattenSeq(<<Output!NewFile.lines>>) = <<>>
        BY <1>4, <3>2, FlattenOne
    <3> QED
        BY <3>1, <3>3, WrittenIs
  <2>2. FlattenSeq(SubSeq(buffersToWrite, output + 1, Len(buffersToWrite))) = <<>>
    <3>1. SubSeq(<<>>, 0 + 1, Len(<<>>)) = <<>>
        BY SubSeqEmpty
    <3> QED
        BY <1>1, <3>1, FlattenEmpty
  <2>3. inOrder = <<>>
    <3>1. FlattenSeq(buffers) = <<>>
        BY <1>1, FlattenEmpty
    <3>2. (<<>> \o <<>>) \o <<>> = <<>> /\ ((<<>> \o <<>>) \o <<>>) \o <<>> = <<>>
        OBVIOUS
    <3> QED
        BY <1>1, <2>1, <2>2, <3>1, <3>2, Zenon DEF inOrder
  <2>4. ToSet(inOrder) = {} /\ DOMAIN inOrder = {} /\ 1..appended = {}
    <3>1. ToSet(<<>>) = {} /\ DOMAIN <<>> = {} /\ 1..0 = {}
        BY DEF ToSet
    <3> QED
        BY <1>1, <2>3, <3>1, Zenon
  <2> QED
      BY <1>1, <2>4 DEF LogComplete
<1> QED
    BY <1>6, <1>7, <1>8, <1>9, <1>10 DEF IInv

-----------------------------------------------------------------------------
(* The order of the lines.                                                  *)

\* The written lines, those of the batch, of the full buffers and the current one.
Order(w, k, r, c) == w \o k \o r \o c

\* s holds the lines 1..a but those in d, in their order.
Complete(s, d, a) ==
    /\ Ascending(s)
    /\ ToSet(s) \cup d = 1..a
    /\ ToSet(s) \cap d = {}

\* Lines put behind the current buffer, or behind it when it is full, are last.
AddedLast(w, k, r, c, y) ==
    /\ Order(w, k, r, c \o y) = Order(w, k, r, c) \o y
    /\ Order(w, k, r \o c, y) = Order(w, k, r, c) \o y

\* They are, whatever the four places hold.
LEMMA OrderAppended ==
    ASSUME NEW w \in Seq(Nat), NEW k \in Seq(Nat), NEW r \in Seq(Nat),
           NEW c \in Seq(Nat), NEW y \in Seq(Nat)
    PROVE  Order(w, k, r, c) \in Seq(Nat) /\ AddedLast(w, k, r, c, y)
<1>1. PICK e \in Seq(Nat) : e = w \o k
    BY ConcatProperties
<1>2. PICK f \in Seq(Nat) : f = e \o r
    BY ConcatProperties
<1>3. f \o c \in Seq(Nat)
    BY ConcatProperties
<1>4. f \o (c \o y) = (f \o c) \o y
    BY RegroupNumbers
<1>5. e \o (r \o c) = (e \o r) \o c
    BY RegroupNumbers
<1> QED
    BY <1>1, <1>2, <1>3, <1>4, <1>5, Zenon DEF Order, AddedLast

\* To fetch the full buffers and the current one does not move a line.
LEMMA OrderSwapped ==
    ASSUME NEW w \in Seq(Nat), NEW r \in Seq(Nat), NEW c \in Seq(Nat)
    PROVE  Order(w, r \o c, <<>>, <<>>) = Order(w, <<>>, r, c)
<1>1. r \o c \in Seq(Nat) /\ w \o (r \o c) \in Seq(Nat)
    BY ConcatProperties
<1>2. (w \o (r \o c)) \o <<>> = w \o (r \o c) /\ w \o <<>> = w
    BY <1>1, ConcatEmptySeq
<1>3. (w \o r) \o c = w \o (r \o c)
    BY RegroupNumbers
<1> QED
    BY <1>2, <1>3, Zenon DEF Order

\* Nor does it to write the first buffer of the batch.
LEMMA OrderWritten ==
    ASSUME NEW w \in Seq(Nat), NEW x \in Seq(Nat), NEW k \in Seq(Nat), NEW r, NEW c
    PROVE  Order(w \o x, k, r, c) = Order(w, x \o k, r, c)
<1>1. (w \o x) \o k = w \o (x \o k)
    BY RegroupNumbers
<1> QED
    BY <1>1, Zenon DEF Order

\* Which the lines in order are.
LEMMA OrderElements ==
    ASSUME NEW w \in Seq(Nat), NEW k \in Seq(Nat), NEW r \in Seq(Nat),
           NEW c \in Seq(Nat)
    PROVE  ToSet(Order(w, k, r, c)) = ToSet(w) \cup ToSet(k) \cup ToSet(r) \cup ToSet(c)
<1>1. PICK e \in Seq(Nat) : e = w \o k
    BY ConcatProperties
<1>2. PICK f \in Seq(Nat) : f = e \o r
    BY ConcatProperties
<1>3. ToSet(e) = ToSet(w) \cup ToSet(k)
    BY <1>1, ElementsConcat
<1>4. ToSet(f) = ToSet(e) \cup ToSet(r)
    BY <1>2, ElementsConcat
<1>5. ToSet(f \o c) = ToSet(f) \cup ToSet(c)
    BY ElementsConcat
<1> QED
    BY <1>1, <1>2, <1>3, <1>4, <1>5, Zenon DEF Order

\* What it is for them to ascend: each part does, and the parts follow one another.
PartsAscend(w, k, r, c) ==
    /\ Ascending(w) /\ Ascending(k) /\ Ascending(r) /\ Ascending(c)
    /\ Below(ToSet(w), ToSet(k))
    /\ Below(ToSet(w) \cup ToSet(k), ToSet(r))
    /\ Below(ToSet(w) \cup ToSet(k) \cup ToSet(r), ToSet(c))

\* They ascend just then.
LEMMA OrderAscends ==
    ASSUME NEW w \in Seq(Nat), NEW k \in Seq(Nat), NEW r \in Seq(Nat),
           NEW c \in Seq(Nat)
    PROVE  Ascending(Order(w, k, r, c)) <=> PartsAscend(w, k, r, c)
<1>1. PICK e \in Seq(Nat) : e = w \o k
    BY ConcatProperties
<1>2. PICK f \in Seq(Nat) : f = e \o r
    BY ConcatProperties
<1>3. /\ ToSet(e) = ToSet(w) \cup ToSet(k)
      /\ Ascending(e) <=> Ascending(w) /\ Ascending(k) /\ Below(ToSet(w), ToSet(k))
    BY <1>1, ElementsConcat, AscendingConcat
<1>4. /\ ToSet(f) = ToSet(e) \cup ToSet(r)
      /\ Ascending(f) <=> Ascending(e) /\ Ascending(r) /\ Below(ToSet(e), ToSet(r))
    BY <1>2, ElementsConcat, AscendingConcat
<1>5. Ascending(f \o c) <=> Ascending(f) /\ Ascending(c) /\ Below(ToSet(f), ToSet(c))
    BY AscendingConcat
<1> QED
    BY <1>1, <1>2, <1>3, <1>4, <1>5, Zenon DEF Order, PartsAscend

\* The next line at the end leaves the log complete.
LEMMA CompleteAppended ==
    ASSUME NEW s \in Seq(Nat), NEW d, NEW a \in Nat, Complete(s, d, a)
    PROVE  Complete(s \o <<a + 1>>, d, a + 1)
<1> DEFINE y == <<a + 1>>
<1>1. y \in Seq(Nat) /\ ToSet(y) = {a + 1} /\ Ascending(y)
    BY DEF ToSet, Ascending
<1> HIDE DEF y
<1>2. ToSet(s) \subseteq 1..a /\ d \subseteq 1..a
    BY DEF Complete
<1>3. Below(ToSet(s), ToSet(y))
    BY <1>1, <1>2 DEF Below
<1>4. Ascending(s \o y)
    BY <1>1, <1>3, AscendingConcat DEF Complete
<1>5. ToSet(s \o y) = ToSet(s) \cup {a + 1}
    BY <1>1, ElementsConcat
<1>6. 1..(a + 1) = (1..a) \cup {a + 1} /\ a + 1 \notin 1..a
    OBVIOUS
<1>7. ToSet(s \o y) \cup d = 1..(a + 1) /\ ToSet(s \o y) \cap d = {}
    BY <1>2, <1>5, <1>6 DEF Complete
<1> QED
    BY <1>4, <1>7, Zenon DEF Complete, y

\* So does dropping the end of the batch.
LEMMA CompleteCut ==
    ASSUME NEW w \in Seq(Nat), NEW p \in Seq(Nat), NEW x \in Seq(Nat),
           NEW r \in Seq(Nat), NEW c \in Seq(Nat), NEW d, NEW a,
           Complete(Order(w, p \o x, r, c), d, a)
    PROVE  Complete(Order(w, p, r, c), d \cup (ToSet(p \o x) \ ToSet(p)), a)
<1> DEFINE W == ToSet(w)
           P == ToSet(p)
           X == ToSet(x)
           R == ToSet(r)
           C == ToSet(c)
<1>0. PICK q \in Seq(Nat) : q = p \o x
    BY ConcatProperties
<1>1. ToSet(q) = P \cup X
    BY <1>0, ElementsConcat
<1>2. ToSet(Order(w, q, r, c)) = W \cup (P \cup X) \cup R \cup C
    BY <1>1, OrderElements
<1>3. /\ Ascending(w) /\ Ascending(q) /\ Ascending(r) /\ Ascending(c)
      /\ Below(W, P \cup X) /\ Below(W \cup (P \cup X), R)
      /\ Below(W \cup (P \cup X) \cup R, C)
  <2>1. PartsAscend(w, q, r, c)
      BY <1>0, OrderAscends DEF Complete
  <2> QED
      BY <1>1, <2>1, Zenon DEF PartsAscend
<1>4. Ascending(p)
    BY <1>0, <1>3, AscendingConcat
<1>5. ToSet(Order(w, p, r, c)) = W \cup P \cup R \cup C
    BY OrderElements
<1>6. Ascending(Order(w, p, r, c))
  <2>1. Below(W, P) /\ Below(W \cup P, R) /\ Below(W \cup P \cup R, C)
      BY <1>3, Zenon DEF Below
  <2>2. PartsAscend(w, p, r, c)
      BY <1>3, <1>4, <2>1, Zenon DEF PartsAscend
  <2> QED
      BY <2>2, OrderAscends
<1>7. W \subseteq Nat /\ P \subseteq Nat /\ X \subseteq Nat /\ R \subseteq Nat /\ C \subseteq Nat
    BY DEF ToSet
<1>8. X \cap W = {} /\ X \cap R = {} /\ X \cap C = {}
  <2> HIDE DEF W, P, X, R, C
  <2>1. ASSUME NEW n \in X PROVE n \notin W /\ n \notin R /\ n \notin C
    <3>1. n \in Nat /\ ~(n < n)
        BY <1>7
    <3> QED
        BY <1>3, <3>1, Zenon DEF Below
  <2> QED
      BY <2>1
<1>9. /\ (W \cup (P \cup X) \cup R \cup C) \cup d = 1..a
      /\ (W \cup (P \cup X) \cup R \cup C) \cap d = {}
    BY <1>0, <1>2, Zenon DEF Complete
<1>10. /\ (W \cup P \cup R \cup C) \cup (d \cup ((P \cup X) \ P)) = 1..a
       /\ (W \cup P \cup R \cup C) \cap (d \cup ((P \cup X) \ P)) = {}
  <2> HIDE DEF W, P, X, R, C
  <2> QED
      BY <1>8, <1>9
<1> QED
    BY <1>0, <1>1, <1>5, <1>6, <1>10, Zenon DEF Complete

-----------------------------------------------------------------------------
(* The steps.                                                               *)

\* The buffer that is written next, and the steps that leave the files alone.
LEMMA NextBufferIs ==
    ASSUME TypeOK, output < Len(buffersToWrite)
    PROVE  /\ output + 1 \in 1..Len(buffersToWrite)
           /\ buffersToWrite[output + 1] \in Seq(Nat)
<1>1. buffersToWrite \in Seq(Seq(Nat)) /\ output \in 0..Len(buffersToWrite)
    BY LogTypes
<1>2. output + 1 \in 1..Len(buffersToWrite)
    BY <1>1
<1> QED
    BY <1>1, <1>2

\* Steps other than writing.
FileQuiet ==
    /\ UNCHANGED fileVars
    /\ now' \in 1..MaxTime
    /\ phase = "write" => phase' = "write"

\* Only WriteBuffer and Recycle touch the files.
LEMMA FileQuietSteps ==
    ASSUME IInv, [Next]_vars, ~WriteBuffer, ~Recycle
    PROVE  FileQuiet
<1>1. now \in 1..MaxTime
    BY Zenon DEF IInv, FilesKept
<1>2. ASSUME UNCHANGED backVars, UNCHANGED phase \/ phase # "write" PROVE FileQuiet
    BY <1>1, <1>2 DEF backVars, fileVars, FileQuiet
<1>3. CASE UNCHANGED vars \/ AppendLine \/ StopStore \/ StopNotify \/ Joined
    BY <1>2, <1>3 DEF vars, AppendLine, StopStore, StopNotify, Joined
<1>4. CASE TestRunning \/ Sleep \/ WakeUp \/ Timeout
    BY <1>2, <1>4 DEF TestRunning, Sleep, WakeUp, Timeout
<1>5. CASE Swap
    BY <1>1, <1>5 DEF Swap, FileQuiet
<1>6. CASE DropExcess
    BY <1>1, <1>6 DEF DropExcess, FileQuiet
<1>7. CASE Tick
  <2>1. now' \in 1..MaxTime /\ UNCHANGED fileVars /\ UNCHANGED phase
      BY <1>7, Zenon DEF Tick, Output!Tick, Output!logFileVars, fileVars
  <2> QED
      BY <2>1, Zenon DEF FileQuiet
<1> QED
    BY <1>3, <1>4, <1>5, <1>6, <1>7 DEF Next, BackEndStep

\* Every step keeps the files as they should be.
LEMMA FileStep ==
    ASSUME IInv, [Next]_vars
    PROVE  Output!TypeOK' /\ FilesKept'
<1>1. /\ TypeOK /\ now \in 1..MaxTime /\ (phase # "write" => Output!AllFlushed)
      /\ Output!FilesSorted /\ Output!Last(files).opened = lastRoll /\ BatchInHand
    BY Zenon DEF IInv, FilesKept
<1>2. /\ files \in Seq(FileObjects) /\ files # <<>>
      /\ {now, startOfPeriod, lastRoll, lastFlush, count} \subseteq Nat
    BY <1>1, LogTypes
<1>3. FilesUpTo(files, lastRoll)
    BY <1>1, <1>2, SortedFiles
<1>4. ASSUME NEW fs \in Seq(FileObjects), fs # <<>>, files' = fs,
             FilesUpTo(fs, lastRoll'), now' \in 1..MaxTime,
             {startOfPeriod', lastRoll', lastFlush', count'} \subseteq Nat,
             phase' # "write" => LastOnDisk(fs)
      PROVE  Output!TypeOK' /\ FilesKept'
  <2>1. Output!TypeOK'
    <3>1. now' \in Nat
        BY <1>4
    <3> QED
        BY <1>4, <3>1 DEF Output!TypeOK, FileObjects
  <2>2. DOMAIN files' = 1..Len(fs)
      BY <1>4
  <2>3. Output!FilesSorted' /\ Output!Last(files').opened = lastRoll'
      BY <1>4, <2>2 DEF Output!FilesSorted, Output!Last, FilesUpTo
  <2>4. phase' # "write" => Output!AllFlushed'
      BY <1>4 DEF LastOnDisk, Output!AllFlushed, Output!Last
  <2> QED
      BY <1>4, <2>1, <2>3, <2>4, Zenon DEF FilesKept
<1>5. PICK fs : fs = files'
    OBVIOUS
<1>6. CASE WriteBuffer
  <2>1. /\ Output!AppendLines(buffersToWrite[output + 1]) /\ now' = now
        /\ phase = "write" /\ phase' = phase /\ output < Len(buffersToWrite)
      BY <1>6, Zenon DEF WriteBuffer
  <2>2. buffersToWrite[output + 1] \in Seq(Nat)
      BY <1>1, <2>1, NextBufferIs
  <2>3. /\ {now', startOfPeriod', lastRoll', lastFlush', count'} \subseteq Nat
        /\ files' \in Seq(FileObjects) /\ files' # <<>>
        /\ FilesUpTo(files', lastRoll')
      BY <1>1, <1>3, <2>1, <2>2, AppendEffect
  <2> QED
      BY <1>1, <1>4, <1>5, <2>1, <2>3
<1>7. CASE Recycle
  <2>1. /\ fs = Output!Flushed(files) /\ now' = now
        /\ startOfPeriod' = startOfPeriod /\ lastRoll' = lastRoll
        /\ lastFlush' = lastFlush /\ count' = count
      BY <1>5, <1>7, Zenon DEF Recycle, Output!Flush
  <2>2. /\ fs \in Seq(FileObjects) /\ fs # <<>> /\ Len(fs) = Len(files)
        /\ \A i \in 1..Len(files) : fs[i].opened = files[i].opened
        /\ \A i \in 1..Len(files) : i # Len(files) => fs[i] = files[i]
        /\ fs[Len(files)].flushed = Len(fs[Len(files)].lines)
      BY <1>2, <2>1, FlushedFiles
  <2>3. FilesUpTo(fs, lastRoll) /\ LastOnDisk(fs)
    <3>1. LastOnDisk(fs)
        BY <2>2 DEF LastOnDisk
    <3> QED
        BY <1>2, <1>3, <2>2, <3>1, WrittenUpTo, Zenon
  <2> QED
      BY <1>1, <1>2, <1>4, <1>5, <2>1, <2>2, <2>3
<1>8. CASE ~WriteBuffer /\ ~Recycle
  <2>1. FileQuiet
      BY <1>8, FileQuietSteps
  <2>2. /\ fs = files /\ now' \in 1..MaxTime
        /\ startOfPeriod' = startOfPeriod /\ lastRoll' = lastRoll
        /\ lastFlush' = lastFlush /\ count' = count
        /\ (phase = "write" => phase' = "write")
      BY <1>5, <2>1, Zenon DEF FileQuiet, fileVars
  <2>3. phase' # "write" => LastOnDisk(fs)
      BY <1>1, <2>2, Zenon DEF Output!AllFlushed, Output!Last, LastOnDisk
  <2> QED
      BY <1>2, <1>3, <1>4, <1>5, <2>2, <2>3
<1> QED
    BY <1>6, <1>7, <1>8

\* What the types say of the front end and of the batch.
BufferTypes ==
    /\ appended \in 0..MaxLines
    /\ currentBuffer \in Buffers
    /\ buffers \in Seq(Buffers) /\ buffersToWrite \in Seq(Buffers)
    /\ output \in 0..Len(buffersToWrite) /\ dropped \in SUBSET Lines

\* What they say of the rest.
FlagTypes ==
    /\ {nextBuffer, newBuffer1, newBuffer2, signalled, running} \subseteq BOOLEAN
    /\ phase \in {"test", "lock", "asleep", "swap", "drop", "write", "exited"}
    /\ stop \in {"not called", "stored", "joining", "returned"}

\* Every step keeps the flags' types.
LEMMA FlagStep ==
    ASSUME IInv, [Next]_vars
    PROVE  FlagTypes'
<1>1. FlagTypes
    BY Zenon DEF IInv, TypeOK, FlagTypes
<1>2. CASE UNCHANGED vars \/ AppendLine
    BY <1>1, <1>2 DEF FlagTypes, AppendLine, Notify, vars, frontVars, backVars, batchVars
<1>3. CASE TestRunning \/ Sleep \/ WakeUp \/ Timeout
    BY <1>1, <1>3
       DEF FlagTypes, TestRunning, Sleep, WakeUp, Timeout, frontVars, backVars, batchVars
<1>4. CASE Swap
    BY <1>1, <1>4 DEF FlagTypes, Swap
<1>5. CASE DropExcess \/ WriteBuffer \/ Recycle
    BY <1>1, <1>5 DEF FlagTypes, DropExcess, WriteBuffer, Recycle, frontVars
<1>6. CASE Tick
    BY <1>1, <1>6 DEF FlagTypes, Tick, frontVars, batchVars
<1>7. CASE StopStore \/ StopNotify \/ Joined
    BY <1>1, <1>7
       DEF FlagTypes, StopStore, StopNotify, Joined, Notify, frontVars, backVars, batchVars
<1> QED
    BY <1>2, <1>3, <1>4, <1>5, <1>6, <1>7 DEF Next, BackEndStep

\* The steps that move no line.
OrderQuiet == UNCHANGED <<appended, currentBuffer, buffers, batchVars>>

\* They are these.
LEMMA OrderQuietSteps ==
    ASSUME [Next]_vars, ~AppendLine, ~Swap, ~DropExcess, ~WriteBuffer, ~Recycle
    PROVE  OrderQuiet /\ UNCHANGED nextBuffer
<1>1. CASE UNCHANGED vars
    BY <1>1 DEF OrderQuiet, vars, frontVars, backVars
<1>2. CASE TestRunning \/ Sleep \/ WakeUp \/ Timeout
    BY <1>2 DEF OrderQuiet, TestRunning, Sleep, WakeUp, Timeout, frontVars, backVars
<1>3. CASE Tick
    BY <1>3 DEF OrderQuiet, Tick, frontVars
<1>4. CASE StopStore \/ StopNotify \/ Joined
    BY <1>4 DEF OrderQuiet, StopStore, StopNotify, Joined, frontVars, backVars
<1> QED
    BY <1>1, <1>2, <1>3, <1>4 DEF Next, BackEndStep

\* Every step keeps the types of the buffers: none overflows.
LEMMA BufferStep ==
    ASSUME IInv, [Next]_vars
    PROVE  BufferTypes'
<1>1. BufferTypes /\ BatchInHand
    BY Zenon DEF IInv, TypeOK, BufferTypes
<1>2. /\ MaxLines \in Nat /\ LinesPerBuffer \in Nat /\ LinesPerBuffer >= 1
      /\ <<>> \in Buffers
    BY ConstantsAssumption DEF Buffers
<1>3. CASE AppendLine
  <2>0. /\ appended < MaxLines /\ appended' = appended + 1
        /\ UNCHANGED <<buffersToWrite, output, dropped>>
      BY <1>3 DEF AppendLine, backVars, batchVars
  <2>1. appended' \in 0..MaxLines /\ appended' \in Lines
      BY <1>1, <1>2, <2>0 DEF BufferTypes, Lines
  <2>2. CASE Fits(currentBuffer)
    <3>1. currentBuffer' = Append(currentBuffer, appended') /\ buffers' = buffers
        BY <1>3, <2>2 DEF AppendLine
    <3>2. currentBuffer' \in Buffers
        BY <1>1, <1>2, <2>1, <2>2, <3>1 DEF BufferTypes, Buffers, Fits
    <3> QED
        BY <1>1, <2>0, <2>1, <3>1, <3>2 DEF BufferTypes
  <2>3. CASE ~Fits(currentBuffer)
    <3>1. currentBuffer' = <<appended'>> /\ buffers' = Append(buffers, currentBuffer)
        BY <1>3, <2>3 DEF AppendLine
    <3>2. currentBuffer' \in Buffers
        BY <1>2, <2>1, <3>1 DEF Buffers
    <3>3. buffers' \in Seq(Buffers)
        BY <1>1, <3>1, AppendProperties DEF BufferTypes
    <3> QED
        BY <1>1, <2>0, <2>1, <3>2, <3>3 DEF BufferTypes
  <2> QED
      BY <2>2, <2>3
<1>4. CASE Swap
  <2>1. /\ buffersToWrite' = Append(buffers, currentBuffer) /\ buffers' = <<>>
        /\ currentBuffer' = <<>> /\ UNCHANGED <<appended, output, dropped>>
        /\ phase # "write"
      BY <1>4 DEF Swap
  <2>2. buffersToWrite' \in Seq(Buffers) /\ Len(buffersToWrite') \in Nat /\ output = 0
      BY <1>1, <2>1, AppendProperties DEF BufferTypes, BatchInHand
  <2> QED
      BY <1>1, <1>2, <2>1, <2>2 DEF BufferTypes
<1>5. CASE DropExcess
  <2>1. /\ phase = "drop" /\ buffersToWrite' = Kept(buffersToWrite)
        /\ dropped' = dropped \cup (ToSet(FlattenSeq(buffersToWrite))
                                      \ ToSet(FlattenSeq(buffersToWrite')))
        /\ UNCHANGED <<appended, currentBuffer, buffers, output>>
      BY <1>5 DEF DropExcess, frontVars
  <2>2. buffersToWrite' \in Seq(Buffers) /\ output = 0 /\ Len(buffersToWrite') \in Nat
      BY <1>1, <2>1, KeptIs DEF BufferTypes, BatchInHand
  <2>3. dropped' \in SUBSET Lines
    <3>1. Buffers \subseteq Seq(Lines)
        BY DEF Buffers
    <3>2. buffersToWrite \in Seq(Seq(Lines))
        BY <1>1, <3>1, LargerSet DEF BufferTypes
    <3>3. FlattenSeq(buffersToWrite) \in Seq(Lines)
        BY <3>2, FlattenType
    <3>4. ToSet(FlattenSeq(buffersToWrite)) \subseteq Lines
        BY <3>3 DEF ToSet
    <3> QED
        BY <1>1, <2>1, <3>4 DEF BufferTypes
  <2> QED
      BY <1>1, <2>1, <2>2, <2>3 DEF BufferTypes
<1>6. CASE WriteBuffer
    BY <1>1, <1>6 DEF WriteBuffer, frontVars, BufferTypes
<1>7. CASE Recycle
  <2>1. /\ buffersToWrite' = <<>> /\ output' = 0
        /\ UNCHANGED <<appended, currentBuffer, buffers, dropped>>
      BY <1>7 DEF Recycle, frontVars
  <2> QED
      BY <1>1, <2>1 DEF BufferTypes
<1>8. CASE OrderQuiet
    BY <1>1, <1>8 DEF OrderQuiet, batchVars, BufferTypes
<1> QED
    BY <1>3, <1>4, <1>5, <1>6, <1>7, <1>8, OrderQuietSteps

\* The batch is in hand only while it is dropped and written.
LEMMA BatchStep ==
    ASSUME IInv, [Next]_vars
    PROVE  BatchInHand'
<1>1. BatchInHand /\ buffersToWrite \in Seq(Buffers)
    BY Zenon DEF IInv, TypeOK
<1>2. CASE UNCHANGED vars \/ AppendLine
    BY <1>1, <1>2 DEF BatchInHand, AppendLine, vars, backVars, batchVars
<1>3. CASE TestRunning \/ Sleep \/ WakeUp \/ Timeout
    BY <1>1, <1>3 DEF BatchInHand, TestRunning, Sleep, WakeUp, Timeout, backVars, batchVars
<1>4. CASE Swap
    BY <1>1, <1>4 DEF BatchInHand, Swap
<1>5. CASE DropExcess
  <2>1. Len(Kept(buffersToWrite)) <= MaxBatch
      BY <1>1, KeptIs
  <2> QED
      BY <1>1, <1>5, <2>1 DEF BatchInHand, DropExcess
<1>6. CASE WriteBuffer
    BY <1>1, <1>6 DEF BatchInHand, WriteBuffer
<1>7. CASE Recycle
    BY <1>7 DEF BatchInHand, Recycle
<1>8. CASE Tick
    BY <1>1, <1>8 DEF BatchInHand, Tick, batchVars
<1>9. CASE StopStore \/ StopNotify \/ Joined
    BY <1>1, <1>9 DEF BatchInHand, StopStore, StopNotify, Joined, backVars, batchVars
<1> QED
    BY <1>2, <1>3, <1>4, <1>5, <1>6, <1>7, <1>8, <1>9 DEF Next, BackEndStep

\* The back end keeps its spares, and wakes up for a full buffer.
LEMMA ReadyStep ==
    ASSUME IInv, [Next]_vars
    PROVE  BackEndReady'
<1>1. /\ ~nextBuffer => buffers # <<>>
      /\ phase \notin {"drop", "write"} => newBuffer1 /\ newBuffer2
      /\ phase \in {"drop", "write"} =>
           Len(Kept(buffersToWrite)) >= (IF newBuffer2 THEN 1 ELSE 2)
      /\ phase = "asleep" /\ buffers # <<>> => signalled
    BY Zenon DEF IInv, BackEndReady, SparesAtHand, NoFullBufferWaits
<1>2. /\ buffersToWrite \in Seq(Buffers) /\ buffers \in Seq(Buffers)
      /\ currentBuffer \in Buffers /\ BatchInHand
    BY Zenon DEF IInv, TypeOK
<1>3. CASE UNCHANGED vars \/ Tick
  <2>1. UNCHANGED <<phase, signalled, buffers, buffersToWrite, nextBuffer,
                    newBuffer1, newBuffer2>>
      BY <1>3 DEF Tick, vars, frontVars, backVars, batchVars
  <2> QED
      BY <1>1, <2>1 DEF BackEndReady, SparesAtHand, NoFullBufferWaits, Kept
<1>4. CASE AppendLine
  <2>1. UNCHANGED <<phase, buffersToWrite, newBuffer1, newBuffer2>>
      BY <1>4 DEF AppendLine, backVars, batchVars
  <2>2. SparesAtHand'
    <3>1. ~nextBuffer' => buffers' # <<>>
        BY <1>1, <1>2, <1>4 DEF AppendLine
    <3> QED
        BY <1>1, <2>1, <3>1 DEF SparesAtHand, Kept
  <2>3. NoFullBufferWaits'
      BY <1>1, <1>4 DEF AppendLine, Notify, NoFullBufferWaits
  <2> QED
      BY <2>2, <2>3 DEF BackEndReady
<1>5. CASE TestRunning \/ Sleep \/ WakeUp \/ Timeout
  <2>1. /\ UNCHANGED <<buffers, buffersToWrite, nextBuffer, newBuffer1, newBuffer2>>
        /\ phase \notin {"drop", "write"} /\ phase' \notin {"drop", "write"}
        /\ phase' = "asleep" => buffers = <<>>
      BY <1>5 DEF TestRunning, Sleep, WakeUp, Timeout, frontVars, backVars, batchVars
  <2> QED
      BY <1>1, <2>1 DEF BackEndReady, SparesAtHand, NoFullBufferWaits
<1>6. CASE Swap
  <2>1. /\ buffersToWrite' = Append(buffers, currentBuffer) /\ buffers' = <<>>
        /\ newBuffer2' = (newBuffer2 /\ nextBuffer) /\ nextBuffer' = TRUE
        /\ phase' = "drop" /\ phase \notin {"drop", "write"}
      BY <1>6 DEF Swap
  <2>2. /\ buffersToWrite' \in Seq(Buffers) /\ Len(buffersToWrite') = Len(buffers) + 1
        /\ Len(buffers) \in Nat
      BY <1>2, <2>1, AppendProperties
  <2>3. /\ Len(Kept(buffersToWrite')) \in Nat
        /\ Len(buffersToWrite') >= 2 => Len(Kept(buffersToWrite')) >= 2
        /\ Len(buffersToWrite') >= 1 => Len(Kept(buffersToWrite')) >= 1
    <3>1. PICK b \in Seq(Buffers) : b = buffersToWrite'
        BY <2>2
    <3>2. /\ Kept(b) \in Seq(Buffers)
          /\ Len(b) >= 2 => Len(Kept(b)) >= 2
          /\ Len(b) >= 1 => Len(Kept(b)) >= 1
        BY KeptIs
    <3>3. Len(Kept(b)) \in Nat
        BY <3>2
    <3>4. Kept(buffersToWrite') = Kept(b)
        BY <3>1
    <3> QED
        BY <3>1, <3>2, <3>3, <3>4
  <2>4. Kept(buffersToWrite)' = Kept(buffersToWrite')
      BY DEF Kept
  <2>5. ~newBuffer2' => Len(Kept(buffersToWrite')) >= 2
    <3>1. SUFFICES ASSUME ~newBuffer2' PROVE Len(buffers) >= 1
        BY <2>2, <2>3
    <3>2. buffers # <<>>
        BY <1>1, <2>1, <3>1
    <3> QED
        BY <1>2, <3>2
  <2>6. Len(Kept(buffersToWrite')) >= 1
      BY <2>2, <2>3
  <2>7. SparesAtHand'
      BY <2>1, <2>4, <2>5, <2>6 DEF SparesAtHand
  <2> QED
      BY <2>1, <2>7 DEF BackEndReady, NoFullBufferWaits
<1>7. CASE DropExcess
  <2>1. /\ phase = "drop" /\ phase' = "write" /\ buffersToWrite' = Kept(buffersToWrite)
        /\ UNCHANGED <<buffers, nextBuffer, newBuffer2>>
      BY <1>7 DEF DropExcess, frontVars
  <2>2. Kept(buffersToWrite)' = Kept(buffersToWrite)
    <3>1. /\ Kept(buffersToWrite) \in Seq(Buffers)
          /\ Len(Kept(buffersToWrite)) <= MaxBatch
        BY <1>2, KeptIs
    <3>2. Len(buffersToWrite') <= MaxBatch /\ Len(buffersToWrite') \in Nat
        BY <2>1, <3>1
    <3>3. ~(Len(buffersToWrite') > MaxBatch)
        BY <3>2, ConstantsAssumption
    <3>4. Kept(buffersToWrite)' = buffersToWrite'
        BY <3>3 DEF Kept
    <3> QED
        BY <2>1, <3>4
  <2> QED
      BY <1>1, <2>1, <2>2 DEF BackEndReady, SparesAtHand, NoFullBufferWaits
<1>8. CASE WriteBuffer
  <2>1. UNCHANGED <<phase, signalled, buffers, buffersToWrite, nextBuffer,
                    newBuffer1, newBuffer2>>
      BY <1>8 DEF WriteBuffer, frontVars
  <2> QED
      BY <1>1, <2>1 DEF BackEndReady, SparesAtHand, NoFullBufferWaits, Kept
<1>9. CASE Recycle
  <2>1. /\ phase = "write" /\ phase' = "test" /\ UNCHANGED <<buffers, nextBuffer>>
        /\ newBuffer1' = (newBuffer1 \/ Len(buffersToWrite) > 0)
        /\ newBuffer2' = (newBuffer2 \/ Len(buffersToWrite) > (IF newBuffer1 THEN 0 ELSE 1))
      BY <1>9 DEF Recycle, frontVars
  <2>2. Kept(buffersToWrite) = buffersToWrite /\ Len(buffersToWrite) \in Nat
    <3>1. Len(buffersToWrite) \in Nat /\ Len(buffersToWrite) <= MaxBatch
        BY <1>2, <2>1 DEF BatchInHand
    <3> QED
        BY <3>1, ConstantsAssumption DEF Kept
  <2>3. Len(buffersToWrite) >= (IF newBuffer2 THEN 1 ELSE 2)
      BY <1>1, <2>1, <2>2
  <2>4. newBuffer1' /\ newBuffer2'
    <3>1. Len(buffersToWrite) > 0
        BY <2>2, <2>3
    <3>2. newBuffer2 \/ Len(buffersToWrite) > (IF newBuffer1 THEN 0 ELSE 1)
        BY <2>2, <2>3
    <3> QED
        BY <2>1, <3>1, <3>2, Zenon
  <2> QED
      BY <1>1, <2>1, <2>4 DEF BackEndReady, SparesAtHand, NoFullBufferWaits
<1>10. CASE StopStore \/ StopNotify \/ Joined
  <2>1. /\ UNCHANGED <<phase, buffers, buffersToWrite, nextBuffer, newBuffer1, newBuffer2>>
        /\ signalled' = signalled \/ signalled' = (signalled \/ phase = "asleep")
      BY <1>10 DEF StopStore, StopNotify, Joined, Notify, frontVars, backVars, batchVars
  <2>2. signalled => signalled'
      BY <2>1, Zenon
  <2> QED
      BY <1>1, <2>1, <2>2 DEF BackEndReady, SparesAtHand, NoFullBufferWaits, Kept
<1> QED
    BY <1>3, <1>4, <1>5, <1>6, <1>7, <1>8, <1>9, <1>10 DEF Next, BackEndStep

-----------------------------------------------------------------------------
(* The log stays complete.                                                  *)

\* The lines of the batch that are still to be written.
BatchLines == FlattenSeq(SubSeq(buffersToWrite, output + 1, Len(buffersToWrite)))

\* The lines in order are those of the four places they can be in.
LEMMA InOrderIs ==
    ASSUME TypeOK
    PROVE  /\ inOrder = Order(WrittenLines, BatchLines, FlattenSeq(buffers), currentBuffer)
           /\ WrittenLines \in Seq(Nat) /\ BatchLines \in Seq(Nat)
           /\ FlattenSeq(buffers) \in Seq(Nat) /\ currentBuffer \in Seq(Nat)
           /\ inOrder \in Seq(Nat)
<1>1. /\ currentBuffer \in Seq(Nat) /\ buffers \in Seq(Seq(Nat))
      /\ buffersToWrite \in Seq(Seq(Nat)) /\ files \in Seq(FileObjects)
      /\ output \in 0..Len(buffersToWrite)
    BY LogTypes
<1>2. inOrder = Order(WrittenLines, BatchLines, FlattenSeq(buffers), currentBuffer)
    BY Zenon DEF inOrder, Order, BatchLines
<1>3. WrittenLines \in Seq(Nat)
  <2>1. FileLines(files) \in Seq(Seq(Nat))
      BY <1>1, FileLinesType
  <2> QED
      BY <2>1, FlattenType, WrittenIs
<1>4. BatchLines \in Seq(Nat)
  <2>1. SubSeq(buffersToWrite, output + 1, Len(buffersToWrite)) \in Seq(Seq(Nat))
      BY <1>1, SubSeqProperties
  <2> QED
      BY <2>1, FlattenType DEF BatchLines
<1>5. FlattenSeq(buffers) \in Seq(Nat)
    BY <1>1, FlattenType
<1>6. inOrder \in Seq(Nat)
    BY <1>1, <1>2, <1>3, <1>4, <1>5, OrderAppended
<1> QED
    BY <1>1, <1>2, <1>3, <1>4, <1>5, <1>6

\* A step that does not write leaves the lines in the files.
LEMMA WrittenKept ==
    ASSUME IInv, [Next]_vars, ~WriteBuffer
    PROVE  WrittenLines' = WrittenLines
<1>1. files \in Seq(FileObjects) /\ files # <<>>
    BY LogTypes, Zenon DEF IInv
<1>2. CASE Recycle
  <2>1. PICK fs : fs = files'
      OBVIOUS
  <2>2. fs = Output!Flushed(files)
      BY <1>2, <2>1, Zenon DEF Recycle, Output!Flush
  <2>3. FileLines(fs) = FileLines(files)
      BY <1>1, <2>2, FlushedFiles
  <2>4. WrittenLines' = FlattenSeq(FileLines(fs))
      BY <2>1, Zenon DEF WrittenLines, FileLines
  <2> QED
      BY <2>3, <2>4, WrittenIs
<1>3. CASE ~Recycle
  <2>1. files' = files
      BY <1>3, FileQuietSteps, Zenon DEF FileQuiet, fileVars
  <2> QED
      BY <2>1, Zenon DEF WrittenLines
<1> QED
    BY <1>2, <1>3

\* A batch that is written up to its end has no lines left.
LEMMA NoLinesLeft ==
    ASSUME NEW E, NEW b \in Seq(Seq(E)), NEW m \in Nat, m = Len(b)
    PROVE  FlattenSeq(SubSeq(b, m + 1, Len(b))) = <<>>
<1>1. SubSeq(b, m + 1, Len(b)) = <<>>
    BY SubSeqEmpty
<1> QED
    BY <1>1, FlattenEmpty

\* Of one that is not written at all they are all left.
LEMMA AllLinesLeft ==
    ASSUME NEW E, NEW b \in Seq(Seq(E))
    PROVE  FlattenSeq(SubSeq(b, 0 + 1, Len(b))) = FlattenSeq(b)
<1>1. SubSeq(b, 0 + 1, Len(b)) = b
    BY SubSeqFull
<1> QED
    BY <1>1

\* Those of the next buffer come first.
LEMMA LinesLeft ==
    ASSUME NEW E, NEW b \in Seq(Seq(E)), NEW m \in Nat, m < Len(b)
    PROVE  FlattenSeq(SubSeq(b, m + 1, Len(b))) =
             b[m + 1] \o FlattenSeq(SubSeq(b, (m + 1) + 1, Len(b)))
<1>1. /\ m + 1 \in 1..Len(b) /\ Len(b) \in 1..Len(b) /\ m + 1 <= Len(b)
      /\ b[m + 1] \in Seq(E) /\ <<b[m + 1]>> \in Seq(Seq(E))
    OBVIOUS
<1>2. SubSeq(b, m + 1, Len(b)) = <<b[m + 1]>> \o SubSeq(b, (m + 1) + 1, Len(b))
    BY <1>1, SubSeqRecursiveFirst
<1>3. SubSeq(b, (m + 1) + 1, Len(b)) \in Seq(Seq(E))
    BY <1>1, SubSeqProperties
<1>4. FlattenSeq(SubSeq(b, m + 1, Len(b))) =
        FlattenSeq(<<b[m + 1]>>) \o FlattenSeq(SubSeq(b, (m + 1) + 1, Len(b)))
    BY <1>1, <1>2, <1>3, FlattenConcat
<1>5. FlattenSeq(<<b[m + 1]>>) = b[m + 1]
    BY <1>1, FlattenOne
<1> QED
    BY <1>4, <1>5

\* What is kept of a batch is a beginning of its lines.
LEMMA KeptLines ==
    ASSUME NEW E, NEW b \in Seq(Seq(E))
    PROVE  \E x \in Seq(E) : FlattenSeq(b) = FlattenSeq(Kept(b)) \o x
<1>1. CASE Len(b) > MaxBatch
  <2>1. Len(b) \in Nat /\ Len(b) >= 3 /\ 2 \in Nat
      BY <1>1, ConstantsAssumption
  <2>2. b = SubSeq(b, 1, 2) \o SubSeq(b, 2 + 1, Len(b))
    <3>1. SubSeq(b, 1, Len(b)) = b
        BY SubSeqFull
    <3>2. SubSeq(b, 1, 2) \o SubSeq(b, 2 + 1, Len(b)) = SubSeq(b, 1, Len(b))
        BY <2>1, ConcatAdjacentSubSeq
    <3> QED
        BY <3>1, <3>2
  <2>3. SubSeq(b, 1, 2) \in Seq(Seq(E)) /\ SubSeq(b, 2 + 1, Len(b)) \in Seq(Seq(E))
      BY <2>1, SubSeqProperties
  <2>4. FlattenSeq(b) = FlattenSeq(SubSeq(b, 1, 2)) \o FlattenSeq(SubSeq(b, 2 + 1, Len(b)))
      BY <2>2, <2>3, FlattenConcat
  <2>5. FlattenSeq(SubSeq(b, 2 + 1, Len(b))) \in Seq(E)
      BY <2>3, FlattenType
  <2>6. Kept(b) = SubSeq(b, 1, 2)
      BY <1>1 DEF Kept
  <2> QED
      BY <2>4, <2>5, <2>6
<1>2. CASE ~(Len(b) > MaxBatch)
  <2>1. Kept(b) = b
      BY <1>2 DEF Kept
  <2>2. FlattenSeq(b) \o <<>> = FlattenSeq(b) /\ <<>> \in Seq(E)
      BY FlattenType, ConcatEmptySeq
  <2> QED
      BY <2>1, <2>2
<1> QED
    BY <1>1, <1>2

\* Every step keeps the log complete.
LEMMA OrderStep ==
    ASSUME IInv, [Next]_vars
    PROVE  LogComplete'
<1> DEFINE w == WrittenLines
           k == BatchLines
           r == FlattenSeq(buffers)
           c == currentBuffer
<1>1. /\ TypeOK /\ BatchInHand /\ LogComplete
    BY Zenon DEF IInv
<1>2. /\ inOrder = Order(w, k, r, c) /\ inOrder \in Seq(Nat)
      /\ w \in Seq(Nat) /\ k \in Seq(Nat) /\ r \in Seq(Nat) /\ c \in Seq(Nat)
    BY <1>1, InOrderIs
<1>3. /\ buffers \in Seq(Seq(Nat)) /\ buffersToWrite \in Seq(Seq(Nat))
      /\ output \in Nat /\ appended \in Nat
    BY <1>1, LogTypes
<1>4. Complete(inOrder, dropped, appended)
    BY <1>1, Zenon DEF LogComplete, Complete, Ascending
<1>5. inOrder' = Order(w', k', r', c')
    BY Zenon DEF inOrder, Order, BatchLines
<1>6. ASSUME Complete(inOrder', dropped', appended') PROVE LogComplete'
    BY <1>6, Zenon DEF LogComplete, Complete, Ascending
<1>7. ASSUME inOrder' = inOrder, dropped' = dropped, appended' = appended
      PROVE  LogComplete'
    BY <1>4, <1>6, <1>7
<1>8. ~WriteBuffer => w' = w
    BY WrittenKept
<1>9. CASE AppendLine
  <2>1. /\ appended' = appended + 1 /\ dropped' = dropped
        /\ buffersToWrite' = buffersToWrite /\ output' = output
      BY <1>9 DEF AppendLine, backVars, batchVars
  <2>2. w' = w /\ k' = k
    <3>1. ~WriteBuffer
        BY <1>3, <2>1 DEF WriteBuffer
    <3> QED
        BY <1>8, <2>1, <3>1 DEF BatchLines
  <2>3. inOrder' = inOrder \o <<appended + 1>>
    <3>1. PICK y : y = <<appended + 1>> /\ y \in Seq(Nat)
      <4>1. <<appended + 1>> \in Seq(Nat)
          BY <1>3
      <4> QED
          BY <4>1, Zenon
    <3>0. /\ Order(w, k, r, c \o y) = Order(w, k, r, c) \o y
          /\ Order(w, k, r \o c, y) = Order(w, k, r, c) \o y
      <4>1. AddedLast(w, k, r, c, y)
          BY <1>2, <3>1, OrderAppended
      <4> QED
          BY <4>1, Zenon DEF AddedLast
    <3>2. CASE Fits(currentBuffer)
      <4>1. r' = r /\ c' = Append(c, appended + 1)
          BY <1>9, <2>1, <3>2 DEF AppendLine
      <4>2. c' = c \o y
          BY <1>2, <1>3, <3>1, <4>1, AppendIsConcat
      <4> QED
          BY <1>2, <1>5, <2>2, <3>1, <3>0, <4>1, <4>2
    <3>3. CASE ~Fits(currentBuffer)
      <4>1. buffers' = Append(buffers, c) /\ c' = y
          BY <1>9, <2>1, <3>1, <3>3 DEF AppendLine
      <4>2. r' = r \o c
          BY <1>2, <1>3, <4>1, FlattenAppend
      <4> QED
          BY <1>2, <1>5, <2>2, <3>1, <3>0, <4>1, <4>2
    <3> QED
        BY <3>2, <3>3
  <2>4. Complete(inOrder \o <<appended + 1>>, dropped, appended + 1)
      BY <1>2, <1>3, <1>4, CompleteAppended
  <2> QED
      BY <1>6, <2>1, <2>3, <2>4
<1>10. CASE Swap
  <2>1. /\ buffersToWrite' = Append(buffers, c) /\ buffers' = <<>> /\ c' = <<>>
        /\ phase \notin {"drop", "write"} /\ output' = output
        /\ dropped' = dropped /\ appended' = appended
      BY <1>10 DEF Swap
  <2>2. w' = w
    <3>1. ~WriteBuffer
        BY <2>1 DEF WriteBuffer
    <3> QED
        BY <1>8, <3>1
  <2>3. k = <<>> /\ output = 0
    <3>1. buffersToWrite = <<>> /\ output = 0 /\ Len(buffersToWrite) = 0
        BY <1>1, <2>1 DEF BatchInHand
    <3> QED
        BY <1>3, <3>1, NoLinesLeft DEF BatchLines
  <2>4. k' = r \o c
    <3>1. PICK b \in Seq(Seq(Nat)) : b = Append(buffers, c)
        BY <1>2, <1>3, AppendProperties
    <3>2. FlattenSeq(b) = r \o c
        BY <1>2, <1>3, <3>1, FlattenAppend
    <3>3. FlattenSeq(SubSeq(b, 0 + 1, Len(b))) = FlattenSeq(b)
        BY AllLinesLeft
    <3>4. k' = FlattenSeq(SubSeq(b, 0 + 1, Len(b)))
        BY <2>1, <2>3, <3>1 DEF BatchLines
    <3> QED
        BY <3>2, <3>3, <3>4
  <2>5. r' = <<>>
      BY <2>1, FlattenEmpty
  <2>6. inOrder' = Order(w, r \o c, <<>>, <<>>)
      BY <1>5, <2>1, <2>2, <2>4, <2>5
  <2>7. Order(w, r \o c, <<>>, <<>>) = Order(w, <<>>, r, c)
      BY <1>2, OrderSwapped
  <2> QED
      BY <1>2, <1>7, <2>1, <2>3, <2>6, <2>7
<1>11. CASE DropExcess
  <2>1. /\ phase = "drop" /\ buffersToWrite' = Kept(buffersToWrite)
        /\ dropped' = dropped \cup (ToSet(FlattenSeq(buffersToWrite))
                                      \ ToSet(FlattenSeq(buffersToWrite')))
        /\ appended' = appended /\ c' = c /\ buffers' = buffers /\ output' = output
      BY <1>11 DEF DropExcess, frontVars
  <2>2. w' = w
    <3>1. ~WriteBuffer
        BY <2>1 DEF WriteBuffer
    <3> QED
        BY <1>8, <3>1
  <2>3. output = 0
      BY <1>1, <2>1 DEF BatchInHand
  <2>4. PICK b \in Seq(Seq(Nat)) : b = Kept(buffersToWrite)
      BY <1>3, KeptIs
  <2>5. PICK p \in Seq(Nat) : p = FlattenSeq(b)
      BY FlattenType
  <2>6. PICK x \in Seq(Nat) : FlattenSeq(buffersToWrite) = p \o x
      BY <1>3, <2>4, <2>5, KeptLines
  <2>7. k = p \o x
    <3>1. FlattenSeq(SubSeq(buffersToWrite, 0 + 1, Len(buffersToWrite)))
            = FlattenSeq(buffersToWrite)
        BY <1>3, AllLinesLeft
    <3> QED
        BY <2>3, <2>6, <3>1 DEF BatchLines
  <2>8. k' = p
    <3>1. FlattenSeq(SubSeq(b, 0 + 1, Len(b))) = FlattenSeq(b)
        BY AllLinesLeft
    <3> QED
        BY <2>1, <2>3, <2>4, <2>5, <3>1 DEF BatchLines
  <2>9. Complete(Order(w, p, r, c), dropped \cup (ToSet(p \o x) \ ToSet(p)), appended)
      BY <1>2, <1>4, <2>7, CompleteCut
  <2>10. inOrder' = Order(w, p, r, c)
      BY <1>5, <2>1, <2>2, <2>8
  <2>11. dropped' = dropped \cup (ToSet(p \o x) \ ToSet(p))
      BY <2>1, <2>4, <2>5, <2>6
  <2> QED
      BY <1>6, <2>1, <2>9, <2>10, <2>11
<1>12. CASE WriteBuffer
  <2>1. /\ output < Len(buffersToWrite) /\ output' = output + 1
        /\ Output!AppendLines(buffersToWrite[output + 1]) /\ now' = now
        /\ c' = c /\ buffers' = buffers /\ buffersToWrite' = buffersToWrite
        /\ dropped' = dropped /\ appended' = appended
      BY <1>12, Zenon DEF WriteBuffer, frontVars
  <2>2. PICK x \in Seq(Nat) : x = buffersToWrite[output + 1]
      BY <1>1, <2>1, NextBufferIs
  <2>3. w' = w \o x
    <3>1. FilesUpTo(files, lastRoll) /\ now \in 1..MaxTime
        BY LogTypes, SortedFiles DEF IInv, FilesKept
    <3>2. FlattenSeq(FileLines(files')) = FlattenSeq(FileLines(files)) \o x
        BY <1>1, <2>1, <2>2, <3>1, AppendEffect
    <3>3. w' = FlattenSeq(FileLines(files'))
        BY Zenon DEF WrittenLines, FileLines
    <3> QED
        BY <3>2, <3>3, WrittenIs
  <2>4. PICK q \in Seq(Nat) :
          q = FlattenSeq(SubSeq(buffersToWrite, (output + 1) + 1, Len(buffersToWrite)))
    <3>1. SubSeq(buffersToWrite, (output + 1) + 1, Len(buffersToWrite)) \in Seq(Seq(Nat))
        BY <1>3, <2>1, SubSeqProperties
    <3> QED
        BY <3>1, FlattenType
  <2>5. k = x \o q
      BY <1>3, <2>1, <2>2, <2>4, LinesLeft DEF BatchLines
  <2>6. k' = q
      BY <2>1, <2>4 DEF BatchLines
  <2>7. Order(w \o x, q, r, c) = Order(w, x \o q, r, c)
      BY <1>2, OrderWritten
  <2>8. inOrder' = Order(w \o x, q, r, c)
      BY <1>5, <2>1, <2>3, <2>6
  <2> QED
      BY <1>2, <1>7, <2>1, <2>5, <2>7, <2>8
<1>13. CASE Recycle
  <2>1. /\ output = Len(buffersToWrite) /\ output' = 0 /\ buffersToWrite' = <<>>
        /\ c' = c /\ buffers' = buffers /\ dropped' = dropped /\ appended' = appended
      BY <1>13 DEF Recycle, frontVars
  <2>2. w' = w
    <3>1. ~WriteBuffer
        BY <1>3, <2>1 DEF WriteBuffer
    <3> QED
        BY <1>8, <3>1
  <2>3. k = <<>>
      BY <1>3, <2>1, NoLinesLeft DEF BatchLines
  <2>4. k' = <<>>
    <3>1. FlattenSeq(SubSeq(<<>>, 0 + 1, Len(<<>>))) = <<>>
      <4>1. <<>> \in Seq(Seq(Nat)) /\ 0 \in Nat /\ 0 = Len(<<>>)
          OBVIOUS
      <4> QED
          BY <4>1, NoLinesLeft
    <3> QED
        BY <2>1, <3>1 DEF BatchLines
  <2> QED
      BY <1>2, <1>5, <1>7, <2>1, <2>2, <2>3, <2>4
<1>14. CASE OrderQuiet /\ ~WriteBuffer
  <2>1. /\ c' = c /\ buffers' = buffers /\ buffersToWrite' = buffersToWrite
        /\ output' = output /\ dropped' = dropped /\ appended' = appended
      BY <1>14 DEF OrderQuiet, batchVars
  <2>2. w' = w /\ k' = k
      BY <1>8, <1>14, <2>1 DEF BatchLines
  <2> QED
      BY <1>2, <1>5, <1>7, <2>1, <2>2
<1> QED
    BY <1>9, <1>10, <1>11, <1>12, <1>13, <1>14, OrderQuietSteps

-----------------------------------------------------------------------------
(* The theorems.                                                            *)

\* The conjunction of the above is inductive.
LEMMA Invariant == SafeSpec => []IInv
<1>1. IInv /\ [Next]_vars => IInv'
  <2> SUFFICES ASSUME IInv, [Next]_vars PROVE IInv'
      OBVIOUS
  <2>1. TypeOK'
    <3>1. FlagTypes' /\ BufferTypes' /\ Output!TypeOK'
        BY FlagStep, BufferStep, FileStep
    <3> QED
        BY <3>1, Zenon DEF TypeOK, FlagTypes, BufferTypes
  <2>2. BatchInHand' /\ BackEndReady' /\ FilesKept' /\ LogComplete'
      BY BatchStep, ReadyStep, FileStep, OrderStep
  <2> QED
      BY <2>1, <2>2 DEF IInv
<1> QED
    BY InitIInv, <1>1, PTL DEF SafeSpec

\* The log's variables keep their types: no buffer overflows and no index runs
\* past the batch.
THEOREM LogTyped == SafeSpec => []TypeOK
<1>1. IInv => TypeOK
    BY DEF IInv
<1> QED
    BY Invariant, <1>1, PTL

\* append() and the back end's swap (AsyncLogging.cc) lose no line, write none
\* twice and none out of order, whatever the clock, the buffers' size and the
\* interleaving.
THEOREM LogIsComplete == SafeSpec => []LogComplete
<1>1. IInv => LogComplete
    BY DEF IInv
<1> QED
    BY Invariant, <1>1, PTL

\* rollFile() gives every file a name of its own in the order they are written,
\* and the back end leaves nothing in the buffer of a FILE when it waits.
THEOREM LogFilesReadable == SafeSpec => []FilesReadable
<1>1. IInv => FilesReadable
    BY Zenon DEF IInv, FilesKept, FilesReadable
<1> QED
    BY Invariant, <1>1, PTL

\* The assertions about the back end's pointers hold, and it never sleeps on a
\* full buffer without having been signalled.
THEOREM BackEndAlwaysReady == SafeSpec => []BackEndReady
<1>1. IInv => BackEndReady
    BY DEF IInv
<1> QED
    BY Invariant, <1>1, PTL
=============================================================================
