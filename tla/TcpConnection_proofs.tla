------------------------- MODULE TcpConnection_proofs -------------------------
(* Proofs about TcpConnection for any send buffer, window and number of     *)
(* units.                                                                   *)
EXTENDS TcpConnection, SequencesExt, SequenceTheorems, TLAPS

\* The elements grow from first to last.
Ascending(s) == \A i, j \in DOMAIN s : i < j => s[i] < s[j]

\* Only units the client has sent are under way.
SentSoFar == ToSet(inTransit) \subseteq 1..sent

\* After the end of the stream there is no output, and none comes.
FinAfterOutput == fin => output = <<>> /\ state # "KConnected"

\* The inductive invariant.
IInv ==
    /\ TypeOK
    /\ WritingIffOutput
    /\ OrderKept
    /\ SentSoFar
    /\ FinAfterOutput

-----------------------------------------------------------------------------
(* Sequences.                                                               *)

\* Sequences over a set are sequences over a larger one.
LEMMA LargerSet ==
    ASSUME NEW S, NEW T, S \subseteq T, NEW s \in Seq(S)
    PROVE  s \in Seq(T)
  OBVIOUS

\* Three sequences can be concatenated in either order.
Regroups(a, b, c) == (a \o b) \o c = a \o (b \o c)

\* They always can.
LEMMA Regroup ==
    ASSUME NEW E, NEW a \in Seq(E), NEW b \in Seq(E), NEW c \in Seq(E)
    PROVE  Regroups(a, b, c)
  BY ConcatAssociative, SMTT(30) DEF Regroups

\* The positions of a concatenation are those of its parts.
LEMMA ConcatAt ==
    ASSUME NEW E, NEW s \in Seq(E), NEW t \in Seq(E)
    PROVE  /\ \A i \in DOMAIN s : i \in DOMAIN (s \o t) /\ (s \o t)[i] = s[i]
           /\ \A i \in DOMAIN t :
                Len(s) + i \in DOMAIN (s \o t) /\ (s \o t)[Len(s) + i] = t[i]
           /\ \A i \in DOMAIN (s \o t) :
                i \in DOMAIN s \/ \E k \in DOMAIN t : i = Len(s) + k
           /\ DOMAIN s = 1..Len(s) /\ DOMAIN t = 1..Len(t)
           /\ DOMAIN (s \o t) \subseteq Nat /\ Len(s) \in Nat /\ Len(t) \in Nat
<1>1. /\ DOMAIN s = 1..Len(s) /\ DOMAIN t = 1..Len(t)
      /\ DOMAIN (s \o t) = 1..(Len(s) + Len(t))
      /\ Len(s) \in Nat /\ Len(t) \in Nat
    BY ConcatProperties
<1>2. \A i \in DOMAIN s : i \in DOMAIN (s \o t) /\ (s \o t)[i] = s[i]
    BY <1>1, ConcatProperties
<1>3. \A i \in DOMAIN t :
         Len(s) + i \in DOMAIN (s \o t) /\ (s \o t)[Len(s) + i] = t[i]
    BY <1>1, ConcatProperties
<1>4. ASSUME NEW i \in DOMAIN (s \o t), i \notin DOMAIN s
      PROVE  \E k \in DOMAIN t : i = Len(s) + k
  <2>1. i - Len(s) \in 1..Len(t) /\ i = Len(s) + (i - Len(s))
      BY <1>1, <1>4
  <2> QED
      BY <1>1, <2>1
<1> QED
    BY <1>1, <1>2, <1>3, <1>4

\* So are its elements.
LEMMA ElementsConcat ==
    ASSUME NEW E, NEW s \in Seq(E), NEW t \in Seq(E)
    PROVE  ToSet(s \o t) = ToSet(s) \cup ToSet(t)
<1>1. ASSUME NEW x \in ToSet(s \o t) PROVE x \in ToSet(s) \cup ToSet(t)
  <2>1. PICK i \in DOMAIN (s \o t) : x = (s \o t)[i]
      BY DEF ToSet
  <2> QED
      BY <2>1, ConcatAt DEF ToSet
<1>2. ASSUME NEW x \in ToSet(s) PROVE x \in ToSet(s \o t)
    BY ConcatAt DEF ToSet
<1>3. ASSUME NEW x \in ToSet(t) PROVE x \in ToSet(s \o t)
  <2>1. PICK i \in DOMAIN t : x = t[i]
      BY DEF ToSet
  <2>2. Len(s) + i \in DOMAIN (s \o t) /\ x = (s \o t)[Len(s) + i]
      BY <2>1, ConcatAt
  <2> QED
      BY <2>2, Zenon DEF ToSet
<1> QED
    BY <1>1, <1>2, <1>3

\* Every element of S is smaller than every element of T.
Below(S, T) == \A x \in S, y \in T : x < y

\* A concatenation ascends when its parts do and the first is below the second.
LEMMA AscendingConcat ==
    ASSUME NEW s \in Seq(Nat), NEW t \in Seq(Nat)
    PROVE  Ascending(s \o t) <=>
             Ascending(s) /\ Ascending(t) /\ Below(ToSet(s), ToSet(t))
<1> DEFINE u == s \o t
           n == Len(s)
<1>0. /\ \A i \in DOMAIN s : i \in DOMAIN u /\ u[i] = s[i]
      /\ \A i \in DOMAIN t : n + i \in DOMAIN u /\ u[n + i] = t[i]
      /\ \A i \in DOMAIN u : i \in DOMAIN s \/ \E k \in DOMAIN t : i = n + k
      /\ DOMAIN s = 1..n /\ DOMAIN t = 1..Len(t)
      /\ DOMAIN u \subseteq Nat /\ n \in Nat /\ Len(t) \in Nat
    BY ConcatAt
<1> HIDE DEF u, n
<1>1. ASSUME Ascending(u) PROVE Ascending(s)
    BY <1>0, <1>1 DEF Ascending
<1>2. ASSUME Ascending(u) PROVE Ascending(t)
  <2> SUFFICES ASSUME NEW i \in DOMAIN t, NEW j \in DOMAIN t, i < j PROVE t[i] < t[j]
      BY DEF Ascending
  <2>1. n + i \in DOMAIN u /\ n + j \in DOMAIN u /\ n + i < n + j
      BY <1>0
  <2> QED
      BY <1>0, <1>2, <2>1 DEF Ascending
<1>3. ASSUME Ascending(u) PROVE Below(ToSet(s), ToSet(t))
  <2> SUFFICES ASSUME NEW i \in DOMAIN s, NEW j \in DOMAIN t PROVE s[i] < t[j]
      BY DEF Below, ToSet
  <2>1. i \in DOMAIN u /\ n + j \in DOMAIN u /\ i < n + j
      BY <1>0
  <2> QED
      BY <1>0, <1>3, <2>1 DEF Ascending
<1>4. ASSUME Ascending(s), Ascending(t), Below(ToSet(s), ToSet(t)) PROVE Ascending(u)
  <2> SUFFICES ASSUME NEW i \in DOMAIN u, NEW j \in DOMAIN u, i < j
               PROVE  u[i] < u[j]
      BY DEF Ascending
  <2>1. CASE j \in DOMAIN s
    <3>1. i \in DOMAIN s
        BY <1>0, <2>1
    <3> QED
        BY <1>0, <1>4, <2>1, <3>1 DEF Ascending
  <2>2. CASE i \in DOMAIN s /\ j \notin DOMAIN s
    <3>1. PICK k \in DOMAIN t : j = n + k
        BY <1>0, <2>2
    <3>2. u[i] = s[i] /\ u[j] = t[k] /\ s[i] \in ToSet(s) /\ t[k] \in ToSet(t)
        BY <1>0, <2>2, <3>1 DEF ToSet
    <3> QED
        BY <1>4, <3>2 DEF Below
  <2>3. CASE i \notin DOMAIN s
    <3>1. PICK k \in DOMAIN t : i = n + k
        BY <1>0, <2>3
    <3>2. PICK l \in DOMAIN t : j = n + l
      <4>1. j \notin DOMAIN s
          BY <1>0, <3>1
      <4> QED
          BY <1>0, <4>1, Zenon
    <3>3. k < l /\ u[i] = t[k] /\ u[j] = t[l]
        BY <1>0, <3>1, <3>2
    <3> QED
        BY <1>4, <3>3 DEF Ascending
  <2> QED
      BY <2>1, <2>2, <2>3
<1> QED
    BY <1>1, <1>2, <1>3, <1>4 DEF u

\* What write(2) takes and what it leaves, or what read(2) takes and leaves.
LEMMA Split ==
    ASSUME NEW E, NEW s \in Seq(E), NEW n \in 0..Len(s)
    PROVE  /\ First(s, n) \in Seq(E) /\ Rest(s, n) \in Seq(E)
           /\ Len(First(s, n)) = n /\ Len(Rest(s, n)) = Len(s) - n
           /\ First(s, n) \o Rest(s, n) = s
           /\ n = 0 => First(s, n) = <<>> /\ Rest(s, n) = s
<1>1. Len(s) \in Nat /\ n \in Int /\ \A i \in 1..Len(s) : s[i] \in E
    OBVIOUS
<1>2. SubSeq(s, 1, n) \in Seq(E) /\ Len(SubSeq(s, 1, n)) = n
    BY <1>1, SubSeqProperties
<1>3. SubSeq(s, n + 1, Len(s)) \in Seq(E) /\ Len(SubSeq(s, n + 1, Len(s))) = Len(s) - n
    BY <1>1, SubSeqProperties
<1>4. SubSeq(s, 1, Len(s)) = s
    BY SubSeqFull
<1>5. SubSeq(s, 1, n) \o SubSeq(s, n + 1, Len(s)) = s
  <2>1. 1 \in 1..(Len(s) + 1) /\ n \in (1 - 1)..Len(s) /\ Len(s) \in n..Len(s)
      BY <1>1
  <2>2. SubSeq(s, 1, n) \o SubSeq(s, n + 1, Len(s)) = SubSeq(s, 1, Len(s))
      BY <2>1, ConcatAdjacentSubSeq
  <2> QED
      BY <1>4, <2>2
<1>6. n = 0 => SubSeq(s, 1, n) = <<>>
    BY SubSeqEmpty
<1>7. n = 0 => SubSeq(s, n + 1, Len(s)) = s
    BY <1>4
<1> QED
    BY <1>2, <1>3, <1>5, <1>6, <1>7, Zenon DEF First, Rest

-----------------------------------------------------------------------------
(* What is under way.                                                       *)

\* The units the client has read, those on their way to it, those to be written,
\* those to be answered and those to be read.
Chain(r, s, o, i, q) == r \o s \o o \o i \o q

\* The units are in their order, and there are no others than 1..n.
InOrderUpTo(s, n) == Ascending(s) /\ ToSet(s) \subseteq 1..n

\* A concatenation is in order when its parts are and follow each other.
LEMMA OrderConcat ==
    ASSUME NEW a \in Seq(Nat), NEW b \in Seq(Nat), NEW n
    PROVE  InOrderUpTo(a \o b, n) <=>
             InOrderUpTo(a, n) /\ InOrderUpTo(b, n) /\ Below(ToSet(a), ToSet(b))
<1>1. ToSet(a \o b) = ToSet(a) \cup ToSet(b)
    BY ElementsConcat
<1>2. Ascending(a \o b) <=>
        Ascending(a) /\ Ascending(b) /\ Below(ToSet(a), ToSet(b))
    BY AscendingConcat
<1> QED
    BY <1>1, <1>2, Zenon DEF InOrderUpTo

\* What is left when a part is lost is in order.
LEMMA OrderCut ==
    ASSUME NEW a \in Seq(Nat), NEW b \in Seq(Nat), NEW c \in Seq(Nat), NEW n,
           InOrderUpTo((a \o b) \o c, n)
    PROVE  InOrderUpTo(a \o c, n)
<1>1. PICK d \in Seq(Nat) : d = a \o b
    BY ConcatProperties
<1>2. InOrderUpTo(d, n) /\ InOrderUpTo(c, n) /\ Below(ToSet(d), ToSet(c))
    BY <1>1, OrderConcat
<1>3. InOrderUpTo(a, n)
    BY <1>1, <1>2, OrderConcat
<1>4. ToSet(d) = ToSet(a) \cup ToSet(b)
    BY <1>1, ElementsConcat
<1>5. Below(ToSet(a), ToSet(c))
    BY <1>2, <1>4, Zenon DEF Below
<1> QED
    BY <1>2, <1>3, <1>5, OrderConcat

\* The next unit at the end is in order.
LEMMA OrderGrows ==
    ASSUME NEW a \in Seq(Nat), NEW n \in Nat, InOrderUpTo(a, n)
    PROVE  InOrderUpTo(a \o <<n + 1>>, n + 1)
<1>1. PICK b : b = <<n + 1>>
    OBVIOUS
<1>2. b \in Seq(Nat) /\ ToSet(b) = {n + 1} /\ Ascending(b)
    BY <1>1 DEF ToSet, Ascending
<1>3. ToSet(a) \subseteq 1..n /\ Ascending(a)
    BY Zenon DEF InOrderUpTo
<1>4. 1..n \subseteq 1..(n + 1) /\ n + 1 \in 1..(n + 1)
    OBVIOUS
<1>5. Below(ToSet(a), ToSet(b))
    BY <1>2, <1>3 DEF Below
<1>6. InOrderUpTo(a, n + 1) /\ InOrderUpTo(b, n + 1)
    BY <1>2, <1>3, <1>4 DEF InOrderUpTo
<1> QED
    BY <1>1, <1>2, <1>5, <1>6, OrderConcat

\* A chain is a sequence; its end is what is to be read.
LEMMA ChainType ==
    ASSUME NEW r \in Seq(Nat), NEW s \in Seq(Nat), NEW o \in Seq(Nat),
           NEW i \in Seq(Nat), NEW q \in Seq(Nat)
    PROVE  /\ r \o s \in Seq(Nat) /\ (r \o s) \o o \in Seq(Nat)
           /\ ((r \o s) \o o) \o i \in Seq(Nat)
           /\ Chain(r, s, o, i, q) \in Seq(Nat)
<1>1. PICK a \in Seq(Nat) : a = r \o s
    BY ConcatProperties
<1>2. PICK b \in Seq(Nat) : b = a \o o
    BY ConcatProperties
<1>3. PICK c \in Seq(Nat) : c = b \o i
    BY ConcatProperties
<1>4. c \o q \in Seq(Nat)
    BY ConcatProperties
<1> QED
    BY <1>1, <1>2, <1>3, <1>4, Zenon DEF Chain

\* Where units that are read or arrive stand.
Reads(r, s, o, i, q, x) ==
    /\ Chain(r, s, o, i \o x, q) = Chain(r, s, o, i, x \o q)
    /\ Chain(r, s, o, i, q \o x) = Chain(r, s, o, i, q) \o x

\* To read units does not move them, and new ones come last.
LEMMA ChainReads ==
    ASSUME NEW r \in Seq(Nat), NEW s \in Seq(Nat), NEW o \in Seq(Nat),
           NEW i \in Seq(Nat), NEW q \in Seq(Nat), NEW x \in Seq(Nat)
    PROVE  Reads(r, s, o, i, q, x)
<1>1. PICK b \in Seq(Nat) : b = (r \o s) \o o
    BY ChainType, Zenon
<1>2. PICK c \in Seq(Nat) : c = b \o i
    BY ConcatProperties
<1>3. Regroups(b, i, x) /\ Regroups(c, x, q) /\ Regroups(c, q, x)
    BY Regroup
<1> QED
    BY <1>1, <1>2, <1>3, Zenon DEF Chain, Reads, Regroups

\* What write(2) or sendInLoop makes of what is sent, of outputBuffer_ and of x.
Moves(s, o, x, t, p) == t \o p = (s \o o) \o x

\* The units stand where they stood.
Stays(r, s, o, i, q, x, t, p) == Chain(r, t, p, i, q) = Chain(r, s, o, x \o i, q)

\* To send units and keep the rest for later does not move them.
LEMMA ChainSends ==
    ASSUME NEW r \in Seq(Nat), NEW s \in Seq(Nat), NEW o \in Seq(Nat),
           NEW i \in Seq(Nat), NEW q \in Seq(Nat), NEW x \in Seq(Nat),
           NEW t \in Seq(Nat), NEW p \in Seq(Nat), Moves(s, o, x, t, p)
    PROVE  Stays(r, s, o, i, q, x, t, p)
<1>1. PICK a \in Seq(Nat) : a = s \o o
    BY ConcatProperties
<1>2. PICK b \in Seq(Nat) : b = r \o a
    BY ConcatProperties
<1>3. Regroups(r, t, p) /\ Regroups(r, s, o) /\ Regroups(r, a, x) /\ Regroups(b, x, i)
    BY Regroup
<1>4. (r \o s) \o o = b /\ (r \o t) \o p = b \o x
    BY <1>1, <1>2, <1>3, Zenon DEF Regroups, Moves
<1> QED
    BY <1>3, <1>4, Zenon DEF Chain, Regroups, Stays

\* What is left when a reset, a send that fails or a close loses units is in order.
LEMMA ChainLoses ==
    ASSUME NEW r \in Seq(Nat), NEW s \in Seq(Nat), NEW o \in Seq(Nat),
           NEW i \in Seq(Nat), NEW q \in Seq(Nat), NEW n,
           InOrderUpTo(Chain(r, s, o, i, q), n)
    PROVE  /\ InOrderUpTo(Chain(r, <<>>, o, i, q), n)
           /\ InOrderUpTo(Chain(r, s, o, <<>>, q), n)
           /\ InOrderUpTo(Chain(r, s, <<>>, <<>>, <<>>), n)
<1>1. PICK a \in Seq(Nat), b \in Seq(Nat), c \in Seq(Nat) :
        a = r \o s /\ b = a \o o /\ c = b \o i
    BY ChainType, Zenon
<1>2. InOrderUpTo(c \o q, n)
    BY <1>1, Zenon DEF Chain
<1>3. InOrderUpTo(c, n)
    BY <1>2, OrderConcat
<1>4. InOrderUpTo(b, n)
    BY <1>1, <1>3, OrderConcat
<1>5. InOrderUpTo(a, n)
    BY <1>1, <1>4, OrderConcat
<1>6. a \o <<>> = a /\ b \o <<>> = b /\ r \o <<>> = r
    BY ConcatEmptySeq
<1>7. InOrderUpTo(b \o q, n)
    BY <1>1, <1>2, OrderCut
<1>8. InOrderUpTo(((r \o o) \o i) \o q, n)
  <2>1. PICK e \in Seq(Nat), d \in Seq(Nat) : e = o \o i /\ d = e \o q
    <3>1. PICK e \in Seq(Nat) : e = o \o i
        BY ConcatProperties
    <3>2. e \o q \in Seq(Nat)
        BY ConcatProperties
    <3> QED
        BY <3>1, <3>2, Zenon
  <2>2. Regroups(a, o, i) /\ Regroups(r, o, i) /\ Regroups(a, e, q) /\ Regroups(r, e, q)
      BY Regroup
  <2>3. InOrderUpTo((r \o s) \o d, n)
      BY <1>1, <1>2, <2>1, <2>2, Zenon DEF Regroups
  <2>4. InOrderUpTo(r \o d, n)
      BY <2>3, OrderCut
  <2> QED
      BY <2>1, <2>2, <2>4, Zenon DEF Regroups
<1> QED
    BY <1>1, <1>5, <1>6, <1>7, <1>8, Zenon DEF Chain

\* What the types say of the units.
LEMMA UnitTypes ==
    ASSUME TypeOK
    PROVE  /\ received \in Seq(Nat) /\ sndQueue \in Seq(Nat) /\ output \in Seq(Nat)
           /\ input \in Seq(Nat) /\ rcvQueue \in Seq(Nat)
           /\ inTransit = Chain(received, sndQueue, output, input, rcvQueue)
           /\ inTransit \in Seq(Nat) /\ sent \in Nat
           /\ received \in Seq(Units) /\ sndQueue \in Seq(Units)
           /\ output \in Seq(Units) /\ input \in Seq(Units) /\ rcvQueue \in Seq(Units)
<1>1. /\ received \in Seq(Units) /\ sndQueue \in Seq(Units)
      /\ output \in Seq(Units) /\ input \in Seq(Units) /\ rcvQueue \in Seq(Units)
      /\ sent \in 0..MaxUnits
    BY Zenon DEF TypeOK
<1>2. Units \subseteq Nat
    BY DEF Units
<1>3. /\ received \in Seq(Nat) /\ sndQueue \in Seq(Nat) /\ output \in Seq(Nat)
      /\ input \in Seq(Nat) /\ rcvQueue \in Seq(Nat)
    BY <1>1, <1>2, LargerSet
<1>4. inTransit = Chain(received, sndQueue, output, input, rcvQueue)
    BY Zenon DEF inTransit, Chain
<1>5. inTransit \in Seq(Nat)
    BY <1>3, <1>4, ChainType
<1>6. sent \in Nat
    BY <1>1
<1> QED
    BY <1>1, <1>3, <1>4, <1>5, <1>6, Zenon

\* OrderKept and SentSoFar say that what is under way is in order.
LEMMA InOrderIs == OrderKept /\ SentSoFar <=> InOrderUpTo(inTransit, sent)
  BY Zenon DEF OrderKept, SentSoFar, InOrderUpTo, Ascending

-----------------------------------------------------------------------------
(* write(2) and sendInLoop.                                                 *)

\* What the types say of what a write changes.
WriteTypes ==
    /\ sndQueue \in Seq(Units) /\ Len(sndQueue) <= SendBuffer
    /\ sockError \in {"none", "pending", "reported"}
    /\ phase \in {"poll", "handle", "killed"}

\* write(2) takes a beginning of the data, all of it unless the socket is full or
\* has an error, and fits it into the send buffer.
LEMMA WriteEffect ==
    ASSUME TypeOK, NEW data \in Seq(Units), Write(data)
    PROVE  /\ WriteTypes'
           /\ Taken(data) \in 0..Len(data)
           /\ sndQueue' = sndQueue \o First(data, Taken(data))
           /\ Taken(data) = 0 => data = <<>> \/ Room = 0 \/ sockError' # "none"
<1>1. /\ sndQueue \in Seq(Units) /\ Len(sndQueue) <= SendBuffer
      /\ sockError \in {"none", "pending", "reported"}
      /\ phase \in {"poll", "handle", "killed"}
    BY Zenon DEF TypeOK
<1>2. Len(sndQueue) \in Nat /\ Len(data) \in Nat /\ SendBuffer \in Nat
    BY <1>1, ConstantsAssumption
<1>3. Room \in Nat
    BY <1>1, <1>2 DEF Room
<1>4. Taken(data) \in 0..Len(data) /\ Taken(data) <= Room
    BY <1>2, <1>3 DEF Taken, Smaller
<1>5. Taken(data) = 0 => data = <<>> \/ Room = 0 \/ sockError # "none"
    BY <1>2, <1>3 DEF Taken, Smaller
<1>6. /\ sndQueue' = sndQueue \o First(data, Taken(data))
      /\ sockError' = IF sockError = "none" THEN "none" ELSE "reported"
      /\ phase' = IF sockError = "reported" THEN "killed" ELSE phase
    BY Zenon DEF Write
<1>7. PICK a \in Seq(Units) : a = First(data, Taken(data)) /\ Len(a) = Taken(data)
    BY <1>4, Split
<1>8. sndQueue' \in Seq(Units) /\ Len(sndQueue') = Len(sndQueue) + Len(a)
    BY <1>1, <1>6, <1>7, ConcatProperties
<1>9. Len(sndQueue') <= SendBuffer
    BY <1>2, <1>4, <1>7, <1>8 DEF Room
<1> QED
    BY <1>1, <1>4, <1>5, <1>6, <1>8, <1>9 DEF WriteTypes

\* sendInLoop either keeps the data behind what is under way, in the socket or in
\* outputBuffer_, or drops it: only behind other output, or when the socket is
\* full or has an error.
LEMMA SendEffect ==
    ASSUME TypeOK, WritingIffOutput, NEW data \in Seq(Units), SendInLoop(data)
    PROVE  /\ WriteTypes'
           /\ output' \in Seq(Units) /\ writing' \in BOOLEAN
           /\ writing' <=> output' # <<>>
           /\ \/ sndQueue' \o output' = (sndQueue \o output) \o data
              \/ /\ sndQueue' \o output' = (sndQueue \o output) \o <<>>
                 /\ output # <<>> \/ Room = 0 \/ sockError' # "none"
<1>1. /\ sndQueue \in Seq(Units) /\ output \in Seq(Units) /\ writing \in BOOLEAN
      /\ WriteTypes
    BY Zenon DEF TypeOK, WriteTypes
<1>2. writing <=> output # <<>>
    BY Zenon DEF WritingIffOutput
<1>3. /\ IF MayWrite THEN Write(data) ELSE NoWrite
      /\ output' = output \o Remaining(data)
      /\ writing' = (writing \/ Remaining(data) # <<>>)
    BY Zenon DEF SendInLoop
<1>4. sndQueue \o <<>> = sndQueue /\ output \o <<>> = output /\ <<>> \in Seq(Units)
    BY <1>1, ConcatEmptySeq
<1>5. (sndQueue \o output) \o <<>> = sndQueue \o output
  <2>1. sndQueue \o output \in Seq(Units)
      BY <1>1, ConcatProperties
  <2> QED
      BY <2>1, ConcatEmptySeq
<1>6. CASE MayWrite /\ Taken(data) > 0
  <2>1. output = <<>> /\ writing = FALSE
      BY <1>1, <1>6 DEF MayWrite
  <2>2. Write(data)
      BY <1>3, <1>6
  <2>3. /\ WriteTypes' /\ Taken(data) \in 0..Len(data)
        /\ sndQueue' = sndQueue \o First(data, Taken(data))
      BY <2>2, WriteEffect
  <2>4. PICK a \in Seq(Units), b \in Seq(Units) :
          a = First(data, Taken(data)) /\ b = Rest(data, Taken(data)) /\ a \o b = data
    <3>1. /\ First(data, Taken(data)) \in Seq(Units) /\ Rest(data, Taken(data)) \in Seq(Units)
          /\ First(data, Taken(data)) \o Rest(data, Taken(data)) = data
        BY <2>3, Split
    <3> QED
        BY <3>1, Zenon
  <2>5. Remaining(data) = b
      BY <1>6, <2>4 DEF Remaining
  <2>6. output' = b
    <3>1. <<>> \o b = b
        BY ConcatEmptySeq
    <3> QED
        BY <1>3, <2>1, <2>5, <3>1
  <2>7. writing' = (b # <<>>)
      BY <1>3, <2>1, <2>5, Zenon
  <2>8. Regroups(sndQueue, a, b)
      BY <1>1, Regroup
  <2>9. sndQueue' \o output' = (sndQueue \o output) \o data
      BY <1>4, <2>1, <2>3, <2>4, <2>6, <2>8, Zenon DEF Regroups
  <2> QED
      BY <2>3, <2>6, <2>7, <2>9
<1>7. CASE MayWrite /\ ~(Taken(data) > 0)
  <2>1. Write(data)
      BY <1>3, <1>7
  <2>2. /\ WriteTypes' /\ Taken(data) \in 0..Len(data)
        /\ sndQueue' = sndQueue \o First(data, Taken(data))
        /\ Taken(data) = 0 => data = <<>> \/ Room = 0 \/ sockError' # "none"
      BY <2>1, WriteEffect
  <2>3. Taken(data) = 0
      BY <1>7, <2>2
  <2>4. First(data, 0) = <<>>
    <3>1. 0 \in 0..Len(data)
        OBVIOUS
    <3> QED
        BY <3>1, Split
  <2>5. Remaining(data) = <<>>
      BY <1>7 DEF Remaining
  <2>6. sndQueue' = sndQueue /\ output' = output /\ writing' = writing
      BY <1>1, <1>3, <1>4, <2>2, <2>3, <2>4, <2>5
  <2>7. sndQueue' \o output' = (sndQueue \o output) \o <<>>
      BY <1>5, <2>6
  <2>8. CASE data = <<>>
      BY <1>1, <1>2, <2>2, <2>6, <2>7, <2>8
  <2>9. CASE data # <<>>
      BY <1>1, <1>2, <2>2, <2>3, <2>6, <2>7, <2>9
  <2> QED
      BY <2>8, <2>9
<1>8. CASE ~MayWrite
  <2>1. output # <<>>
      BY <1>2, <1>8 DEF MayWrite
  <2>2. Remaining(data) = <<>>
      BY <1>8 DEF Remaining
  <2>3. /\ sndQueue' = sndQueue /\ sockError' = sockError /\ phase' = phase
        /\ output' = output /\ writing' = writing
      BY <1>1, <1>2, <1>3, <1>4, <1>8, <2>1, <2>2 DEF NoWrite
  <2>4. sndQueue' \o output' = (sndQueue \o output) \o <<>>
      BY <1>5, <2>3
  <2> QED
      BY <1>1, <1>2, <2>1, <2>3, <2>4 DEF WriteTypes
<1> QED
    BY <1>6, <1>7, <1>8

\* handleWrite moves output to the socket, and the channel waits to write just when
\* some is left.
LEMMA HandleWriteEffect ==
    ASSUME TypeOK, WritingIffOutput, HandleWrite
    PROVE  /\ WriteTypes'
           /\ output' \in Seq(Units) /\ writing' \in BOOLEAN
           /\ writing' <=> output' # <<>>
           /\ sndQueue' \o output' = (sndQueue \o output) \o <<>>
           /\ fin' \in BOOLEAN
           /\ fin' => fin \/ (output' = <<>> /\ state = "KDisconnecting")
<1>1. /\ sndQueue \in Seq(Units) /\ output \in Seq(Units) /\ writing \in BOOLEAN
      /\ WriteTypes /\ fin \in BOOLEAN
    BY Zenon DEF TypeOK, WriteTypes
<1>2. writing <=> output # <<>>
    BY Zenon DEF WritingIffOutput
<1>3. (sndQueue \o output) \o <<>> = sndQueue \o output
  <2>1. sndQueue \o output \in Seq(Units)
      BY <1>1, ConcatProperties
  <2> QED
      BY <2>1, ConcatEmptySeq
<1>4. CASE ~writing
  <2>1. /\ sndQueue' = sndQueue /\ sockError' = sockError /\ phase' = phase
        /\ output' = output /\ writing' = writing /\ fin' = fin
      BY <1>4 DEF HandleWrite, NoWrite
  <2> QED
      BY <1>1, <1>2, <1>3, <2>1 DEF WriteTypes
<1>5. CASE writing
  <2>1. /\ Write(output)
        /\ output' = Rest(output, Taken(output))
        /\ writing' = (output' # <<>>)
        /\ IF output' = <<>> /\ state = "KDisconnecting"
             THEN ShutdownInLoop(writing') ELSE UNCHANGED fin
      BY <1>5, Zenon DEF HandleWrite
  <2>2. /\ WriteTypes' /\ Taken(output) \in 0..Len(output)
        /\ sndQueue' = sndQueue \o First(output, Taken(output))
      BY <1>1, <2>1, WriteEffect
  <2>3. PICK a \in Seq(Units), b \in Seq(Units) :
          a = First(output, Taken(output)) /\ b = Rest(output, Taken(output)) /\ a \o b = output
    <3>1. /\ First(output, Taken(output)) \in Seq(Units)
          /\ Rest(output, Taken(output)) \in Seq(Units)
          /\ First(output, Taken(output)) \o Rest(output, Taken(output)) = output
        BY <1>1, <2>2, Split
    <3> QED
        BY <3>1, Zenon
  <2>4. Regroups(sndQueue, a, b)
      BY <1>1, Regroup
  <2>5. sndQueue' \o output' = (sndQueue \o output) \o <<>>
      BY <1>3, <2>1, <2>2, <2>3, <2>4, Zenon DEF Regroups
  <2>6. fin' \in BOOLEAN /\ (fin' => fin \/ (output' = <<>> /\ state = "KDisconnecting"))
      BY <1>1, <2>1 DEF ShutdownInLoop
  <2> QED
      BY <2>1, <2>2, <2>3, <2>5, <2>6
<1> QED
    BY <1>4, <1>5

-----------------------------------------------------------------------------
(* The steps.                                                               *)

\* What the types say of the queues, and of the rest.
QueueTypes ==
    /\ sent \in 0..MaxUnits
    /\ rcvQueue \in Seq(Units) /\ input \in Seq(Units) /\ output \in Seq(Units)
    /\ received \in Seq(Units)

StateTypes ==
    /\ writing \in BOOLEAN /\ fin \in BOOLEAN
    /\ peer \in {"open", "closed", "reset"}
    /\ state \in {"KConnected", "KDisconnecting", "closed"}
    /\ revents \in SUBSET {"error", "read", "write"}
    /\ state = "KConnected" => input = <<>>

\* What a step may do to the units under way: nothing, add the next one, or lose
\* some, for one of the reasons DropsOnlyWhenFull names.
UnitStep ==
    \/ inTransit' = inTransit /\ sent' = sent
    \/ inTransit' = inTransit \o <<sent + 1>> /\ sent' = sent + 1
    \/ /\ InOrderUpTo(inTransit', sent) /\ sent' = sent
       /\ output # <<>> \/ Room = 0 \/ sockError' # "none" \/ state' = "closed"

\* What is to be shown of a step.
GoodStep ==
    /\ QueueTypes' /\ WriteTypes' /\ StateTypes'
    /\ WritingIffOutput' /\ FinAfterOutput'
    /\ UnitStep

\* The invariant in parts.
LEMMA Parts ==
    ASSUME IInv
    PROVE  /\ TypeOK /\ QueueTypes /\ WriteTypes /\ StateTypes
           /\ WritingIffOutput /\ FinAfterOutput /\ InOrderUpTo(inTransit, sent)
<1>1. TypeOK /\ WritingIffOutput /\ FinAfterOutput /\ OrderKept /\ SentSoFar
    BY Zenon DEF IInv
<1> QED
    BY <1>1, InOrderIs, Zenon DEF TypeOK, QueueTypes, WriteTypes, StateTypes

\* Sequences of units are sequences of numbers.
LEMMA NumberedUnits ==
    ASSUME NEW s \in Seq(Units)
    PROVE  s \in Seq(Nat)
<1>1. Units \subseteq Nat
    BY DEF Units
<1> QED
    BY <1>1, LargerSet

\* What is under way after a step.
LEMMA InTransitNext ==
    inTransit' = Chain(received', sndQueue', output', input', rcvQueue')
  BY Zenon DEF inTransit, Chain

\* Steps that leave the queues alone.
LEMMA QuietStep ==
    ASSUME IInv, UNCHANGED <<sent, rcvQueue, input, output, sndQueue, received, writing>>,
           StateTypes', WriteTypes', FinAfterOutput'
    PROVE  GoodStep
<1>1. QueueTypes' /\ WritingIffOutput'
    BY Parts DEF QueueTypes, WritingIffOutput
<1>2. inTransit' = inTransit
    BY InTransitNext, UnitTypes, Parts
<1> QED
    BY <1>1, <1>2 DEF GoodStep, UnitStep

\* They are these.
LEMMA QuietSteps ==
    ASSUME IInv,
           \/ UNCHANGED vars \/ ClientCloses \/ Poll \/ ErrorCallback \/ EndEvent \/ Shutdown
           \/ (ReadCallback /\ ReadError)
    PROVE  GoodStep
<1>1. WriteTypes /\ StateTypes /\ FinAfterOutput /\ WritingIffOutput
    BY Parts
<1>2. CASE UNCHANGED vars
  <2>1. /\ UNCHANGED <<sent, rcvQueue, input, output, sndQueue, received, writing>>
        /\ StateTypes' /\ WriteTypes' /\ FinAfterOutput'
      BY <1>1, <1>2 DEF vars, clientVars, serverVars, StateTypes, WriteTypes, FinAfterOutput
  <2> QED
      BY <2>1, QuietStep
<1>3. CASE ClientCloses
  <2>1. /\ UNCHANGED <<sent, rcvQueue, input, output, sndQueue, received, writing>>
        /\ StateTypes' /\ WriteTypes' /\ FinAfterOutput'
      BY <1>1, <1>3 DEF clientVars, serverVars, ClientCloses, StateTypes, WriteTypes,
                        FinAfterOutput
  <2> QED
      BY <2>1, QuietStep
<1>4. CASE EndEvent
  <2>1. /\ UNCHANGED <<sent, rcvQueue, input, output, sndQueue, received, writing>>
        /\ StateTypes' /\ WriteTypes' /\ FinAfterOutput'
      BY <1>1, <1>4 DEF clientVars, serverVars, EndEvent, StateTypes, WriteTypes,
                        FinAfterOutput
  <2> QED
      BY <2>1, QuietStep
<1>5. CASE Poll
  <2>1. /\ UNCHANGED <<sent, rcvQueue, input, output, sndQueue, received, writing>>
        /\ StateTypes' /\ WriteTypes' /\ FinAfterOutput'
      BY <1>1, <1>5 DEF clientVars, serverVars, Poll, Ready, StateTypes, WriteTypes,
                        FinAfterOutput
  <2> QED
      BY <2>1, QuietStep
<1>6. CASE ErrorCallback
  <2>1. /\ UNCHANGED <<sent, rcvQueue, input, output, sndQueue, received, writing>>
        /\ StateTypes' /\ WriteTypes' /\ FinAfterOutput'
      BY <1>1, <1>6 DEF clientVars, serverVars, ErrorCallback, StateTypes, WriteTypes,
                        FinAfterOutput
  <2> QED
      BY <2>1, QuietStep
<1>7. CASE ReadCallback /\ ReadError
  <2>1. /\ UNCHANGED <<sent, rcvQueue, input, output, sndQueue, received, writing>>
        /\ UNCHANGED <<peer, state, fin, phase>>
        /\ sockError' = "reported" /\ revents' = revents \ {"read"}
      BY <1>7, Zenon DEF clientVars, serverVars, ReadCallback, ReadError
  <2>2. StateTypes' /\ WriteTypes' /\ FinAfterOutput'
      BY <1>1, <2>1 DEF StateTypes, WriteTypes, FinAfterOutput
  <2> QED
      BY <2>1, <2>2, QuietStep
<1>8. CASE Shutdown
  <2>1. /\ UNCHANGED <<sent, rcvQueue, input, output, sndQueue, received, writing>>
        /\ UNCHANGED <<peer, sockError, phase, revents>>
        /\ state' = "KDisconnecting" /\ fin' = (fin \/ ~writing)
      BY <1>8, Zenon DEF clientVars, Shutdown, ShutdownInLoop
  <2>2. /\ writing \in BOOLEAN /\ fin \in BOOLEAN
        /\ peer \in {"open", "closed", "reset"}
        /\ revents \in SUBSET {"error", "read", "write"}
      BY <1>1, Zenon DEF StateTypes
  <2>3. fin' \in BOOLEAN
      BY <2>1, Zenon
  <2>4. StateTypes'
      BY <2>1, <2>2, <2>3 DEF StateTypes
  <2>5. WriteTypes'
      BY <1>1, <2>1 DEF WriteTypes
  <2>6. FinAfterOutput'
    <3>1. (writing <=> output # <<>>) /\ (fin => output = <<>>)
        BY <1>1, Zenon DEF WritingIffOutput, FinAfterOutput
    <3>2. fin' => output' = <<>>
        BY <2>1, <3>1, Zenon
    <3>3. state' # "KConnected"
        BY <2>1
    <3> QED
        BY <3>2, <3>3, Zenon DEF FinAfterOutput
  <2> QED
      BY <2>1, <2>4, <2>5, <2>6, QuietStep
<1> QED
    BY <1>2, <1>3, <1>4, <1>5, <1>6, <1>7, <1>8, Zenon

\* The client's steps.
LEMMA ClientSteps ==
    ASSUME IInv, ClientSends \/ ClientReceives \/ ClientResets
    PROVE  GoodStep
<1>1. /\ TypeOK /\ QueueTypes /\ WriteTypes /\ StateTypes
      /\ FinAfterOutput /\ WritingIffOutput /\ InOrderUpTo(inTransit, sent)
    BY Parts
<1>2. /\ received \in Seq(Nat) /\ sndQueue \in Seq(Nat) /\ output \in Seq(Nat)
      /\ input \in Seq(Nat) /\ rcvQueue \in Seq(Nat)
      /\ inTransit = Chain(received, sndQueue, output, input, rcvQueue)
      /\ received \in Seq(Units) /\ sndQueue \in Seq(Units)
      /\ rcvQueue \in Seq(Units) /\ sent \in Nat
    BY <1>1, UnitTypes
<1>3. CASE ClientSends
  <2>1. /\ sent < MaxUnits /\ sent' = sent + 1 /\ rcvQueue' = Append(rcvQueue, sent + 1)
        /\ UNCHANGED <<received, sndQueue, output, input>>
        /\ UNCHANGED <<peer, writing, state, fin, sockError, phase, revents>>
      BY <1>3 DEF ClientSends, serverVars
  <2>2. /\ sent + 1 \in Units /\ sent' \in 0..MaxUnits /\ <<sent + 1>> \in Seq(Nat)
        /\ rcvQueue' = rcvQueue \o <<sent + 1>> /\ rcvQueue' \in Seq(Units)
      BY <1>2, <2>1, ConstantsAssumption DEF Units
  <2>3. QueueTypes' /\ WriteTypes' /\ StateTypes' /\ FinAfterOutput' /\ WritingIffOutput'
      BY <1>1, <2>1, <2>2
         DEF QueueTypes, WriteTypes, StateTypes, FinAfterOutput, WritingIffOutput
  <2>4. Reads(received, sndQueue, output, input, rcvQueue, <<sent + 1>>)
      BY <1>2, <2>2, ChainReads
  <2>5. inTransit' = inTransit \o <<sent + 1>>
      BY <1>2, <2>1, <2>2, <2>4, InTransitNext, Zenon DEF Reads
  <2> QED
      BY <2>1, <2>3, <2>5, Zenon DEF GoodStep, UnitStep
<1>4. CASE ClientReceives
  <2>1. /\ sndQueue # <<>> /\ received' = Append(received, Head(sndQueue))
        /\ sndQueue' = Tail(sndQueue)
        /\ UNCHANGED <<sent, output, input, rcvQueue>>
        /\ UNCHANGED <<peer, writing, state, fin, sockError, phase, revents>>
      BY <1>4 DEF ClientReceives, serverVars
  <2>2. PICK h \in Units, t \in Seq(Units) : h = Head(sndQueue) /\ t = Tail(sndQueue)
      BY <1>2, <2>1, HeadTailProperties
  <2>3. /\ sndQueue = <<h>> \o t /\ <<h>> \in Seq(Units)
        /\ received' = received \o <<h>> /\ received' \in Seq(Units)
        /\ Len(t) <= Len(sndQueue) /\ Len(t) \in Nat
      BY <1>2, <2>1, <2>2
  <2>4. t \in Seq(Nat) /\ <<h>> \in Seq(Nat)
      BY <2>2, <2>3, NumberedUnits
  <2>5. Regroups(received, <<h>>, t)
      BY <1>2, <2>4, Regroup
  <2>6. received' \o sndQueue' = received \o sndQueue
      BY <2>1, <2>2, <2>3, <2>5, Zenon DEF Regroups
  <2>7. inTransit' = inTransit
      BY <1>2, <2>1, <2>6, InTransitNext, Zenon DEF Chain
  <2>8. QueueTypes' /\ StateTypes' /\ FinAfterOutput' /\ WritingIffOutput'
      BY <1>1, <2>1, <2>3
         DEF QueueTypes, StateTypes, FinAfterOutput, WritingIffOutput
  <2>9. WriteTypes'
      BY <1>1, <1>2, <2>1, <2>2, <2>3, ConstantsAssumption DEF WriteTypes
  <2> QED
      BY <2>1, <2>7, <2>8, <2>9, Zenon DEF GoodStep, UnitStep
<1>5. CASE ClientResets
  <2>1. /\ peer' = "reset" /\ sockError' = "pending" /\ sndQueue' = <<>>
        /\ UNCHANGED <<sent, received, output, input, rcvQueue>>
        /\ UNCHANGED <<writing, state, fin, phase, revents>>
      BY <1>5 DEF ClientResets, serverVars
  <2>2. QueueTypes' /\ WriteTypes' /\ StateTypes' /\ FinAfterOutput' /\ WritingIffOutput'
      BY <1>1, <2>1, ConstantsAssumption
         DEF QueueTypes, WriteTypes, StateTypes, FinAfterOutput, WritingIffOutput
  <2>3. InOrderUpTo(Chain(received, <<>>, output, input, rcvQueue), sent)
      BY <1>1, <1>2, ChainLoses
  <2>4. InOrderUpTo(inTransit', sent)
      BY <2>1, <2>3, InTransitNext
  <2>5. sockError' # "none"
      BY <2>1
  <2> QED
      BY <2>1, <2>2, <2>4, <2>5, Zenon DEF GoodStep, UnitStep
<1> QED
    BY <1>3, <1>4, <1>5

\* A connection that closes.
LEMMA CloseStep ==
    ASSUME IInv, HandleClose, UNCHANGED <<sent, received, peer>>,
           revents' \in SUBSET {"error", "read", "write"}
    PROVE  GoodStep
<1>1. /\ TypeOK /\ QueueTypes /\ WriteTypes /\ StateTypes
      /\ FinAfterOutput /\ WritingIffOutput /\ InOrderUpTo(inTransit, sent)
    BY Parts
<1>2. /\ received \in Seq(Nat) /\ sndQueue \in Seq(Nat) /\ output \in Seq(Nat)
      /\ input \in Seq(Nat) /\ rcvQueue \in Seq(Nat)
      /\ inTransit = Chain(received, sndQueue, output, input, rcvQueue)
    BY <1>1, UnitTypes
<1>3. /\ state' = "closed" /\ input' = <<>> /\ output' = <<>> /\ writing' = FALSE
      /\ rcvQueue' = <<>>
      /\ UNCHANGED <<sndQueue, fin, sockError, phase>>
    BY DEF HandleClose
<1>4. QueueTypes' /\ WriteTypes' /\ StateTypes' /\ FinAfterOutput' /\ WritingIffOutput'
  <2>1. QueueTypes' /\ WriteTypes'
      BY <1>1, <1>3 DEF QueueTypes, WriteTypes
  <2>2. StateTypes'
      BY <1>1, <1>3 DEF StateTypes
  <2>3. FinAfterOutput' /\ WritingIffOutput'
      BY <1>3 DEF FinAfterOutput, WritingIffOutput
  <2> QED
      BY <2>1, <2>2, <2>3
<1>5. InOrderUpTo(Chain(received, sndQueue, <<>>, <<>>, <<>>), sent)
    BY <1>1, <1>2, ChainLoses
<1>6. InOrderUpTo(inTransit', sent)
    BY <1>3, <1>5, InTransitNext
<1> QED
    BY <1>3, <1>4, <1>6, Zenon DEF GoodStep, UnitStep

\* A write callback.
LEMMA WriteStep ==
    ASSUME IInv, WriteCallback
    PROVE  GoodStep
<1>1. /\ TypeOK /\ QueueTypes /\ WriteTypes /\ StateTypes
      /\ FinAfterOutput /\ WritingIffOutput
    BY Parts
<1>2. /\ received \in Seq(Nat) /\ sndQueue \in Seq(Nat) /\ output \in Seq(Nat)
      /\ input \in Seq(Nat) /\ rcvQueue \in Seq(Nat)
      /\ inTransit = Chain(received, sndQueue, output, input, rcvQueue)
    BY <1>1, UnitTypes
<1>3. /\ HandleWrite /\ revents' = {}
      /\ UNCHANGED <<sent, received, peer, rcvQueue, input, state>>
    BY Zenon DEF WriteCallback, clientVars
<1>4. /\ WriteTypes'
      /\ output' \in Seq(Units) /\ writing' \in BOOLEAN
      /\ writing' <=> output' # <<>>
      /\ sndQueue' \o output' = (sndQueue \o output) \o <<>>
      /\ fin' \in BOOLEAN
      /\ fin' => fin \/ (output' = <<>> /\ state = "KDisconnecting")
    BY <1>1, <1>3, HandleWriteEffect
<1>5. QueueTypes'
    BY <1>1, <1>3, <1>4 DEF QueueTypes
<1>6. StateTypes'
    BY <1>1, <1>3, <1>4 DEF StateTypes
<1>7. WritingIffOutput'
    BY <1>4, Zenon DEF WritingIffOutput
<1>8. PICK t, p : t = sndQueue' /\ p = output'
    OBVIOUS
<1>9. t \in Seq(Nat) /\ p \in Seq(Nat)
  <2>1. t \in Seq(Units) /\ p \in Seq(Units)
      BY <1>4, <1>8, Zenon DEF WriteTypes
  <2> QED
      BY <2>1, NumberedUnits
<1>10. Moves(sndQueue, output, <<>>, t, p) /\ <<>> \in Seq(Nat)
    BY <1>4, <1>8 DEF Moves
<1>11. Stays(received, sndQueue, output, input, rcvQueue, <<>>, t, p)
    BY <1>2, <1>9, <1>10, ChainSends
<1>12. <<>> \o input = input
    BY <1>2, ConcatEmptySeq
<1>13. inTransit' = inTransit
    BY <1>2, <1>3, <1>8, <1>11, <1>12, InTransitNext, Zenon DEF Stays
<1>14. FinAfterOutput'
  <2>1. CASE fin /\ output = <<>> /\ state # "KConnected"
    <3>1. ~writing
        BY <1>1, <2>1 DEF WritingIffOutput
    <3>2. output' = output
        BY <1>3, <3>1 DEF HandleWrite
    <3> QED
        BY <1>3, <2>1, <3>2 DEF FinAfterOutput
  <2>2. CASE ~fin
      BY <1>3, <1>4, <2>2 DEF FinAfterOutput
  <2> QED
      BY <1>1, <2>1, <2>2 DEF FinAfterOutput
<1> QED
    BY <1>3, <1>4, <1>5, <1>6, <1>7, <1>13, <1>14, Zenon DEF GoodStep, UnitStep

\* A read callback with data.
LEMMA ReadStep ==
    ASSUME IInv, NEW n \in 1..Len(rcvQueue), ReadData(n),
           UNCHANGED <<sent, received, peer>>,
           revents' \in SUBSET {"error", "read", "write"}
    PROVE  GoodStep
<1>1. /\ TypeOK /\ QueueTypes /\ WriteTypes /\ StateTypes
      /\ FinAfterOutput /\ WritingIffOutput /\ InOrderUpTo(inTransit, sent)
    BY Parts
<1>2. /\ received \in Seq(Nat) /\ sndQueue \in Seq(Nat) /\ output \in Seq(Nat)
      /\ input \in Seq(Nat) /\ rcvQueue \in Seq(Nat)
      /\ inTransit = Chain(received, sndQueue, output, input, rcvQueue)
      /\ input \in Seq(Units) /\ rcvQueue \in Seq(Units)
    BY <1>1, UnitTypes
<1>3. PICK f \in Seq(Units), l \in Seq(Units) :
        f = First(rcvQueue, n) /\ l = Rest(rcvQueue, n) /\ f \o l = rcvQueue
  <2>1. n \in 0..Len(rcvQueue)
      BY <1>2
  <2>2. /\ First(rcvQueue, n) \in Seq(Units) /\ Rest(rcvQueue, n) \in Seq(Units)
        /\ First(rcvQueue, n) \o Rest(rcvQueue, n) = rcvQueue
      BY <1>2, <2>1, Split
  <2> QED
      BY <2>2, Zenon
<1>4. f \in Seq(Nat) /\ l \in Seq(Nat)
    BY NumberedUnits
<1>5. /\ rcvQueue' = l /\ UNCHANGED <<state, fin>>
      /\ state = "KConnected" => SendInLoop(input \o f) /\ input' = <<>>
      /\ state # "KConnected" =>
           input' = input \o f /\ NoWrite /\ UNCHANGED <<output, writing>>
    BY <1>3, Zenon DEF ReadData
<1>6. PICK d \in Seq(Units) : d = input \o f
    BY <1>2, <1>3, ConcatProperties
<1>7. d \in Seq(Nat)
    BY NumberedUnits
<1>8. inTransit = Chain(received, sndQueue, output, d, l)
  <2>1. Reads(received, sndQueue, output, input, l, f)
      BY <1>2, <1>4, ChainReads
  <2> QED
      BY <1>2, <1>3, <1>6, <2>1, Zenon DEF Reads
<1>9. CASE state # "KConnected"
  <2>1. /\ rcvQueue' = l /\ input' = d
        /\ UNCHANGED <<sent, received, peer, sndQueue, output, writing, state, fin,
                       sockError, phase>>
      BY <1>5, <1>6, <1>9 DEF NoWrite
  <2>2. inTransit' = inTransit
      BY <1>8, <2>1, InTransitNext
  <2>3. QueueTypes' /\ WriteTypes' /\ StateTypes' /\ FinAfterOutput' /\ WritingIffOutput'
      BY <1>1, <1>9, <2>1
         DEF QueueTypes, WriteTypes, StateTypes, FinAfterOutput, WritingIffOutput
  <2> QED
      BY <2>1, <2>2, <2>3, Zenon DEF GoodStep, UnitStep
<1>10. CASE state = "KConnected"
  <2>1. SendInLoop(d) /\ input' = <<>> /\ input = <<>>
      BY <1>1, <1>5, <1>6, <1>10 DEF StateTypes
  <2>2. /\ WriteTypes'
        /\ output' \in Seq(Units) /\ writing' \in BOOLEAN
        /\ writing' <=> output' # <<>>
        /\ \/ sndQueue' \o output' = (sndQueue \o output) \o d
           \/ /\ sndQueue' \o output' = (sndQueue \o output) \o <<>>
              /\ output # <<>> \/ Room = 0 \/ sockError' # "none"
      BY <1>1, <2>1, SendEffect
  <2>3. ~fin
      BY <1>1, <1>10 DEF FinAfterOutput
  <2>4. QueueTypes' /\ StateTypes' /\ WritingIffOutput' /\ FinAfterOutput'
    <3>1. QueueTypes'
        BY <1>1, <1>5, <2>1, <2>2 DEF QueueTypes
    <3>2. StateTypes'
        BY <1>1, <1>5, <2>1, <2>2 DEF StateTypes
    <3>3. WritingIffOutput'
        BY <2>2, Zenon DEF WritingIffOutput
    <3>4. FinAfterOutput'
        BY <1>5, <2>3 DEF FinAfterOutput
    <3> QED
        BY <3>1, <3>2, <3>3, <3>4
  <2>5. PICK t, p : t = sndQueue' /\ p = output'
      OBVIOUS
  <2>6. t \in Seq(Nat) /\ p \in Seq(Nat)
    <3>1. t \in Seq(Units) /\ p \in Seq(Units)
        BY <2>2, <2>5, Zenon DEF WriteTypes
    <3> QED
        BY <3>1, NumberedUnits
  <2>7. inTransit' = Chain(received, t, p, <<>>, l)
      BY <1>5, <2>1, <2>5, InTransitNext
  <2>8. d \o <<>> = d /\ <<>> \o <<>> = <<>> /\ <<>> \in Seq(Nat)
      BY <1>7, ConcatEmptySeq
  <2>9. CASE Moves(sndQueue, output, d, t, p)
    <3>1. Stays(received, sndQueue, output, <<>>, l, d, t, p)
        BY <1>2, <1>4, <1>7, <2>6, <2>8, <2>9, ChainSends
    <3>2. inTransit' = inTransit
        BY <1>8, <2>7, <2>8, <3>1, Zenon DEF Stays
    <3> QED
        BY <2>2, <2>4, <3>2, Zenon DEF GoodStep, UnitStep
  <2>10. CASE /\ Moves(sndQueue, output, <<>>, t, p)
              /\ output # <<>> \/ Room = 0 \/ sockError' # "none"
    <3>1. Stays(received, sndQueue, output, <<>>, l, <<>>, t, p)
        BY <1>2, <1>4, <2>6, <2>8, <2>10, ChainSends
    <3>2. InOrderUpTo(Chain(received, sndQueue, output, d, l), sent)
        BY <1>1, <1>8
    <3>3. InOrderUpTo(Chain(received, sndQueue, output, <<>>, l), sent)
        BY <1>2, <1>4, <1>7, <3>2, ChainLoses
    <3>4. InOrderUpTo(inTransit', sent)
        BY <2>7, <2>8, <3>1, <3>3, Zenon DEF Stays
    <3> QED
        BY <2>2, <2>4, <2>10, <3>4, Zenon DEF GoodStep, UnitStep
  <2> QED
      BY <2>2, <2>5, <2>9, <2>10, Zenon DEF Moves
<1> QED
    BY <1>9, <1>10

\* Every step is a good one.
LEMMA StepEffect ==
    ASSUME IInv, [Next]_vars
    PROVE  GoodStep
<1>1. revents \in SUBSET {"error", "read", "write"}
    BY Parts, Zenon DEF StateTypes
<1>2. CASE ReadCallback
  <2>1. /\ UNCHANGED <<sent, received, peer>>
        /\ revents' \in SUBSET {"error", "read", "write"}
      BY <1>1, <1>2 DEF ReadCallback, clientVars
  <2>2. CASE ReadError
      BY <1>2, <2>2, QuietSteps
  <2>3. CASE ReadEnd
    <3>1. HandleClose
        BY <2>3 DEF ReadEnd
    <3> QED
        BY <2>1, <3>1, CloseStep
  <2>4. CASE \E n \in 1..Len(rcvQueue) : ReadData(n)
    <3>1. PICK n \in 1..Len(rcvQueue) : ReadData(n)
        BY <2>4
    <3> QED
        BY <2>1, <3>1, ReadStep
  <2> QED
      BY <1>2, <2>2, <2>3, <2>4, Zenon DEF ReadCallback
<1>3. CASE ForceClose
  <2>1. /\ HandleClose /\ UNCHANGED <<sent, received, peer>>
        /\ revents' \in SUBSET {"error", "read", "write"}
      BY <1>1, <1>3 DEF ForceClose, clientVars
  <2> QED
      BY <2>1, CloseStep
<1>4. CASE ClientSends \/ ClientReceives \/ ClientResets
    BY <1>4, ClientSteps
<1>5. CASE WriteCallback
    BY <1>5, WriteStep
<1>6. CASE \/ UNCHANGED vars \/ ClientCloses \/ Poll \/ ErrorCallback \/ EndEvent
           \/ Shutdown
    BY <1>6, QuietSteps
<1> QED
    BY <1>2, <1>3, <1>4, <1>5, <1>6, Zenon DEF Next, LoopStep

-----------------------------------------------------------------------------
(* The invariant.                                                           *)

\* It holds at the start.
LEMMA InitInvariant == Init => IInv
<1> SUFFICES ASSUME Init PROVE IInv
    OBVIOUS
<1>1. TypeOK
  <2>1. <<>> \in Seq(Units) /\ Len(<<>>) <= SendBuffer /\ 0 \in 0..MaxUnits
      BY ConstantsAssumption
  <2>2. /\ sent \in 0..MaxUnits
        /\ rcvQueue \in Seq(Units) /\ input \in Seq(Units) /\ output \in Seq(Units)
        /\ sndQueue \in Seq(Units) /\ Len(sndQueue) <= SendBuffer
        /\ received \in Seq(Units)
      BY <2>1 DEF Init
  <2>3. /\ writing \in BOOLEAN /\ fin \in BOOLEAN
        /\ peer \in {"open", "closed", "reset"}
        /\ sockError \in {"none", "pending", "reported"}
        /\ state \in {"KConnected", "KDisconnecting", "closed"}
        /\ phase \in {"poll", "handle", "killed"}
        /\ revents \in SUBSET {"error", "read", "write"}
        /\ state = "KConnected" => input = <<>>
      BY DEF Init
  <2> QED
      BY <2>2, <2>3, Zenon DEF TypeOK
<1>2. WritingIffOutput /\ FinAfterOutput
    BY DEF Init, WritingIffOutput, FinAfterOutput
<1>3. inTransit = <<>>
    BY DEF Init, inTransit
<1>4. OrderKept /\ SentSoFar
    BY <1>3 DEF OrderKept, SentSoFar, ToSet
<1> QED
    BY <1>1, <1>2, <1>4, Zenon DEF IInv

\* Every step keeps it.
LEMMA NextInvariant == IInv /\ [Next]_vars => IInv'
<1> SUFFICES ASSUME IInv, [Next]_vars PROVE IInv'
    OBVIOUS
<1>1. GoodStep
    BY StepEffect
<1>2. TypeOK'
    BY <1>1, Zenon DEF GoodStep, QueueTypes, WriteTypes, StateTypes, TypeOK
<1>3. InOrderUpTo(inTransit, sent) /\ inTransit \in Seq(Nat) /\ sent \in Nat
    BY Parts, UnitTypes
<1>4. InOrderUpTo(inTransit', sent')
  <2>1. CASE inTransit' = inTransit /\ sent' = sent
      BY <1>3, <2>1
  <2>2. CASE inTransit' = inTransit \o <<sent + 1>> /\ sent' = sent + 1
    <3>1. InOrderUpTo(inTransit \o <<sent + 1>>, sent + 1)
        BY <1>3, OrderGrows
    <3> QED
        BY <2>2, <3>1
  <2>3. CASE InOrderUpTo(inTransit', sent) /\ sent' = sent
      BY <2>3
  <2> QED
      BY <1>1, <2>1, <2>2, <2>3, Zenon DEF GoodStep, UnitStep
<1>5. OrderKept' /\ SentSoFar'
    BY <1>4, Zenon DEF OrderKept, SentSoFar, InOrderUpTo, Ascending
<1> QED
    BY <1>1, <1>2, <1>5, Zenon DEF GoodStep, IInv

\* It always holds.
LEMMA Invariance == SafeSpec => []IInv
  BY InitInvariant, NextInvariant, PTL DEF SafeSpec

-----------------------------------------------------------------------------
(* What a step may do.                                                      *)

\* After the end of the stream what the client has read or will read does not grow.
LEMMA AfterFin ==
    ASSUME IInv, fin, [Next]_vars
    PROVE  received' \o sndQueue' \in {received \o sndQueue, received}
<1>1. /\ ~writing /\ state # "KConnected"
      /\ received \in Seq(Units) /\ sndQueue \in Seq(Units)
  <2>1. /\ output = <<>> /\ state # "KConnected"
        /\ writing <=> output # <<>>
      BY Parts, Zenon DEF FinAfterOutput, WritingIffOutput
  <2> QED
      BY <2>1, Parts, UnitTypes
<1>2. CASE UNCHANGED <<received, sndQueue>>
    BY <1>2
<1>3. CASE ClientReceives
  <2>1. /\ sndQueue # <<>> /\ received' = Append(received, Head(sndQueue))
        /\ sndQueue' = Tail(sndQueue)
      BY <1>3, Zenon DEF ClientReceives
  <2>2. PICK h \in Units, t \in Seq(Units) : h = Head(sndQueue) /\ t = Tail(sndQueue)
      BY <1>1, <2>1, HeadTailProperties
  <2>3. /\ sndQueue = <<h>> \o t /\ <<h>> \in Seq(Units)
        /\ received' = received \o <<h>>
      BY <1>1, <2>1, <2>2
  <2>4. Regroups(received, <<h>>, t)
      BY <1>1, <2>3, Regroup
  <2>5. received' \o sndQueue' = received \o sndQueue
      BY <2>1, <2>2, <2>3, <2>4, Zenon DEF Regroups
  <2> QED
      BY <2>5
<1>4. CASE ClientResets
  <2>1. received' = received /\ sndQueue' = <<>>
      BY <1>4, Zenon DEF ClientResets
  <2>2. received \o <<>> = received
      BY <1>1, ConcatEmptySeq
  <2> QED
      BY <2>1, <2>2
<1>5. CASE UNCHANGED vars \/ ClientSends \/ ClientCloses
    BY <1>2, <1>5 DEF vars, clientVars, ClientSends, ClientCloses
<1>6. CASE Poll \/ ErrorCallback \/ EndEvent \/ Shutdown
    BY <1>2, <1>6 DEF clientVars, Poll, ErrorCallback, EndEvent, Shutdown
<1>7. CASE ReadCallback
  <2>1. UNCHANGED received
      BY <1>7, Zenon DEF ReadCallback, clientVars
  <2>2. ASSUME NEW n, ReadData(n) PROVE UNCHANGED sndQueue
      BY <1>1, <2>2, Zenon DEF ReadData, NoWrite
  <2>3. UNCHANGED sndQueue
      BY <1>7, <2>2, Zenon DEF ReadCallback, ReadError, ReadEnd, HandleClose
  <2> QED
      BY <1>2, <2>1, <2>3
<1>8. CASE WriteCallback \/ ForceClose
    BY <1>1, <1>2, <1>8, Zenon
       DEF WriteCallback, HandleWrite, NoWrite, ForceClose, HandleClose, clientVars
<1> QED
    BY <1>3, <1>4, <1>5, <1>6, <1>7, <1>8, Zenon DEF Next, LoopStep

\* Only the output that does not fit is dropped.
LEMMA DropStep ==
    ASSUME IInv, [Next]_vars, Len(inTransit') < Len(inTransit)
    PROVE  output # <<>> \/ Room = 0 \/ sockError' # "none" \/ state' = "closed"
<1>1. inTransit \in Seq(Nat) /\ sent \in Nat
    BY Parts, UnitTypes
<1>2. inTransit' # inTransit
    BY <1>1
<1>3. inTransit' # inTransit \o <<sent + 1>>
  <2>1. <<sent + 1>> \in Seq(Nat) /\ Len(<<sent + 1>>) = 1
      BY <1>1
  <2>2. Len(inTransit \o <<sent + 1>>) = Len(inTransit) + 1 /\ Len(inTransit) \in Nat
      BY <1>1, <2>1, ConcatProperties
  <2>3. ~(Len(inTransit \o <<sent + 1>>) < Len(inTransit))
      BY <2>2
  <2> QED
      BY <2>3, Zenon
<1> QED
    BY <1>2, <1>3, StepEffect, Zenon DEF GoodStep, UnitStep

-----------------------------------------------------------------------------
(* Results.                                                                 *)

\* The queues hold units of the client's stream, no more than fit the socket, and
\* a connection that is up keeps nothing of what it has read.
THEOREM TcpTyped == SafeSpec => []TypeOK
<1>1. IInv => TypeOK
    BY Zenon DEF IInv
<1> QED
    BY <1>1, Invariance, PTL

\* Whatever is lost, the client gets its units in the order it sent them, each at
\* most once (handleRead, sendInLoop and handleWrite).
THEOREM UnitsKeepOrder == SafeSpec => []OrderKept
<1>1. IInv => OrderKept
    BY Zenon DEF IInv
<1> QED
    BY <1>1, Invariance, PTL

\* The channel asks for EPOLLOUT exactly while outputBuffer_ is not empty
\* (enableWriting in sendInLoop, disableWriting in handleWrite and handleClose).
THEOREM WritesWhileOutput == SafeSpec => []WritingIffOutput
<1>1. IInv => WritingIffOutput
    BY Zenon DEF IInv
<1> QED
    BY <1>1, Invariance, PTL

\* shutdownWrite() comes after all of the output, and nothing is written after it.
THEOREM EndOfStreamLast == SafeSpec => FinIsLast
<1> DEFINE A == /\ fin' => output' = <<>>
                /\ fin => received' \o sndQueue' \in {received \o sndQueue, received}
<1>1. ASSUME IInv, IInv', [Next]_vars PROVE A
  <2>1. fin' => output' = <<>>
      BY <1>1, Zenon DEF IInv, FinAfterOutput
  <2> QED
      BY <1>1, <2>1, AfterFin, Zenon
<1>2. IInv /\ IInv' /\ [Next]_vars => [A]_vars
    BY <1>1, Zenon
<1> QED
    BY <1>2, Invariance, PTL DEF SafeSpec, FinIsLast

\* Units disappear only behind other output, when the socket is full or has an
\* error, or with the connection (sendInLoop, handleClose).
THEOREM DropsOnlyThen == SafeSpec => DropsOnlyWhenFull
<1> DEFINE A == Len(inTransit') < Len(inTransit) =>
                  output # <<>> \/ Room = 0 \/ sockError' # "none" \/ state' = "closed"
<1>1. IInv /\ [Next]_vars => [A]_vars
    BY DropStep, Zenon
<1> QED
    BY <1>1, Invariance, PTL DEF SafeSpec, DropsOnlyWhenFull
=============================================================================
