---------------------------- MODULE IoLoop_proofs ----------------------------
(* Proofs about IoLoop for any objects, free list, descriptors, idle limit  *)
(* and delay.                                                               *)
EXTENDS IoLoop, SequenceTheorems, FiniteSetTheorems, TLAPS

\* The loop thread works on channels only between poll and the functors, on the
\* functors only after that, and on timer callbacks only in the timerfd's event.
TurnOfTheLoop ==
    /\ phase \in {"poll", "functors"} => current = None /\ toHandle = {}
    /\ phase # "functors" => functors = <<>>
    /\ current # timerChannel => due = {}

\* A connection in use: its descriptor, and its channel registered for reading.
InUse(ch) ==
    /\ ch \in Connections
    /\ ch.state # "KConnecting" /\ ch.fd \in Fds
    /\ ch.index = "kAdded" /\ "read" \in ch.events

\* An object is in use or as good as new, the free list holds only the latter.
PoolShape ==
    /\ \A c \in Conns : IF c \in active THEN InUse(conn[c]) ELSE conn[c] = Unused
    /\ IsInjective(free) /\ Range(free) \cap active = {}

\* No two connections have the same descriptor.
OneOwner == \A c, d \in active : conn[c].fd = conn[d].fd => c = d

\* What the kernel watches for a connection in use, and that it watches no more.
Watched ==
    /\ \A c \in active :
         /\ epoll[conn[c].fd] = [channel |-> c, events |-> conn[c].events]
         /\ channels[conn[c].fd] = c
    /\ \A f \in Fds : epoll[f] # None => \E c \in active : conn[c].fd = f

\* The descriptors on their way to the loop, those of the connections in use, and
\* those that are open.
queue == functors \o pendingFunctors
owned == {conn[c].fd : c \in active}
opened == {f \in Fds : sock[f].open}

\* An open descriptor is on its way, once, or has been given to a connection.
Handed ==
    /\ IsInjective(queue)
    /\ Range(queue) \cap owned = {}
    /\ opened = Range(queue) \cup owned

\* No connection was heard of in the future, but for what the clock was set back.
HeardBefore == \A c \in Conns : lastReceiveTime[c] <= now + setBack

\* The timer of removeExpiredConnection is set.
RemoverSet == IdleOn => \E t \in timers : t[2] = None /\ t[1] <= now + 1 + setBack

\* Without an idle limit there are no timers.
NoTimers == ~IdleOn => timers = {} /\ due = {}

\* The inductive invariant.
IInv ==
    /\ TypeOK /\ TurnOfTheLoop
    /\ PoolShape /\ OneOwner /\ Watched
    /\ Handed
    /\ IdleListSorted /\ HeardBefore
    /\ ShutdownsEnd /\ RemoverSet /\ NoTimers

-----------------------------------------------------------------------------
(* Sequences without repetition.                                            *)

\* A new element at the end.
LEMMA AppendDistinct ==
    ASSUME NEW S, NEW s \in Seq(S), IsInjective(s), NEW e \in S, e \notin Range(s)
    PROVE  /\ IsInjective(Append(s, e))
           /\ Range(Append(s, e)) = Range(s) \cup {e}
           /\ Append(s, e) \in Seq(S)
<1>1. /\ DOMAIN s = 1..Len(s) /\ Len(s) \in Nat
      /\ DOMAIN Append(s, e) = 1..(Len(s) + 1)
      /\ \A i \in 1..Len(s) : Append(s, e)[i] = s[i]
      /\ Append(s, e)[Len(s) + 1] = e
      /\ Append(s, e) \in Seq(S)
    BY AppendProperties
<1>2. PICK t : t = Append(s, e)
    OBVIOUS
<1>3. \A i \in 1..Len(s) : t[i] = s[i] /\ s[i] # e
    BY <1>1, <1>2 DEF Range
<1>4. IsInjective(t)
  <2> SUFFICES ASSUME NEW i \in DOMAIN t, NEW j \in DOMAIN t, t[i] = t[j] PROVE i = j
      BY Zenon DEF IsInjective
  <2>1. i \in 1..(Len(s) + 1) /\ j \in 1..(Len(s) + 1) /\ t[Len(s) + 1] = e
      BY <1>1, <1>2
  <2>2. CASE i \in 1..Len(s) /\ j \in 1..Len(s)
      BY <1>1, <1>3, <2>2 DEF IsInjective
  <2>3. CASE i = Len(s) + 1 \/ j = Len(s) + 1
      BY <1>1, <1>3, <2>1, <2>3
  <2> QED
      BY <1>1, <2>1, <2>2, <2>3
<1>5. Range(t) \subseteq Range(s) \cup {e}
    BY <1>1, <1>2, <1>3 DEF Range
<1>6. Range(s) \cup {e} \subseteq Range(t)
  <2>1. Range(s) \subseteq Range(t)
    <3>1. \A i \in DOMAIN s : i \in DOMAIN t /\ t[i] = s[i]
        BY <1>1, <1>2
    <3> QED
        BY <3>1, Zenon DEF Range
  <2>2. Len(s) + 1 \in DOMAIN t /\ t[Len(s) + 1] = e
      BY <1>1, <1>2
  <2> QED
      BY <2>1, <2>2, Zenon DEF Range
<1> QED
    BY <1>1, <1>2, <1>4, <1>5, <1>6

\* A new element at the head.
LEMMA ConsDistinct ==
    ASSUME NEW S, NEW s \in Seq(S), IsInjective(s), NEW e \in S, e \notin Range(s)
    PROVE  /\ IsInjective(<<e>> \o s)
           /\ Range(<<e>> \o s) = Range(s) \cup {e}
           /\ <<e>> \o s \in Seq(S)
<1>1. PICK t : t = <<e>> \o s
    OBVIOUS
<1>2. /\ DOMAIN s = 1..Len(s) /\ Len(s) \in Nat
      /\ t \in Seq(S) /\ Len(t) = Len(s) + 1 /\ DOMAIN t = 1..(Len(s) + 1)
      /\ t[1] = e /\ \A i \in 1..Len(s) : t[i + 1] = s[i]
  <2>1. <<e>> \in Seq(S) /\ Len(<<e>>) = 1 /\ <<e>>[1] = e
      OBVIOUS
  <2>2. t \in Seq(S) /\ Len(t) = Len(s) + 1
      BY <1>1, <2>1, ConcatProperties
  <2>3. t[1] = e
      BY <1>1, <2>1, <2>2, ConcatProperties
  <2>4. \A i \in 1..Len(s) : t[i + 1] = s[i]
    <3> TAKE i \in 1..Len(s)
    <3>1. i + 1 \in 1..(1 + Len(s)) /\ ~(i + 1 <= 1) /\ (i + 1) - 1 = i
        OBVIOUS
    <3> QED
        BY <1>1, <2>1, <3>1
  <2> QED
      BY <2>2, <2>3, <2>4
<1>3. \A i \in 2..(Len(s) + 1) : i - 1 \in 1..Len(s) /\ t[i] = s[i - 1] /\ t[i] # e
  <2> TAKE i \in 2..(Len(s) + 1)
  <2>1. i - 1 \in 1..Len(s) /\ (i - 1) + 1 = i
      BY <1>2
  <2> QED
      BY <1>2, <2>1 DEF Range
<1>4. IsInjective(t)
  <2> SUFFICES ASSUME NEW i \in DOMAIN t, NEW j \in DOMAIN t, t[i] = t[j] PROVE i = j
      BY Zenon DEF IsInjective
  <2>1. i \in 1..(Len(s) + 1) /\ j \in 1..(Len(s) + 1)
      BY <1>2
  <2>2. CASE i \in 2..(Len(s) + 1) /\ j \in 2..(Len(s) + 1)
    <3>1. i - 1 = j - 1
        BY <1>2, <1>3, <2>2 DEF IsInjective
    <3> QED
        BY <2>2, <3>1
  <2>3. CASE i = 1 \/ j = 1
      BY <1>2, <1>3, <2>1, <2>3
  <2> QED
      BY <1>2, <2>1, <2>2, <2>3
<1>5. Range(t) \subseteq Range(s) \cup {e}
    BY <1>2, <1>3 DEF Range
<1>6. Range(s) \cup {e} \subseteq Range(t)
  <2>1. Range(s) \subseteq Range(t)
    <3>1. \A i \in DOMAIN s : i + 1 \in DOMAIN t /\ t[i + 1] = s[i]
        BY <1>2
    <3> QED
        BY <3>1, Zenon DEF Range
  <2>2. 1 \in DOMAIN t /\ t[1] = e
      BY <1>2
  <2>3. e \in Range(t)
      BY <2>2, Zenon DEF Range
  <2> QED
      BY <2>1, <2>3
<1> QED
    BY <1>1, <1>2, <1>4, <1>5, <1>6

\* The head is taken.
LEMMA TailDistinct ==
    ASSUME NEW S, NEW s \in Seq(S), IsInjective(s), s # <<>>
    PROVE  /\ IsInjective(Tail(s)) /\ Tail(s) \in Seq(S) /\ Head(s) \in S
           /\ Head(s) \in Range(s) /\ Range(Tail(s)) = Range(s) \ {Head(s)}
<1>1. PICK t, h : t = Tail(s) /\ h = Head(s)
    OBVIOUS
<1>2. /\ t \in Seq(S) /\ h \in S /\ Len(s) \in Nat \ {0}
      /\ DOMAIN s = 1..Len(s) /\ DOMAIN t = 1..(Len(s) - 1)
      /\ h = s[1] /\ \A i \in 1..(Len(s) - 1) : t[i] = s[i + 1]
    BY <1>1, HeadTailProperties
<1>3. \A i \in DOMAIN t : i + 1 \in DOMAIN s /\ t[i] = s[i + 1] /\ i + 1 # 1
    BY <1>2
<1>4. IsInjective(t)
  <2> SUFFICES ASSUME NEW i \in DOMAIN t, NEW j \in DOMAIN t, t[i] = t[j] PROVE i = j
      BY Zenon DEF IsInjective
  <2>1. i + 1 = j + 1
      BY <1>3 DEF IsInjective
  <2> QED
      BY <1>2, <2>1
<1>5. 1 \in DOMAIN s
    BY <1>2
<1>6. Range(t) \subseteq Range(s) \ {h}
    BY <1>2, <1>3, <1>5 DEF Range, IsInjective
<1>7. Range(s) \ {h} \subseteq Range(t)
  <2> SUFFICES ASSUME NEW i \in DOMAIN s, s[i] # h PROVE s[i] \in Range(t)
      BY Zenon DEF Range
  <2>1. i - 1 \in DOMAIN t /\ t[i - 1] = s[i]
      BY <1>2
  <2> QED
      BY <2>1, Zenon DEF Range
<1>8. h \in Range(s)
    BY <1>2, <1>5, Zenon DEF Range
<1> QED
    BY <1>1, <1>2, <1>4, <1>6, <1>7, <1>8

-----------------------------------------------------------------------------
(* The list of idle connections.                                            *)

\* The list holds the elements of A, each once, by their time up to a slack of d.
Listed(s, A, time, d) ==
    /\ Range(s) = A /\ IsInjective(s)
    /\ \A i, j \in DOMAIN s : i < j => time[s[i]] <= time[s[j]] + d

\* What erase() leaves of a list: all but the element at p.
Erased(s, p) == SubSeq(s, 1, p - 1) \o SubSeq(s, p + 1, Len(s))

\* Nothing else moves.
LEMMA ErasedAt ==
    ASSUME NEW S, NEW s \in Seq(S), NEW p \in 1..Len(s)
    PROVE  /\ Erased(s, p) \in Seq(S) /\ Len(Erased(s, p)) = Len(s) - 1
           /\ \A i \in 1..(p - 1) : Erased(s, p)[i] = s[i]
           /\ \A i \in p..(Len(s) - 1) : Erased(s, p)[i] = s[i + 1]
<1>1. Len(s) \in Nat /\ p \in Nat \ {0} /\ p <= Len(s)
    OBVIOUS
<1>2. PICK a : a = SubSeq(s, 1, p - 1)
    OBVIOUS
<1>3. PICK b : b = SubSeq(s, p + 1, Len(s))
    OBVIOUS
<1>4. /\ a \in Seq(S) /\ Len(a) = p - 1
      /\ \A i \in 1..(p - 1) : a[i] = s[i]
  <2>1. p - 1 \in 0..Len(s) /\ \A i \in 1..(p - 1) : s[i] \in S
      BY <1>1
  <2> QED
      BY <1>1, <1>2, <2>1, SubSeqProperties
<1>5. /\ b \in Seq(S) /\ Len(b) = Len(s) - p
      /\ \A i \in 1..(Len(s) - p) : b[i] = s[p + i]
  <2>1. \A i \in (p + 1)..Len(s) : s[i] \in S
      BY <1>1
  <2> QED
      BY <1>1, <1>3, <2>1, SubSeqProperties
<1>6. PICK t : t = a \o b
    OBVIOUS
<1>7. t \in Seq(S) /\ Len(t) = Len(s) - 1
    BY <1>1, <1>4, <1>5, <1>6, ConcatProperties
<1>8. \A i \in 1..(p - 1) : t[i] = s[i]
    BY <1>1, <1>4, <1>5, <1>6, <1>7
<1>9. \A i \in p..(Len(s) - 1) : t[i] = s[i + 1]
  <2> TAKE i \in p..(Len(s) - 1)
  <2>1. i - (p - 1) \in 1..(Len(s) - p) /\ p + (i - (p - 1)) = i + 1
      BY <1>1
  <2>2. t[i] = b[i - (p - 1)]
      BY <1>1, <1>4, <1>5, <1>6, <1>7
  <2> QED
      BY <1>5, <2>1, <2>2
<1> QED
    BY <1>2, <1>3, <1>6, <1>7, <1>8, <1>9, Zenon DEF Erased

\* What is left of a sequence without c.
LEMMA WithoutType ==
    ASSUME NEW S, NEW s \in Seq(S), NEW c
    PROVE  Without(s, c) \in Seq(S)
<1>1. CASE c \notin Range(s)
    BY <1>1, Zenon DEF Without
<1>2. CASE c \in Range(s)
  <2>1. PICK p : p = CHOOSE i \in DOMAIN s : s[i] = c
      OBVIOUS
  <2>2. p \in DOMAIN s
    <3>1. \E i \in DOMAIN s : s[i] = c
        BY <1>2, Zenon DEF Range
    <3> QED
        BY <2>1, <3>1, Zenon
  <2>3. p \in 1..Len(s)
      BY <2>2
  <2>4. Erased(s, p) \in Seq(S)
      BY <2>3, ErasedAt, Zenon
  <2> QED
      BY <1>2, <2>1, <2>4, Zenon DEF Without, Erased
<1> QED
    BY <1>1, <1>2

\* What is left of a list without c: its elements, in their order.
LEMMA WithoutEffect ==
    ASSUME NEW S, NEW s \in Seq(S), NEW A, NEW time, NEW d, Listed(s, A, time, d), NEW c
    PROVE  /\ Without(s, c) \in Seq(S)
           /\ Listed(Without(s, c), A \ {c}, time, d)
<1>1. /\ Range(s) = A /\ DOMAIN s = 1..Len(s) /\ Len(s) \in Nat
      /\ \A i, j \in DOMAIN s : s[i] = s[j] => i = j
      /\ \A i, j \in DOMAIN s : i < j => time[s[i]] <= time[s[j]] + d
    BY DEF Listed, IsInjective
<1>2. CASE c \notin Range(s)
  <2>1. Without(s, c) = s
      BY <1>2, Zenon DEF Without
  <2> QED
      BY <1>1, <1>2, <2>1 DEF Listed
<1>3. CASE c \in Range(s)
  <2>1. PICK p : p = CHOOSE i \in DOMAIN s : s[i] = c
      OBVIOUS
  <2>2. p \in DOMAIN s /\ s[p] = c
    <3>1. \E i \in DOMAIN s : s[i] = c
        BY <1>3, Zenon DEF Range
    <3> QED
        BY <2>1, <3>1, Zenon
  <2>3. PICK t : t = Erased(s, p)
      OBVIOUS
  <2>4. Without(s, c) = t
      BY <1>3, <2>1, <2>3, Zenon DEF Without, Erased
  <2>5. /\ t \in Seq(S) /\ Len(t) = Len(s) - 1
        /\ \A i \in 1..(p - 1) : t[i] = s[i]
        /\ \A i \in p..(Len(s) - 1) : t[i] = s[i + 1]
    <3>1. p \in 1..Len(s)
        BY <1>1, <2>2
    <3>2. /\ Erased(s, p) \in Seq(S) /\ Len(Erased(s, p)) = Len(s) - 1
          /\ \A i \in 1..(p - 1) : Erased(s, p)[i] = s[i]
          /\ \A i \in p..(Len(s) - 1) : Erased(s, p)[i] = s[i + 1]
        BY <3>1, ErasedAt, Zenon
    <3> QED
        BY <2>3, <3>2
  <2>6. PICK f : f = [i \in DOMAIN t |-> IF i < p THEN i ELSE i + 1]
      OBVIOUS
  <2>7. \A i \in DOMAIN t : f[i] \in DOMAIN s /\ f[i] # p /\ t[i] = s[f[i]]
      BY <1>1, <2>2, <2>5, <2>6
  <2>8. DOMAIN t \subseteq Int /\ \A i, j \in DOMAIN t : i < j => f[i] < f[j]
      BY <1>1, <2>2, <2>5, <2>6
  <2>9. Range(t) \subseteq A \ {c}
    <3> SUFFICES ASSUME NEW i \in DOMAIN t PROVE t[i] \in A \ {c}
        BY Zenon DEF Range
    <3>1. f[i] \in DOMAIN s /\ f[i] # p /\ t[i] = s[f[i]]
        BY <2>7
    <3>2. s[f[i]] \in A /\ s[f[i]] # c
        BY <1>1, <2>2, <3>1 DEF Range
    <3> QED
        BY <3>1, <3>2
  <2>10. A \ {c} \subseteq Range(t)
    <3> SUFFICES ASSUME NEW i \in DOMAIN s, s[i] # c PROVE s[i] \in Range(t)
        BY <1>1, Zenon DEF Range
    <3>1. i # p /\ i \in 1..Len(s) /\ p \in 1..Len(s)
        BY <1>1, <2>2
    <3>2. CASE i < p
      <4>1. i \in DOMAIN t /\ t[i] = s[i]
          BY <1>1, <2>5, <3>1, <3>2
      <4> QED
          BY <4>1, Zenon DEF Range
    <3>3. CASE i > p
      <4>1. i - 1 \in DOMAIN t /\ t[i - 1] = s[i]
          BY <1>1, <2>5, <3>1, <3>3
      <4> QED
          BY <4>1, Zenon DEF Range
    <3> QED
        BY <3>1, <3>2, <3>3
  <2>11. IsInjective(t)
    <3> SUFFICES ASSUME NEW i \in DOMAIN t, NEW j \in DOMAIN t, t[i] = t[j] PROVE i = j
        BY Zenon DEF IsInjective
    <3>1. f[i] = f[j]
      <4>1. f[i] \in DOMAIN s /\ f[j] \in DOMAIN s /\ s[f[i]] = s[f[j]]
          BY <2>7
      <4> QED
          BY <1>1, <4>1
    <3> QED
        BY <1>1, <2>2, <2>5, <2>6, <3>1
  <2>12. \A i, j \in DOMAIN t : i < j => time[t[i]] <= time[t[j]] + d
    <3> SUFFICES ASSUME NEW i \in DOMAIN t, NEW j \in DOMAIN t, i < j
                 PROVE  time[t[i]] <= time[t[j]] + d
        BY Zenon
    <3>1. f[i] \in DOMAIN s /\ f[j] \in DOMAIN s /\ f[i] < f[j]
        BY <2>7, <2>8
    <3>2. t[i] = s[f[i]] /\ t[j] = s[f[j]]
        BY <2>7
    <3> QED
        BY <1>1, <3>1, <3>2
  <2>13. Range(t) = A \ {c}
      BY <2>9, <2>10
  <2> QED
      BY <2>4, <2>5, <2>11, <2>12, <2>13, Zenon DEF Listed
<1> QED
    BY <1>2, <1>3

\* What is not in the list does not matter to its order.
LEMMA OtherTimes ==
    ASSUME NEW s, NEW A, NEW t, NEW u, NEW d, Listed(s, A, t, d), \A a \in A : u[a] = t[a]
    PROVE  Listed(s, A, u, d)
<1>1. \A i \in DOMAIN s : u[s[i]] = t[s[i]]
    BY Zenon DEF Listed, Range
<1> QED
    BY <1>1, Zenon DEF Listed

\* A connection heard of now goes to the tail.
LEMMA ListedLast ==
    ASSUME NEW S, NEW s \in Seq(S), NEW A, NEW t, NEW d, Listed(s, A, t, d),
           NEW c \in S, c \notin A, \A a \in A : t[a] <= t[c] + d
    PROVE  /\ Append(s, c) \in Seq(S)
           /\ Listed(Append(s, c), A \cup {c}, t, d)
<1>1. PICK u : u = Append(s, c)
    OBVIOUS
<1>2. Range(s) = A /\ IsInjective(s) /\ \A i, j \in DOMAIN s : i < j => t[s[i]] <= t[s[j]] + d
    BY Zenon DEF Listed
<1>3. IsInjective(u) /\ Range(u) = A \cup {c} /\ u \in Seq(S)
    BY <1>1, <1>2, AppendDistinct
<1>4. /\ DOMAIN s = 1..Len(s) /\ Len(s) \in Nat
      /\ DOMAIN u = 1..(Len(s) + 1)
      /\ \A i \in 1..Len(s) : u[i] = s[i]
      /\ u[Len(s) + 1] = c
    BY <1>1, AppendProperties
<1>5. \A i \in 1..Len(s) : t[u[i]] <= t[c] + d
    BY <1>2, <1>4 DEF Range
<1>6. \A i, j \in DOMAIN u : i < j => t[u[i]] <= t[u[j]] + d
  <2> SUFFICES ASSUME NEW i \in DOMAIN u, NEW j \in DOMAIN u, i < j
               PROVE  t[u[i]] <= t[u[j]] + d
      BY Zenon
  <2>1. i \in 1..Len(s) /\ (j \in 1..Len(s) \/ j = Len(s) + 1)
      BY <1>4
  <2> QED
      BY <1>2, <1>4, <1>5, <2>1
<1> QED
    BY <1>1, <1>3, <1>6, Zenon DEF Listed

\* More slack does no harm.
LEMMA ListedLonger ==
    ASSUME NEW s, NEW A, NEW t, \A a \in A : t[a] \in Nat,
           NEW d \in Nat, NEW e \in Nat, d <= e, Listed(s, A, t, d)
    PROVE  Listed(s, A, t, e)
<1>1. \A i \in DOMAIN s : t[s[i]] \in Nat
    BY DEF Listed, Range
<1> QED
    BY <1>1 DEF Listed

-----------------------------------------------------------------------------
(* Channels.                                                                *)

\* What the epoll_ctl of a channel in use tells the kernel.
Registers(c, ch) == [channel |-> c, events |-> ch.events]

\* enableWriting and disableWriting keep a channel in use.
LEMMA EventsSet ==
    ASSUME NEW ch, InUse(ch), NEW E \in SUBSET {"read", "write"}, "read" \in E
    PROVE  \E u : /\ u = Updated([ch EXCEPT !.events = E])
                  /\ InUse(u) /\ u.fd = ch.fd /\ u.state = ch.state /\ u.events = E
<1>1. PICK v : v = [ch EXCEPT !.events = E]
    OBVIOUS
<1>2. /\ v \in Connections /\ v.events = E /\ v.index = "kAdded"
      /\ v.fd = ch.fd /\ v.state = ch.state
      /\ ch.state # "KConnecting" /\ ch.fd \in Fds
    BY <1>1 DEF InUse, Connections
<1>3. PICK u : u = Updated(v)
    OBVIOUS
<1>4. u = [v EXCEPT !.index = "kAdded"]
    BY <1>2, <1>3 DEF Updated
<1>5. /\ u \in Connections /\ u.events = E /\ u.index = "kAdded"
      /\ u.fd = ch.fd /\ u.state = ch.state
    BY <1>2, <1>4 DEF Connections
<1> QED
    BY <1>1, <1>2, <1>3, <1>5 DEF InUse

\* shutdown() keeps it in use.
LEMMA ShutDown ==
    ASSUME NEW ch, InUse(ch)
    PROVE  \E u : /\ u = [ch EXCEPT !.state = "KDisconnecting"]
                  /\ InUse(u) /\ u.fd = ch.fd /\ u.events = ch.events
                  /\ u.state = "KDisconnecting"
<1>1. PICK u : u = [ch EXCEPT !.state = "KDisconnecting"]
    OBVIOUS
<1>2. /\ u \in Connections /\ u.state = "KDisconnecting" /\ u.index = "kAdded"
      /\ u.fd = ch.fd /\ u.events = ch.events
      /\ ch.fd \in Fds /\ "read" \in ch.events
    BY <1>1 DEF InUse, Connections
<1>3. InUse(u)
    BY <1>2 DEF InUse
<1> QED
    BY <1>1, <1>2, <1>3

\* configEvent puts a new channel to use.
LEMMA ChannelAdded ==
    ASSUME NEW f \in Fds
    PROVE  \E u : /\ u = Updated([Updated([Unused EXCEPT !.state = "KConnected", !.fd = f])
                                    EXCEPT !.events = {"read"}])
                  /\ InUse(u) /\ u.fd = f /\ u.state = "KConnected"
<1>1. PICK v : v = [Unused EXCEPT !.state = "KConnected", !.fd = f]
    OBVIOUS
<1>2. v = [state |-> "KConnected", fd |-> f, events |-> {}, index |-> "kNew"]
    BY <1>1 DEF Unused
<1>3. PICK w : w = [Updated(v) EXCEPT !.events = {"read"}]
    OBVIOUS
<1>4. w = [state |-> "KConnected", fd |-> f, events |-> {"read"}, index |-> "kAdded"]
    BY <1>2, <1>3 DEF Updated
<1>5. Updated(w) = w
    BY <1>4 DEF Updated
<1>6. InUse(w) /\ w.fd = f /\ w.state = "KConnected"
    BY <1>4 DEF InUse, Connections
<1> QED
    BY <1>1, <1>3, <1>5, <1>6

\* An object in use is not as good as new.
LEMMA NotUnused ==
    /\ Unused \in Connections /\ NoFd \notin Fds
    /\ Unused.fd = NoFd /\ Unused.state = "KConnecting" /\ Unused.events = {}
    /\ Unused.index = "kNew"
    /\ \A ch : InUse(ch) => ch.fd # NoFd /\ ch # Unused
<1>1. /\ Unused \in Connections /\ NoFd \notin Fds
      /\ Unused.fd = NoFd /\ Unused.state = "KConnecting" /\ Unused.events = {}
      /\ Unused.index = "kNew"
    BY ConstantsAssumption DEF Unused, Connections, NoFd
<1> QED
    BY <1>1 DEF InUse

-----------------------------------------------------------------------------
(* The pool, the channels and the Epoller.                                  *)

\* What the types say of them.
PoolTypes ==
    /\ conn \in [Conns -> Connections]
    /\ free \in Seq(Conns)
    /\ active \in SUBSET Conns
    /\ channels \in [Fds \cup {NoFd} -> Conns \cup {None}]
    /\ epoll \in [Fds -> {None} \cup [channel : Conns, events : SUBSET {"read", "write"}]]

\* What the invariant says of them.
PoolInv == PoolTypes /\ PoolShape /\ OneOwner /\ Watched

\* The facts about one connection.
LEMMA PoolFacts ==
    ASSUME PoolInv
    PROVE  /\ \A c \in active : /\ c \in Conns /\ InUse(conn[c])
                                /\ conn[c].fd \in Fds /\ conn[c].fd # NoFd
                                /\ conn[c].state # "KConnecting"
                                /\ conn[c].events \in SUBSET {"read", "write"}
                                /\ "read" \in conn[c].events
           /\ \A c \in Conns : c \notin active => conn[c] = Unused /\ conn[c].fd = NoFd
                                 /\ conn[c].state = "KConnecting" /\ conn[c].events = {}
<1>1. /\ active \subseteq Conns
      /\ \A c \in Conns : IF c \in active THEN InUse(conn[c]) ELSE conn[c] = Unused
    BY Zenon DEF PoolInv, PoolTypes, PoolShape
<1>2. ASSUME NEW c \in active
      PROVE  /\ c \in Conns /\ InUse(conn[c])
             /\ conn[c].fd \in Fds /\ conn[c].fd # NoFd
             /\ conn[c].state # "KConnecting"
             /\ conn[c].events \in SUBSET {"read", "write"}
             /\ "read" \in conn[c].events
  <2>1. c \in Conns /\ InUse(conn[c])
      BY <1>1
  <2> QED
      BY <2>1, NotUnused DEF InUse, Connections
<1>3. ASSUME NEW c \in Conns, c \notin active
      PROVE  /\ conn[c] = Unused /\ conn[c].fd = NoFd
             /\ conn[c].state = "KConnecting" /\ conn[c].events = {}
    BY <1>1, <1>3, NotUnused
<1> QED
    BY <1>2, <1>3

\* Nothing happens to them.
LEMMA PoolQuiet ==
    ASSUME PoolInv, UNCHANGED poolVars
    PROVE  PoolInv'
  BY DEF PoolInv, PoolTypes, PoolShape, OneOwner, Watched, poolVars

\* The channel of a connection changes the events it asks for.
LEMMA PoolEvents ==
    ASSUME PoolInv, NEW c \in active, NEW ch, InUse(ch), ch.fd = conn[c].fd,
           conn' = [conn EXCEPT ![c] = ch],
           epoll' = [epoll EXCEPT ![ch.fd] = Registers(c, ch)],
           UNCHANGED <<free, active, channels>>
    PROVE  PoolInv'
<1>1. PoolTypes /\ PoolShape /\ OneOwner /\ Watched
    BY Zenon DEF PoolInv
<1>2. /\ c \in Conns /\ ch \in Connections /\ ch.fd \in Fds
      /\ ch.events \in SUBSET {"read", "write"}
    BY <1>1, PoolFacts DEF InUse, Connections
<1>3. PoolTypes'
    BY <1>1, <1>2 DEF PoolTypes, Registers
<1>4. /\ conn'[c] = ch /\ \A d \in Conns : d # c => conn'[d] = conn[d]
      /\ epoll'[ch.fd] = Registers(c, ch)
      /\ \A f \in Fds : f # ch.fd => epoll'[f] = epoll[f]
    BY <1>1, <1>2 DEF PoolTypes
<1>5. \A d \in active : d \in Conns /\ conn'[d].fd = conn[d].fd /\ conn[d].fd \in Fds
    BY <1>4, PoolFacts
<1>6. PoolShape'
    BY <1>1, <1>4 DEF PoolShape
<1>7. OneOwner'
    BY <1>1, <1>5 DEF OneOwner
<1>8. Watched'
  <2>1. ASSUME NEW d \in active
        PROVE  /\ epoll'[conn'[d].fd] = Registers(d, conn'[d])
               /\ channels'[conn'[d].fd] = d
    <3>1. channels[conn[d].fd] = d /\ epoll[conn[d].fd] = Registers(d, conn[d])
        BY <1>1 DEF Watched, Registers
    <3>2. CASE d = c
        BY <1>4, <1>5, <3>1, <3>2
    <3>3. CASE d # c
      <4>1. conn[d].fd # ch.fd
          BY <1>1, <3>3 DEF OneOwner
      <4> QED
          BY <1>4, <1>5, <3>1, <3>3, <4>1
    <3> QED
        BY <3>2, <3>3
  <2>2. ASSUME NEW f \in Fds, epoll'[f] # None PROVE \E d \in active : conn'[d].fd = f
    <3>1. CASE f = ch.fd
        BY <1>5, <3>1
    <3>2. CASE f # ch.fd
        BY <1>1, <1>4, <1>5, <2>2, <3>2 DEF Watched
    <3> QED
        BY <3>1, <3>2
  <2> QED
      BY <2>1, <2>2 DEF Watched, Registers
<1> QED
    BY <1>3, <1>6, <1>7, <1>8 DEF PoolInv

\* A connection is closed and its object goes to the free list.
LEMMA PoolClose ==
    ASSUME PoolInv, NEW c \in active, HandleClose(c)
    PROVE  PoolInv'
<1>1. PoolTypes /\ PoolShape /\ OneOwner /\ Watched
    BY Zenon DEF PoolInv
<1>2. PICK f : f = conn[c].fd
    OBVIOUS
<1>3. c \in Conns /\ f \in Fds /\ f # NoFd
    BY <1>1, <1>2, PoolFacts
<1>4. /\ conn' = [conn EXCEPT ![c] = Unused]
      /\ epoll' = [epoll EXCEPT ![f] = None]
      /\ channels' = [channels EXCEPT ![conn'[c].fd] = None]
      /\ free' = <<c>> \o free /\ active' = active \ {c}
    BY <1>2, Zenon DEF HandleClose
<1>5. /\ conn'[c] = Unused /\ \A d \in Conns : d # c => conn'[d] = conn[d]
      /\ channels' = [channels EXCEPT ![NoFd] = None]
      /\ \A g \in Fds : channels'[g] = channels[g]
      /\ epoll'[f] = None /\ \A g \in Fds : g # f => epoll'[g] = epoll[g]
    BY <1>1, <1>3, <1>4, NotUnused DEF PoolTypes
<1>6. /\ IsInjective(free) /\ Range(free) \cap active = {} /\ free \in Seq(Conns)
    BY <1>1, Zenon DEF PoolShape, PoolTypes
<1>7. /\ IsInjective(free') /\ Range(free') = Range(free) \cup {c} /\ free' \in Seq(Conns)
  <2>1. c \notin Range(free)
      BY <1>6
  <2> QED
      BY <1>3, <1>4, <1>6, <2>1, ConsDistinct
<1>8. PoolTypes'
    BY <1>1, <1>4, <1>5, <1>7, NotUnused DEF PoolTypes
<1>9. PoolShape'
  <2>1. Range(free') \cap active' = {}
      BY <1>4, <1>6, <1>7
  <2>2. \A d \in Conns : IF d \in active' THEN InUse(conn'[d]) ELSE conn'[d] = Unused
      BY <1>1, <1>4, <1>5 DEF PoolShape
  <2> QED
      BY <1>7, <2>1, <2>2, Zenon DEF PoolShape
<1>10. \A d \in active' : d \in active /\ d # c /\ conn'[d] = conn[d] /\ conn[d].fd \in Fds
    BY <1>4, <1>5, PoolFacts
<1>11. OneOwner'
    BY <1>1, <1>10 DEF OneOwner
<1>12. Watched'
  <2>1. ASSUME NEW d \in active'
        PROVE  /\ epoll'[conn'[d].fd] = Registers(d, conn'[d])
               /\ channels'[conn'[d].fd] = d
    <3>1. channels[conn[d].fd] = d /\ epoll[conn[d].fd] = Registers(d, conn[d])
        BY <1>1, <1>10 DEF Watched, Registers
    <3>2. conn[d].fd # f
        BY <1>1, <1>2, <1>10 DEF OneOwner
    <3> QED
        BY <1>5, <1>10, <3>1, <3>2
  <2>2. ASSUME NEW g \in Fds, epoll'[g] # None PROVE \E d \in active' : conn'[d].fd = g
    <3>1. g # f /\ epoll[g] # None
        BY <1>5, <2>2
    <3>2. PICK d \in active : conn[d].fd = g
        BY <1>1, <3>1 DEF Watched
    <3>3. d \in active' /\ conn'[d] = conn[d]
        BY <1>2, <1>4, <1>10, <3>1, <3>2
    <3> QED
        BY <3>2, <3>3
  <2> QED
      BY <2>1, <2>2 DEF Watched, Registers
<1> QED
    BY <1>8, <1>9, <1>11, <1>12 DEF PoolInv

\* A descriptor gets an object from the free list, or a new one.
LEMMA PoolTake ==
    ASSUME PoolInv, NEW c \in Conns, TakeFree(c),
           NEW f \in Fds, \A d \in active : conn[d].fd # f,
           NEW ch, InUse(ch), ch.fd = f,
           conn' = [conn EXCEPT ![c] = ch],
           epoll' = [epoll EXCEPT ![f] = Registers(c, ch)],
           channels' = [channels EXCEPT ![f] = c],
           active' = active \cup {c}
    PROVE  PoolInv'
<1>1. PoolTypes /\ PoolShape /\ OneOwner /\ Watched
    BY Zenon DEF PoolInv
<1>2. ch \in Connections /\ ch.events \in SUBSET {"read", "write"}
    BY DEF InUse, Connections
<1>3. /\ conn'[c] = ch /\ \A d \in Conns : d # c => conn'[d] = conn[d]
      /\ channels'[f] = c /\ \A g \in Fds : g # f => channels'[g] = channels[g]
      /\ epoll'[f] = Registers(c, ch) /\ \A g \in Fds : g # f => epoll'[g] = epoll[g]
    BY <1>1 DEF PoolTypes
<1>4. /\ IsInjective(free) /\ Range(free) \cap active = {} /\ free \in Seq(Conns)
    BY <1>1, Zenon DEF PoolShape, PoolTypes
<1>5. /\ c \notin active /\ IsInjective(free') /\ free' \in Seq(Conns)
      /\ Range(free') \cap active' = {}
  <2>1. CASE free = <<>>
    <3>1. c \notin active /\ free' = free
        BY <2>1, Zenon DEF TakeFree
    <3>2. Range(free) = {}
        BY <2>1 DEF Range
    <3> QED
        BY <1>4, <3>1, <3>2
  <2>2. CASE free # <<>>
    <3>1. c = Head(free) /\ free' = Tail(free)
        BY <2>2, Zenon DEF TakeFree
    <3>2. /\ IsInjective(Tail(free)) /\ Tail(free) \in Seq(Conns)
          /\ Head(free) \in Range(free) /\ Range(Tail(free)) = Range(free) \ {Head(free)}
        BY <1>4, <2>2, TailDistinct
    <3>3. IsInjective(free')
        BY <3>1, <3>2
    <3>4. c \in Range(free) /\ Range(free') = Range(free) \ {c}
        BY <3>1, <3>2
    <3> QED
        BY <1>4, <3>1, <3>2, <3>3, <3>4
  <2> QED
      BY <2>1, <2>2
<1>6. PoolTypes'
    BY <1>1, <1>2, <1>5 DEF PoolTypes, Registers
<1>7. PoolShape'
    BY <1>1, <1>3, <1>5 DEF PoolShape
<1>8. \A d \in active : d # c /\ conn'[d] = conn[d] /\ conn[d].fd \in Fds /\ conn[d].fd # f
    BY <1>3, <1>5, PoolFacts
<1>9. OneOwner'
    BY <1>1, <1>3, <1>8 DEF OneOwner
<1>10. Watched'
  <2>1. ASSUME NEW d \in active'
        PROVE  /\ epoll'[conn'[d].fd] = Registers(d, conn'[d])
               /\ channels'[conn'[d].fd] = d
    <3>1. CASE d = c
        BY <1>3, <3>1
    <3>2. CASE d \in active
      <4>1. channels[conn[d].fd] = d /\ epoll[conn[d].fd] = Registers(d, conn[d])
          BY <1>1, <3>2 DEF Watched, Registers
      <4> QED
          BY <1>3, <1>8, <3>2, <4>1
    <3> QED
        BY <3>1, <3>2
  <2>2. ASSUME NEW g \in Fds, epoll'[g] # None PROVE \E d \in active' : conn'[d].fd = g
    <3>1. CASE g = f
        BY <1>3, <3>1
    <3>2. CASE g # f
      <4>1. PICK d \in active : conn[d].fd = g
          BY <1>1, <1>3, <2>2, <3>2 DEF Watched
      <4> QED
          BY <1>8, <4>1
    <3> QED
        BY <3>1, <3>2
  <2> QED
      BY <2>1, <2>2 DEF Watched, Registers
<1> QED
    BY <1>6, <1>7, <1>9, <1>10 DEF PoolInv

\* Connections found idle are shut down.
LEMMA PoolExpire ==
    ASSUME PoolInv, NEW X \in SUBSET active,
           conn' = [c \in Conns |-> IF c \in X THEN [conn[c] EXCEPT !.state = "KDisconnecting"]
                                    ELSE conn[c]],
           UNCHANGED <<free, active, channels, epoll>>
    PROVE  /\ PoolInv'
           /\ \A c \in Conns : conn'[c].fd = conn[c].fd
           /\ \A c \in X : conn'[c].state = "KDisconnecting"
           /\ \A c \in Conns : c \notin X => conn'[c] = conn[c]
<1>1. PoolTypes /\ PoolShape /\ OneOwner /\ Watched
    BY Zenon DEF PoolInv
<1>2. \A c \in Conns : c \notin X => conn'[c] = conn[c]
    OBVIOUS
<1>3. ASSUME NEW c \in X
      PROVE  /\ c \in Conns /\ InUse(conn'[c])
             /\ conn'[c].fd = conn[c].fd /\ conn'[c].events = conn[c].events
             /\ conn'[c].state = "KDisconnecting"
  <2>1. c \in Conns /\ InUse(conn[c])
      BY PoolFacts
  <2>2. conn'[c] = [conn[c] EXCEPT !.state = "KDisconnecting"]
      BY <2>1
  <2>3. PICK ch : ch = conn[c]
      OBVIOUS
  <2>4. PICK u : /\ u = [ch EXCEPT !.state = "KDisconnecting"]
                 /\ InUse(u) /\ u.fd = ch.fd /\ u.events = ch.events
                 /\ u.state = "KDisconnecting"
    <3>1. InUse(ch)
        BY <2>1, <2>3
    <3> QED
        BY <3>1, ShutDown
  <2> QED
      BY <2>1, <2>2, <2>3, <2>4
<1>4. \A c \in Conns : conn'[c].fd = conn[c].fd /\ conn'[c].events = conn[c].events
    BY <1>2, <1>3
<1>5. PoolTypes'
  <2>1. \A c \in Conns : conn'[c] \in Connections
      BY <1>1, <1>2, <1>3 DEF PoolTypes, InUse
  <2>2. conn' \in [Conns -> Connections]
      BY <2>1
  <2> QED
      BY <1>1, <2>2 DEF PoolTypes
<1>6. PoolShape'
    BY <1>1, <1>2, <1>3 DEF PoolShape
<1>7. OneOwner' /\ Watched'
  <2>1. active \subseteq Conns
      BY <1>1, Zenon DEF PoolTypes
  <2> QED
      BY <1>1, <1>4, <2>1 DEF OneOwner, Watched
<1> QED
    BY <1>2, <1>3, <1>4, <1>5, <1>6, <1>7 DEF PoolInv

-----------------------------------------------------------------------------
(* The descriptors.                                                         *)

\* What the invariant says of the descriptors.
HandedInv ==
    /\ sock \in [Fds -> Sockets]
    /\ pendingFunctors \in Seq(Fds) /\ functors \in Seq(Fds)
    /\ phase # "functors" => functors = <<>>
    /\ Handed

\* The queue is a sequence of descriptors.
LEMMA QueueType ==
    ASSUME HandedInv
    PROVE  queue \in Seq(Fds)
<1>1. pendingFunctors \in Seq(Fds) /\ functors \in Seq(Fds)
    BY Zenon DEF HandedInv
<1> QED
    BY <1>1, ConcatProperties DEF queue

\* No descriptor is opened, closed, handed over or taken.
LEMMA HandedQuiet ==
    ASSUME HandedInv, sock' \in [Fds -> Sockets],
           \A f \in Fds : sock'[f].open = sock[f].open,
           UNCHANGED <<pendingFunctors, functors, active>>,
           \A c \in active : conn'[c].fd = conn[c].fd,
           phase' = "functors" => phase = "functors",
           phase = "functors" => phase' = "functors" \/ functors = <<>>
    PROVE  HandedInv'
<1>1. queue' = queue /\ owned' = owned /\ opened' = opened
    BY DEF queue, owned, opened
<1> QED
    BY <1>1 DEF HandedInv, Handed

\* accept() opens a descriptor and hands it over.
LEMMA HandedAccept ==
    ASSUME HandedInv, NEW f \in Fds, Accept(f)
    PROVE  HandedInv'
<1>1. /\ f \notin opened /\ pendingFunctors' = Append(pendingFunctors, f)
      /\ sock' = [sock EXCEPT ![f] = [open |-> TRUE, peer |-> "open", expired |-> FALSE]]
      /\ UNCHANGED <<functors, active, conn, phase>>
    BY DEF Accept, opened, poolVars, batchVars
<1>2. /\ sock \in [Fds -> Sockets]
      /\ pendingFunctors \in Seq(Fds) /\ functors \in Seq(Fds) /\ queue \in Seq(Fds)
      /\ IsInjective(queue) /\ Range(queue) \cap owned = {}
      /\ opened = Range(queue) \cup owned
    BY QueueType, Zenon DEF HandedInv, Handed
<1>3. pendingFunctors' = pendingFunctors \o <<f>> /\ pendingFunctors' \in Seq(Fds)
    BY <1>1, <1>2, AppendIsConcat
<1>4. queue' = Append(queue, f)
  <2>1. <<f>> \in Seq(Fds)
      OBVIOUS
  <2>2. queue' = functors \o (pendingFunctors \o <<f>>)
      BY <1>1, <1>3 DEF queue
  <2>3. functors \o (pendingFunctors \o <<f>>) = queue \o <<f>>
      BY <1>2, <2>1, ConcatAssociative DEF queue
  <2> QED
      BY <1>2, <2>2, <2>3, AppendIsConcat
<1>5. IsInjective(queue') /\ Range(queue') = Range(queue) \cup {f}
    BY <1>1, <1>2, <1>4, AppendDistinct
<1>6. owned' = owned
    BY <1>1 DEF owned
<1>7. opened' = opened \cup {f} /\ sock' \in [Fds -> Sockets]
    BY <1>1, <1>2 DEF opened, Sockets
<1>8. Handed'
    BY <1>1, <1>2, <1>5, <1>6, <1>7 DEF Handed
<1> QED
    BY <1>1, <1>3, <1>7, <1>8 DEF HandedInv

\* A connection and its descriptor are closed.
LEMMA HandedClose ==
    ASSUME PoolInv, HandedInv, NEW c \in active, HandleClose(c),
           UNCHANGED <<pendingFunctors, functors, phase>>
    PROVE  HandedInv'
<1>1. PICK f : f = conn[c].fd
    OBVIOUS
<1>2. /\ conn' = [conn EXCEPT ![c] = Unused]
      /\ sock' = [sock EXCEPT ![f] = NoSock] /\ active' = active \ {c}
    BY <1>1, Zenon DEF HandleClose
<1>3. /\ conn \in [Conns -> Connections] /\ active \subseteq Conns /\ OneOwner
    BY Zenon DEF PoolInv, PoolTypes
<1>4. /\ sock \in [Fds -> Sockets] /\ Range(queue) \cap owned = {}
      /\ IsInjective(queue) /\ opened = Range(queue) \cup owned
    BY Zenon DEF HandedInv, Handed
<1>5. owned' = owned \ {f}
    BY <1>1, <1>2, <1>3 DEF owned, OneOwner
<1>6. f \in owned
    BY <1>1 DEF owned
<1>7. sock' \in [Fds -> Sockets] /\ opened' = opened \ {f}
    BY <1>2, <1>4 DEF opened, NoSock, Sockets
<1>8. queue' = queue
    BY DEF queue
<1>9. Handed'
    BY <1>4, <1>5, <1>6, <1>7, <1>8 DEF Handed
<1> QED
    BY <1>7, <1>9 DEF HandedInv

\* The loop takes the batch.
LEMMA HandedBatch ==
    ASSUME HandedInv, DoPendingFunctors
    PROVE  HandedInv'
<1>1. /\ phase = "handle" /\ phase' = "functors"
      /\ functors' = pendingFunctors /\ pendingFunctors' = <<>>
      /\ UNCHANGED <<conn, active, sock>>
    BY DEF DoPendingFunctors, poolVars
<1>2. /\ sock \in [Fds -> Sockets] /\ functors = <<>>
      /\ pendingFunctors \in Seq(Fds) /\ Handed
    BY <1>1 DEF HandedInv
<1>3. queue' = pendingFunctors /\ queue = pendingFunctors
    BY <1>1, <1>2, ConcatEmptySeq DEF queue
<1>4. owned' = owned /\ opened' = opened
    BY <1>1 DEF owned, opened
<1>5. Handed'
    BY <1>2, <1>3, <1>4 DEF Handed
<1>6. <<>> \in Seq(Fds)
    OBVIOUS
<1> QED
    BY <1>1, <1>2, <1>5, <1>6 DEF HandedInv

\* A descriptor of the batch is given to a connection.
LEMMA HandedTake ==
    ASSUME PoolInv, HandedInv, NEW c \in Conns, c \notin active,
           functors # <<>>, functors' = Tail(functors),
           NEW ch, ch.fd = Head(functors), conn' = [conn EXCEPT ![c] = ch],
           active' = active \cup {c},
           UNCHANGED <<sock, pendingFunctors, phase>>
    PROVE  HandedInv'
<1>1. /\ sock \in [Fds -> Sockets]
      /\ pendingFunctors \in Seq(Fds) /\ functors \in Seq(Fds) /\ queue \in Seq(Fds)
      /\ IsInjective(queue) /\ Range(queue) \cap owned = {}
      /\ opened = Range(queue) \cup owned
      /\ phase # "functors" => functors = <<>>
    BY QueueType, Zenon DEF HandedInv, Handed
<1>2. conn \in [Conns -> Connections] /\ active \subseteq Conns
    BY Zenon DEF PoolInv, PoolTypes
<1>3. PICK f \in Fds, t \in Seq(Fds) : f = Head(functors) /\ t = Tail(functors)
    BY <1>1, HeadTailProperties
<1>4. queue # <<>> /\ Head(queue) = f /\ Tail(queue) = t \o pendingFunctors
    BY <1>1, <1>3 DEF queue
<1>5. queue' = Tail(queue)
    BY <1>3, <1>4 DEF queue
<1>6. IsInjective(queue') /\ f \in Range(queue) /\ Range(queue') = Range(queue) \ {f}
    BY <1>1, <1>4, <1>5, TailDistinct
<1>7. owned' = owned \cup {f}
    BY <1>2, <1>3 DEF owned
<1>8. opened' = opened
    BY DEF opened
<1>9. Handed'
    BY <1>1, <1>6, <1>7, <1>8 DEF Handed
<1> QED
    BY <1>1, <1>3, <1>9 DEF HandedInv

-----------------------------------------------------------------------------
(* The idle connections.                                                    *)

\* What the invariant says of the list of idle connections.
IdleInv ==
    /\ connectionTimeList \in Seq(Conns)
    /\ lastReceiveTime \in [Conns -> Nat] /\ now \in Nat /\ setBack \in Nat
    /\ HeardBefore
    /\ active \subseteq Conns
    /\ IdleOn => Listed(connectionTimeList, active, lastReceiveTime, setBack)

\* This is what IdleListSorted says.
LEMMA ListedIs ==
    IdleListSorted <=> (IdleOn => Listed(connectionTimeList, active, lastReceiveTime, setBack))
  BY Zenon DEF IdleListSorted, Listed

\* The clock goes on, or back by no more than setBack grows.
ClockMoves ==
    /\ now \in Nat /\ setBack \in Nat
    /\ now' \in Nat /\ setBack' \in Nat
    /\ setBack <= setBack' /\ now + setBack <= now' + setBack'

\* It may also stand.
LEMMA ClockStands ==
    ASSUME IdleInv, UNCHANGED clockVars
    PROVE  now' = now /\ setBack' = setBack /\ ClockMoves
<1>1. now' = now /\ setBack' = setBack /\ now \in Nat /\ setBack \in Nat
    BY DEF clockVars, IdleInv
<1> QED
    BY <1>1 DEF ClockMoves

\* What was no further than d ahead of the clock stays so.
LEMMA ClockCatchesUp ==
    ASSUME ClockMoves, NEW a \in Nat, NEW d \in Nat
    PROVE  /\ a <= now + d + setBack => a <= now' + d + setBack'
           /\ a <= now + setBack => a <= now' + setBack'
<1>1. PICK n, b, m, e : n = now /\ b = setBack /\ m = now' /\ e = setBack'
    OBVIOUS
<1>2. n \in Nat /\ b \in Nat /\ m \in Nat /\ e \in Nat /\ n + b <= m + e
    BY <1>1 DEF ClockMoves
<1>3. (a <= n + d + b => a <= m + d + e) /\ (a <= n + b => a <= m + e)
    BY <1>2
<1> QED
    BY <1>1, <1>3

\* No connection is heard of, none comes and none goes.
LEMMA IdleQuiet ==
    ASSUME IdleInv, UNCHANGED <<connectionTimeList, lastReceiveTime, active>>, ClockMoves
    PROVE  IdleInv'
<1>1. /\ \A c \in Conns : lastReceiveTime[c] \in Nat /\ lastReceiveTime[c] <= now + setBack
      /\ active \subseteq Conns
    BY DEF IdleInv, HeardBefore
<1>2. HeardBefore'
  <2>1. \A c \in Conns : lastReceiveTime[c] <= now' + setBack'
      BY <1>1, ClockCatchesUp DEF ClockMoves
  <2> QED
      BY <2>1 DEF HeardBefore
<1>3. IdleOn => Listed(connectionTimeList, active, lastReceiveTime, setBack')
  <2>1. \A a \in active : lastReceiveTime[a] \in Nat
      BY <1>1
  <2> QED
      BY <2>1, ListedLonger DEF IdleInv, ClockMoves
<1> QED
    BY <1>2, <1>3 DEF IdleInv, ClockMoves

\* The time a connection was heard of.
LEMMA Touched ==
    ASSUME IdleInv, NEW c \in Conns, Touch(c) \/ UNCHANGED lastReceiveTime, UNCHANGED clockVars
    PROVE  /\ lastReceiveTime' \in [Conns -> Nat] /\ HeardBefore'
           /\ \A d \in Conns : d # c => lastReceiveTime'[d] = lastReceiveTime[d]
           /\ IdleOn /\ Touch(c) => lastReceiveTime'[c] = now
<1>1. /\ lastReceiveTime \in [Conns -> Nat] /\ now \in Nat /\ setBack \in Nat
      /\ \A d \in Conns : lastReceiveTime[d] <= now + setBack
      /\ now' = now /\ setBack' = setBack
    BY ClockStands DEF IdleInv, HeardBefore
<1>2. CASE UNCHANGED lastReceiveTime /\ ~(IdleOn /\ Touch(c))
    BY <1>1, <1>2 DEF HeardBefore
<1>3. CASE IdleOn /\ Touch(c)
  <2>1. lastReceiveTime' = [lastReceiveTime EXCEPT ![c] = now]
      BY <1>3, Zenon DEF Touch
  <2>2. \A d \in Conns : lastReceiveTime'[d] <= now + setBack
      BY <1>1, <2>1
  <2> QED
      BY <1>1, <2>1, <2>2 DEF HeardBefore
<1>4. CASE ~IdleOn /\ Touch(c)
    BY <1>2, <1>4 DEF Touch
<1> QED
    BY <1>2, <1>3, <1>4, Zenon

\* A connection is heard of, or comes.
LEMMA IdleMove ==
    ASSUME IdleInv, NEW c \in Conns, Touch(c), MoveToTail(c),
           UNCHANGED clockVars, active' = active \cup {c}
    PROVE  IdleInv'
<1>1. /\ connectionTimeList \in Seq(Conns) /\ now \in Nat /\ active \subseteq Conns
      /\ IdleOn => Listed(connectionTimeList, active, lastReceiveTime, setBack)
      /\ setBack \in Nat /\ now' = now /\ setBack' = setBack
    BY ClockStands, Zenon DEF IdleInv
<1>2. /\ lastReceiveTime' \in [Conns -> Nat] /\ HeardBefore'
      /\ \A d \in Conns : d # c => lastReceiveTime'[d] = lastReceiveTime[d]
      /\ IdleOn => lastReceiveTime'[c] = now
    BY Touched
<1>3. active' \subseteq Conns
    BY <1>1
<1>4. CASE ~IdleOn
  <2>1. connectionTimeList' = connectionTimeList
      BY <1>4, Zenon DEF MoveToTail
  <2> QED
      BY <1>1, <1>2, <1>3, <1>4, <2>1 DEF IdleInv
<1>5. CASE IdleOn
  <2>1. PICK s : s = Without(connectionTimeList, c)
      OBVIOUS
  <2>2. connectionTimeList' = Append(s, c)
      BY <1>5, <2>1, Zenon DEF MoveToTail
  <2>3. s \in Seq(Conns) /\ Listed(s, active \ {c}, lastReceiveTime, setBack)
      BY <1>1, <1>5, <2>1, WithoutEffect
  <2>4. PICK u : u = lastReceiveTime'
      OBVIOUS
  <2>5. PICK A : A = active \ {c}
      OBVIOUS
  <2>6. \A a \in A : u[a] = lastReceiveTime[a]
      BY <1>1, <1>2, <2>4, <2>5
  <2>7. Listed(s, A, u, setBack)
      BY <2>3, <2>5, <2>6, OtherTimes
  <2>8. c \notin A /\ \A a \in A : u[a] <= u[c] + setBack
      BY <1>1, <1>2, <1>5, <2>4, <2>5 DEF HeardBefore
  <2>9. Append(s, c) \in Seq(Conns) /\ Listed(Append(s, c), A \cup {c}, u, setBack)
      BY <2>3, <2>7, <2>8, ListedLast
  <2>10. A \cup {c} = active'
      BY <2>5
  <2>11. Listed(connectionTimeList', active', lastReceiveTime', setBack')
      BY <1>1, <2>2, <2>4, <2>9, <2>10
  <2>12. connectionTimeList' \in Seq(Conns) /\ now' \in Nat /\ setBack' \in Nat
      BY <1>1, <2>2, <2>9
  <2> QED
      BY <1>2, <1>3, <2>11, <2>12, Zenon DEF IdleInv, Listed
<1> QED
    BY <1>4, <1>5

\* A connection goes.
LEMMA IdleClose ==
    ASSUME IdleInv, NEW c \in Conns, Touch(c) \/ UNCHANGED lastReceiveTime,
           UNCHANGED clockVars, HandleClose(c)
    PROVE  IdleInv'
<1>1. /\ connectionTimeList \in Seq(Conns) /\ now \in Nat /\ active \subseteq Conns
      /\ IdleOn => Listed(connectionTimeList, active, lastReceiveTime, setBack)
      /\ setBack \in Nat /\ now' = now /\ setBack' = setBack
    BY ClockStands, Zenon DEF IdleInv
<1>2. /\ lastReceiveTime' \in [Conns -> Nat] /\ HeardBefore'
      /\ \A d \in Conns : d # c => lastReceiveTime'[d] = lastReceiveTime[d]
    BY Touched
<1>3. active' = active \ {c} /\ connectionTimeList' = Without(connectionTimeList, c)
    BY Zenon DEF HandleClose
<1>4. connectionTimeList' \in Seq(Conns) /\ active' \subseteq Conns /\ now' \in Nat /\ setBack' \in Nat
    BY <1>1, <1>3, WithoutType
<1>5. CASE ~IdleOn
    BY <1>2, <1>4, <1>5 DEF IdleInv
<1>6. CASE IdleOn
  <2>1. Listed(Without(connectionTimeList, c), active \ {c}, lastReceiveTime, setBack)
      BY <1>1, <1>6, WithoutEffect
  <2>2. PICK u, A : u = lastReceiveTime' /\ A = active \ {c}
      OBVIOUS
  <2>3. \A a \in A : u[a] = lastReceiveTime[a]
      BY <1>1, <1>2, <2>2
  <2>4. Listed(Without(connectionTimeList, c), A, u, setBack)
      BY <2>1, <2>2, <2>3, OtherTimes
  <2>5. Listed(connectionTimeList', active', lastReceiveTime', setBack')
      BY <1>1, <1>3, <2>2, <2>4
  <2> QED
      BY <1>2, <1>4, <2>5, Zenon DEF IdleInv, Listed
<1> QED
    BY <1>5, <1>6

\* A connection that is too old even for a clock that was set back is found: those
\* before it were not heard of so much later that they would not be too old.
LEMMA OldOnesWalked ==
    ASSUME IdleInv, IdleOn, NEW c \in active, Age(c) > idleSeconds + setBack
    PROVE  c \in TooOld
<1>1. PICK s : s = connectionTimeList
    OBVIOUS
<1>2. /\ s \in Seq(Conns) /\ lastReceiveTime \in [Conns -> Nat]
      /\ now \in Nat /\ setBack \in Nat /\ idleSeconds \in Int
      /\ Range(s) = active
      /\ \A i, j \in DOMAIN s : i < j => lastReceiveTime[s[i]] <= lastReceiveTime[s[j]] + setBack
    BY <1>1, ConstantsAssumption DEF IdleInv, Listed
<1>3. PICK j \in DOMAIN s : s[j] = c
    BY <1>2 DEF Range
<1>4. now - lastReceiveTime[c] > idleSeconds + setBack
    BY DEF Age
<1>5. \A k \in 1..j : now - lastReceiveTime[s[k]] > idleSeconds
  <2> TAKE k \in 1..j
  <2>1. k \in DOMAIN s /\ s[k] \in Conns /\ (k < j \/ k = j)
      BY <1>2, <1>3
  <2>2. lastReceiveTime[s[k]] \in Nat /\ lastReceiveTime[c] \in Nat
      BY <1>2, <1>3, <2>1
  <2>3. lastReceiveTime[s[k]] <= lastReceiveTime[c] + setBack
      BY <1>2, <1>3, <2>1, <2>2
  <2> QED
      BY <1>2, <1>3, <1>4, <2>2, <2>3
<1>6. c \in Walked /\ Age(c) > idleSeconds
  <2>1. j \in 1..j
      BY <1>2, <1>3
  <2>2. now - lastReceiveTime[c] > idleSeconds
      BY <1>3, <1>5, <2>1
  <2> QED
      BY <1>1, <1>3, <1>5, <2>2 DEF Walked, Age
<1> QED
    BY <1>6 DEF TooOld

\* Who is from the future counts as heard of now: all before it in the list are
\* either too old or count as heard of now as well.
LEMMA IdleJump ==
    ASSUME IdleInv, IdleOn, UNCHANGED <<connectionTimeList, active, clockVars>>,
           lastReceiveTime' = [c \in Conns |-> IF c \in Jumped THEN now ELSE lastReceiveTime[c]]
    PROVE  IdleInv'
<1>1. now' = now /\ setBack' = setBack
    BY ClockStands
<1>2. PICK s, t, u : s = connectionTimeList /\ t = lastReceiveTime /\ u = lastReceiveTime'
    OBVIOUS
<1>3. /\ s \in Seq(Conns) /\ t \in [Conns -> Nat] /\ now \in Nat /\ setBack \in Nat
      /\ idleSeconds \in Int /\ idleSeconds > 0
      /\ \A c \in Conns : t[c] <= now + setBack
      /\ active \subseteq Conns /\ Listed(s, active, t, setBack)
    BY <1>2, ConstantsAssumption DEF IdleInv, HeardBefore, IdleOn
<1>4. \A c \in Conns : u[c] = IF c \in Jumped THEN now ELSE t[c]
    BY <1>2
<1>5. u \in [Conns -> Nat]
    BY <1>2, <1>3
<1>6. HeardBefore'
    BY <1>1, <1>2, <1>3, <1>4 DEF HeardBefore
<1>7. IsInjective(s) /\ DOMAIN s = 1..Len(s) /\ Len(s) \in Nat
    BY <1>3 DEF Listed
<1>8. ASSUME NEW i \in DOMAIN s, NEW j \in DOMAIN s, i < j
      PROVE  u[s[i]] <= u[s[j]] + setBack
  <2>1. s[i] \in Conns /\ s[j] \in Conns /\ t[s[i]] \in Nat /\ t[s[j]] \in Nat
      BY <1>3, <1>7
  <2>2. t[s[i]] <= t[s[j]] + setBack
      BY <1>3, <1>8 DEF Listed
  <2>3. \A c \in Jumped : now - t[c] < 0
      BY <1>2 DEF Jumped, Age
  <2>4. CASE s[j] \notin Jumped
    <3>1. u[s[j]] = t[s[j]]
        BY <1>4, <2>1, <2>4
    <3>2. u[s[i]] <= t[s[i]]
      <4>1. CASE s[i] \in Jumped
          BY <1>3, <1>4, <2>1, <2>3, <4>1
      <4>2. CASE s[i] \notin Jumped
          BY <1>4, <2>1, <4>2
      <4> QED
          BY <4>1, <4>2
    <3>3. u[s[i]] \in Nat
        BY <1>5, <2>1
    <3> QED
        BY <1>3, <2>1, <2>2, <3>1, <3>2, <3>3
  <2>5. CASE s[j] \in Jumped
    <3>1. u[s[j]] = now
        BY <1>4, <2>1, <2>5
    <3>2. PICK m \in DOMAIN s : /\ s[m] = s[j]
                                /\ \A k \in 1..m : \/ now - t[s[k]] > idleSeconds
                                                   \/ now - t[s[k]] < 0
      <4>1. s[j] \in Walked
          BY <2>5 DEF Jumped
      <4> QED
          BY <1>2, <4>1 DEF Walked, Age
    <3>3. m = j
        BY <1>7, <3>2 DEF IsInjective
    <3>4. i \in 1..m
        BY <1>7, <1>8, <3>3
    <3>5. now - t[s[i]] > idleSeconds \/ now - t[s[i]] < 0
        BY <3>2, <3>4
    <3>6. CASE s[i] \in Jumped
        BY <1>3, <1>4, <2>1, <3>1, <3>6
    <3>7. CASE s[i] \notin Jumped
      <4>1. s[i] \in Walked
        <5>1. \A k \in 1..i : k \in 1..m
            BY <1>7, <1>8, <3>3
        <5> QED
            BY <1>2, <3>2, <5>1 DEF Walked, Age
      <4>2. ~(now - t[s[i]] < 0)
          BY <1>2, <3>7, <4>1 DEF Jumped, Age
      <4>3. u[s[i]] = t[s[i]]
          BY <1>4, <2>1, <3>7
      <4> QED
          BY <1>3, <2>1, <3>1, <3>5, <4>2, <4>3
    <3> QED
        BY <3>6, <3>7
  <2> QED
      BY <2>4, <2>5
<1>9. Listed(s, active, u, setBack)
    BY <1>3, <1>8 DEF Listed
<1> QED
    BY <1>1, <1>2, <1>3, <1>5, <1>6, <1>9 DEF IdleInv

-----------------------------------------------------------------------------
(* The timers.                                                              *)

\* What the invariant says of the timers.
TimersInv ==
    /\ timers \in SUBSET Callbacks /\ due \in SUBSET Callbacks
    /\ now \in Nat /\ setBack \in Nat
    /\ current # timerChannel => due = {}
    /\ ShutdownsEnd /\ RemoverSet /\ NoTimers

\* Callbacks have their times.
LEMMA CallbackTimes == \A t \in Callbacks : t[1] \in Nat
  BY DEF Callbacks

\* No timer is set or expires, and no connection is shut down.
LEMMA TimersQuiet ==
    ASSUME TimersInv, UNCHANGED <<timers, due>>, ClockMoves,
           current' # timerChannel => current # timerChannel \/ due = {},
           \A c \in active' : conn'[c].state = "KDisconnecting" =>
              c \in active /\ conn[c].state = "KDisconnecting"
    PROVE  TimersInv'
<1>1. /\ \A t \in timers \cup due : t[1] \in Nat
      /\ now \in Nat /\ setBack \in Nat /\ now' \in Nat /\ setBack' \in Nat
      /\ now + setBack <= now' + setBack' /\ CloseDelay \in Nat
    BY CallbackTimes, ConstantsAssumption DEF TimersInv, ClockMoves
<1>2. ShutdownsEnd'
  <2> SUFFICES ASSUME NEW c \in active', conn'[c].state = "KDisconnecting"
               PROVE  \E t \in timers \cup due :
                        t[2] = c /\ t[1] <= now' + CloseDelay + setBack'
      BY DEF ShutdownsEnd
  <2>1. PICK t \in timers \cup due : t[2] = c /\ t[1] <= now + CloseDelay + setBack
      BY DEF TimersInv, ShutdownsEnd
  <2>2. t[1] <= now' + CloseDelay + setBack'
      BY <1>1, <2>1, ClockCatchesUp
  <2> QED
      BY <2>1, <2>2
<1>3. RemoverSet'
  <2> SUFFICES ASSUME IdleOn PROVE \E t \in timers : t[2] = None /\ t[1] <= now' + 1 + setBack'
      BY DEF RemoverSet
  <2>1. PICK t \in timers : t[2] = None /\ t[1] <= now + 1 + setBack
      BY DEF TimersInv, RemoverSet
  <2>2. t[1] <= now' + 1 + setBack'
      BY <1>1, <2>1, ClockCatchesUp
  <2> QED
      BY <2>1, <2>2
<1> QED
    BY <1>1, <1>2, <1>3 DEF TimersInv, NoTimers

\* The callbacks that are due are taken.
LEMMA TimersExpire ==
    ASSUME TimersInv, NEW ch \in Conns \cup {timerChannel}, NextChannel(ch)
    PROVE  TimersInv'
<1>1. /\ current = None /\ current' = ch /\ UNCHANGED <<conn, active>>
      /\ now' = now /\ setBack' = setBack
      /\ ch # timerChannel => UNCHANGED <<due, timers>>
      /\ ch = timerChannel => /\ due' = {t \in timers : t[1] <= now}
                              /\ timers' = (timers \ due') \cup Restarted(due')
    BY DEF NextChannel, poolVars, clockVars
<1>2. due = {} /\ now \in Nat /\ setBack \in Nat
    BY <1>1, ConstantsAssumption DEF TimersInv
<1>3. CASE ch # timerChannel
  <2>1. ClockMoves
      BY <1>1, <1>2 DEF ClockMoves
  <2> QED
      BY <1>1, <1>2, <1>3, <2>1, TimersQuiet
<1>4. CASE ch = timerChannel
  <2>1. /\ timers \in SUBSET Callbacks /\ ShutdownsEnd /\ RemoverSet /\ NoTimers
      BY Zenon DEF TimersInv
  <2>2. PICK again : again = <<now + 1, None>>
      OBVIOUS
  <2>3. again \in Callbacks /\ again[1] = now + 1 /\ again[2] = None
      BY <1>2, <2>2 DEF Callbacks
  <2>4. /\ Restarted(due') \subseteq {again}
        /\ (\E t \in due' : t[2] = None) => again \in Restarted(due')
      BY <2>2 DEF Restarted
  <2>5. /\ due' \subseteq timers /\ timers' \subseteq timers \cup {again}
        /\ timers \cup due \subseteq timers' \cup due'
        /\ \A t \in timers : t \in timers' \/ t \in due'
      BY <1>1, <1>2, <1>4, <2>4
  <2>6. ShutdownsEnd'
      BY <1>1, <2>1, <2>5 DEF ShutdownsEnd
  <2>7. RemoverSet'
    <3> SUFFICES ASSUME IdleOn
                 PROVE  \E t \in timers' : t[2] = None /\ t[1] <= now + 1 + setBack
        BY <1>1 DEF RemoverSet
    <3>1. PICK t \in timers : t[2] = None /\ t[1] <= now + 1 + setBack
        BY <2>1 DEF RemoverSet
    <3>2. CASE t \in timers'
        BY <3>1, <3>2
    <3>3. CASE t \in due'
      <4>1. again \in timers'
          BY <1>1, <1>4, <2>4, <3>1, <3>3
      <4>2. again[2] = None /\ again[1] <= now + 1 + setBack
          BY <1>2, <2>3
      <4> QED
          BY <4>1, <4>2
    <3> QED
        BY <2>5, <3>2, <3>3
  <2>8. NoTimers'
    <3>1. due' = {} => Restarted(due') = {}
        BY DEF Restarted
    <3> QED
        BY <1>1, <1>4, <2>1, <3>1 DEF NoTimers
  <2> QED
      BY <1>1, <1>2, <1>4, <2>1, <2>3, <2>5, <2>6, <2>7, <2>8 DEF TimersInv
<1> QED
    BY <1>3, <1>4

\* Who is told to shut down gets a timer; the others keep theirs.
LEMMA TimersRemove ==
    ASSUME TimersInv, NEW X \in SUBSET Conns,
           NEW t \in due, t[2] = None, due' = due \ {t},
           timers' = timers \cup CloseTimers(X),
           UNCHANGED <<active, current, now, setBack>>,
           current = timerChannel, active \subseteq Conns,
           \A c \in Conns : c \notin X => conn'[c] = conn[c]
    PROVE  TimersInv'
<1>1. /\ timers \in SUBSET Callbacks /\ due \in SUBSET Callbacks
      /\ ShutdownsEnd /\ RemoverSet /\ NoTimers
      /\ now \in Nat /\ setBack \in Nat /\ CloseDelay \in Nat
    BY Zenon, ConstantsAssumption DEF TimersInv
<1>2. \A c \in X : <<now + CloseDelay, c>> \in Callbacks /\ <<now + CloseDelay, c>> \in timers'
    BY <1>1 DEF CloseTimers, Callbacks
<1>3. timers' \in SUBSET Callbacks /\ due' \in SUBSET Callbacks
  <2>1. CloseTimers(X) \subseteq Callbacks
      BY <1>2 DEF CloseTimers
  <2> QED
      BY <1>1, <2>1
<1>4. NoTimers' /\ RemoverSet'
    BY <1>1 DEF NoTimers, RemoverSet
<1>5. ShutdownsEnd'
  <2> SUFFICES ASSUME NEW c \in active, conn'[c].state = "KDisconnecting"
               PROVE  \E u \in timers' \cup due' :
                        u[2] = c /\ u[1] <= now + CloseDelay + setBack
      BY DEF ShutdownsEnd
  <2>1. CASE c \in X
    <3>1. PICK u : u = <<now + CloseDelay, c>>
        OBVIOUS
    <3>2. u[2] = c /\ u \in timers' /\ u[1] = now + CloseDelay
        BY <1>2, <2>1, <3>1
    <3>3. u[1] <= now + CloseDelay + setBack
        BY <1>1, <3>2
    <3> QED
        BY <3>2, <3>3
  <2>2. CASE c \notin X
    <3>1. PICK u \in timers \cup due : u[2] = c /\ u[1] <= now + CloseDelay + setBack
        BY <1>1, <2>2 DEF ShutdownsEnd
    <3>2. u # t
        BY <3>1, ConstantsAssumption
    <3> QED
        BY <3>1, <3>2
  <2> QED
      BY <2>1, <2>2
<1> QED
    BY <1>1, <1>3, <1>4, <1>5 DEF TimersInv

\* A timer closes its connection, unless that has been closed.
LEMMA TimersForce ==
    ASSUME TimersInv, NEW t \in due, due' = due \ {t}, UNCHANGED <<timers, current, now, setBack>>,
           current = timerChannel,
           \A c \in active' : c \in active /\ conn'[c] = conn[c] /\ c # t[2]
    PROVE  TimersInv'
<1>1. /\ timers \in SUBSET Callbacks /\ due \in SUBSET Callbacks
      /\ ShutdownsEnd /\ RemoverSet /\ NoTimers /\ now \in Nat /\ setBack \in Nat
    BY Zenon DEF TimersInv
<1>2. ShutdownsEnd'
  <2> SUFFICES ASSUME NEW c \in active', conn'[c].state = "KDisconnecting"
               PROVE  \E u \in timers' \cup due' :
                        u[2] = c /\ u[1] <= now + CloseDelay + setBack
      BY DEF ShutdownsEnd
  <2>1. PICK u \in timers \cup due : u[2] = c /\ u[1] <= now + CloseDelay + setBack
      BY <1>1 DEF ShutdownsEnd
  <2>2. u # t
      BY <2>1
  <2> QED
      BY <2>1, <2>2
<1> QED
    BY <1>1, <1>2 DEF TimersInv, NoTimers, RemoverSet

-----------------------------------------------------------------------------
(* The invariant in parts.                                                  *)

\* What the invariant says of the loop thread.
TurnInv ==
    /\ phase \in {"poll", "handle", "functors", "crashed", "killed"}
    /\ activeChannels \in SUBSET (Conns \cup {timerChannel})
    /\ toHandle \in SUBSET activeChannels
    /\ current \in activeChannels \cup {None}
    /\ revents \in [Conns -> SUBSET {"read", "write"}]
    /\ phase \in {"poll", "functors"} => current = None /\ toHandle = {}

\* All of the parts.
GoodState == PoolInv /\ HandedInv /\ IdleInv /\ TimersInv /\ TurnInv

\* They are the invariant.
LEMMA InParts == IInv <=> GoodState
<1>1. ASSUME IInv PROVE GoodState
  <2>1. TypeOK /\ TurnOfTheLoop /\ PoolShape /\ OneOwner /\ Watched /\ Handed
        /\ IdleListSorted /\ HeardBefore /\ ShutdownsEnd /\ RemoverSet /\ NoTimers
      BY <1>1, Zenon DEF IInv
  <2>2. PoolInv
      BY <2>1, Zenon DEF TypeOK, PoolInv, PoolTypes
  <2>3. HandedInv
      BY <2>1, Zenon DEF TypeOK, TurnOfTheLoop, HandedInv
  <2>4. IdleInv
    <3>1. active \in SUBSET Conns
        BY <2>1, Zenon DEF TypeOK
    <3>2. active \subseteq Conns
        BY <3>1
    <3> QED
        BY <2>1, <3>2, ListedIs, Zenon DEF TypeOK, IdleInv
  <2>5. TimersInv
      BY <2>1, Zenon DEF TypeOK, TurnOfTheLoop, TimersInv
  <2>6. TurnInv
      BY <2>1, Zenon DEF TypeOK, TurnOfTheLoop, TurnInv
  <2> QED
      BY <2>2, <2>3, <2>4, <2>5, <2>6 DEF GoodState
<1>2. ASSUME GoodState PROVE IInv
  <2>1. PoolInv /\ HandedInv /\ IdleInv /\ TimersInv /\ TurnInv
      BY <1>2, Zenon DEF GoodState
  <2>2. /\ PoolTypes /\ PoolShape /\ OneOwner /\ Watched /\ Handed /\ HeardBefore
        /\ ShutdownsEnd /\ RemoverSet /\ NoTimers
      BY <2>1, Zenon DEF PoolInv, HandedInv, IdleInv, TimersInv
  <2>3. IdleListSorted
      BY <2>1, ListedIs, Zenon DEF IdleInv
  <2>4. TypeOK
      BY <2>1, <2>2, Zenon DEF PoolTypes, HandedInv, IdleInv, TimersInv, TurnInv, TypeOK
  <2>5. TurnOfTheLoop
      BY <2>1, Zenon DEF HandedInv, TimersInv, TurnInv, TurnOfTheLoop
  <2> QED
      BY <2>2, <2>3, <2>4, <2>5, Zenon DEF IInv
<1> QED
    BY <1>1, <1>2

-----------------------------------------------------------------------------
(* The steps.                                                               *)

\* The accepting thread, the clients and the clock.
LEMMA OutsideSteps ==
    ASSUME GoodState,
           \/ \E f \in Fds : Accept(f)
           \/ \E f \in Fds, how \in {"closed", "reset"} : PeerLeaves(f, how)
           \/ Tick \/ SetBack \/ UNCHANGED vars
    PROVE  GoodState'
<1>1. PoolInv /\ HandedInv /\ IdleInv /\ TimersInv /\ TurnInv
    BY Zenon DEF GoodState
<1>2. now \in Nat /\ setBack \in Nat /\ sock \in [Fds -> Sockets]
    BY <1>1, Zenon DEF IdleInv, HandedInv
<1>3. ClockMoves
  <2>1. CASE UNCHANGED clockVars
      BY <1>1, <2>1, ClockStands
  <2>2. CASE Tick
      BY <1>2, <2>2 DEF Tick, ClockMoves
  <2>3. CASE SetBack
    <3>1. now' \in 0..(now - 1) /\ setBack' = setBack + (now - now')
        BY <2>3 DEF SetBack
    <3>2. PICK n, b, m, e : n = now /\ b = setBack /\ m = now' /\ e = setBack'
        OBVIOUS
    <3>3. n \in Nat /\ b \in Nat
        BY <1>2, <3>2
    <3>4. m \in 0..(n - 1) /\ e = b + (n - m)
        BY <3>1, <3>2
    <3>5. m \in Nat /\ e \in Nat /\ b <= e /\ n + b <= m + e
        BY <3>3, <3>4
    <3> QED
        BY <3>2, <3>3, <3>5, Zenon DEF ClockMoves
  <2> QED
      BY <2>1, <2>2, <2>3, Zenon DEF Accept, PeerLeaves, vars
<1>4. /\ UNCHANGED <<poolVars, timers, due, connectionTimeList, lastReceiveTime>>
      /\ UNCHANGED <<phase, activeChannels, toHandle, current, revents>>
    BY Zenon DEF Accept, PeerLeaves, Tick, SetBack, vars, poolVars, idleVars, batchVars
<1>5. /\ UNCHANGED <<conn, free, active, channels, epoll>>
      /\ UNCHANGED <<connectionTimeList, lastReceiveTime, timers, due>>
      /\ UNCHANGED <<phase, activeChannels, toHandle, current, revents>>
    BY <1>4 DEF poolVars
<1>6. PoolInv'
    BY <1>1, <1>4, PoolQuiet
<1>7. TimersInv'
    BY <1>1, <1>3, <1>5, TimersQuiet
<1>8. TurnInv'
    BY <1>1, <1>5 DEF TurnInv
<1>9. CASE \E f \in Fds : Accept(f)
  <2>1. PICK f \in Fds : Accept(f)
      BY <1>9
  <2>2. HandedInv'
      BY <1>1, <2>1, HandedAccept
  <2>3. IdleInv'
      BY <1>1, <1>3, <1>5, IdleQuiet
  <2> QED
      BY <1>6, <1>7, <1>8, <2>2, <2>3, Zenon DEF GoodState
<1>10. CASE \E f \in Fds, how \in {"closed", "reset"} : PeerLeaves(f, how)
  <2>1. PICK f \in Fds, how \in {"closed", "reset"} : PeerLeaves(f, how)
      BY <1>10
  <2>2. /\ sock' = [sock EXCEPT ![f].peer = how]
        /\ UNCHANGED <<pendingFunctors, functors>>
      BY <2>1 DEF PeerLeaves, batchVars
  <2>3. /\ sock' \in [Fds -> Sockets] /\ \A g \in Fds : sock'[g].open = sock[g].open
      BY <1>2, <2>2 DEF Sockets
  <2>4. HandedInv'
      BY <1>1, <1>5, <2>2, <2>3, HandedQuiet
  <2>5. IdleInv'
      BY <1>1, <1>3, <1>5, IdleQuiet
  <2> QED
      BY <1>6, <1>7, <1>8, <2>4, <2>5, Zenon DEF GoodState
<1>11. CASE Tick \/ SetBack \/ UNCHANGED vars
  <2>1. UNCHANGED <<sock, pendingFunctors, functors>>
      BY <1>11 DEF Tick, SetBack, vars, batchVars
  <2>2. HandedInv'
      BY <1>1, <1>2, <1>5, <2>1, HandedQuiet
  <2>3. IdleInv'
      BY <1>1, <1>3, <1>5, IdleQuiet
  <2> QED
      BY <1>6, <1>7, <1>8, <2>2, <2>3, Zenon DEF GoodState
<1> QED
    BY <1>9, <1>10, <1>11

\* The loop thread's way through the batch.
LEMMA TurnSteps ==
    ASSUME GoodState,
           \/ \E ch \in Conns \cup {timerChannel} : NextChannel(ch)
           \/ EndEvent \/ DoPendingFunctors \/ EndPendingFunctors \/ Poll
    PROVE  GoodState'
<1>1. PoolInv /\ HandedInv /\ IdleInv /\ TimersInv /\ TurnInv
    BY Zenon DEF GoodState
<1>2. sock \in [Fds -> Sockets]
    BY <1>1, Zenon DEF HandedInv
<1>3. ClockMoves
  <2>1. UNCHANGED clockVars
      BY Zenon DEF NextChannel, EndEvent, DoPendingFunctors, EndPendingFunctors, Poll
  <2> QED
      BY <1>1, <2>1, ClockStands
<1>4. UNCHANGED <<poolVars, connectionTimeList, lastReceiveTime, clockVars, sock>>
    BY Zenon DEF NextChannel, EndEvent, DoPendingFunctors, EndPendingFunctors, Poll, idleVars
<1>5. /\ UNCHANGED <<conn, free, active, channels, epoll>>
      /\ UNCHANGED <<connectionTimeList, lastReceiveTime, sock>>
    BY <1>4 DEF poolVars
<1>6. PoolInv'
    BY <1>1, <1>4, PoolQuiet
<1>7. IdleInv'
    BY <1>1, <1>3, <1>5, IdleQuiet
<1>8. CASE \E ch \in Conns \cup {timerChannel} : NextChannel(ch)
  <2>1. PICK ch \in Conns \cup {timerChannel} : NextChannel(ch)
      BY <1>8
  <2>2. TimersInv'
      BY <1>1, <2>1, TimersExpire
  <2>3. /\ phase = "handle" /\ ch \in toHandle /\ current' = ch /\ toHandle' = toHandle \ {ch}
        /\ UNCHANGED <<pendingFunctors, functors, phase, activeChannels, revents>>
      BY <2>1, Zenon DEF NextChannel
  <2>4. TurnInv'
      BY <1>1, <2>3 DEF TurnInv
  <2>5. HandedInv'
      BY <1>1, <1>2, <1>5, <2>3, HandedQuiet
  <2> QED
      BY <1>6, <1>7, <2>2, <2>4, <2>5, Zenon DEF GoodState
<1>9. CASE EndEvent
  <2>1. /\ phase = "handle" /\ current' = None
        /\ current \in Conns \/ due = {}
        /\ UNCHANGED <<pendingFunctors, functors, phase, activeChannels, toHandle, revents>>
        /\ UNCHANGED <<timers, due>>
      BY <1>9, Zenon DEF EndEvent, idleVars
  <2>2. current # timerChannel \/ due = {}
      BY <2>1, ConstantsAssumption
  <2>3. TimersInv'
      BY <1>1, <1>3, <1>5, <2>1, <2>2, TimersQuiet
  <2>4. TurnInv'
      BY <1>1, <2>1 DEF TurnInv
  <2>5. HandedInv'
      BY <1>1, <1>2, <1>5, <2>1, HandedQuiet
  <2> QED
      BY <1>6, <1>7, <2>3, <2>4, <2>5, Zenon DEF GoodState
<1>10. CASE DoPendingFunctors
  <2>1. /\ current = None /\ toHandle = {} /\ phase' = "functors"
        /\ UNCHANGED <<activeChannels, toHandle, current, revents>>
        /\ UNCHANGED <<timers, due>>
      BY <1>10, Zenon DEF DoPendingFunctors, idleVars
  <2>2. TimersInv'
      BY <1>1, <1>3, <1>5, <2>1, TimersQuiet
  <2>3. TurnInv'
      BY <1>1, <2>1 DEF TurnInv
  <2>4. HandedInv'
      BY <1>1, <1>10, HandedBatch
  <2> QED
      BY <1>6, <1>7, <2>2, <2>3, <2>4, Zenon DEF GoodState
<1>11. CASE EndPendingFunctors
  <2>1. /\ phase = "functors" /\ functors = <<>> /\ phase' = "poll" /\ activeChannels' = {}
        /\ UNCHANGED <<pendingFunctors, functors, toHandle, current, revents>>
        /\ UNCHANGED <<timers, due>>
      BY <1>11, Zenon DEF EndPendingFunctors, idleVars
  <2>2. TimersInv'
      BY <1>1, <1>3, <1>5, <2>1, TimersQuiet
  <2>3. TurnInv'
      BY <1>1, <2>1 DEF TurnInv
  <2>4. HandedInv'
      BY <1>1, <1>2, <1>5, <2>1, HandedQuiet
  <2> QED
      BY <1>6, <1>7, <2>2, <2>3, <2>4, Zenon DEF GoodState
<1>12. CASE Poll
  <2>1. /\ phase = "poll" /\ phase' = "handle"
        /\ revents' \in [Conns -> SUBSET {"read", "write"}]
        /\ \E alarm \in SUBSET {t \in {timerChannel} : timers # {}} :
             activeChannels' = {c \in Conns : revents'[c] # {}} \cup alarm
        /\ toHandle' = activeChannels'
        /\ UNCHANGED <<pendingFunctors, functors, current>>
        /\ UNCHANGED <<timers, due>>
      BY <1>12 DEF Poll, idleVars
  <2>2. TimersInv'
      BY <1>1, <1>3, <1>5, <2>1, TimersQuiet
  <2>3. TurnInv'
      BY <1>1, <2>1 DEF TurnInv
  <2>4. functors = <<>>
      BY <1>1, <2>1 DEF HandedInv
  <2>5. HandedInv'
      BY <1>1, <1>2, <1>5, <2>1, <2>4, HandedQuiet
  <2> QED
      BY <1>6, <1>7, <2>2, <2>3, <2>5, Zenon DEF GoodState
<1> QED
    BY <1>8, <1>9, <1>10, <1>11, <1>12

\* What enableWriting and disableWriting do to the connections.
LEMMA SetEventsEffect ==
    ASSUME PoolInv, NEW c \in active, NEW E \in SUBSET {"read", "write"}, "read" \in E,
           SetEvents(c, E)
    PROVE  /\ PoolInv' /\ active' = active
           /\ \A d \in active : conn'[d].fd = conn[d].fd /\ conn'[d].state = conn[d].state
<1>1. /\ c \in Conns /\ InUse(conn[c]) /\ conn \in [Conns -> Connections]
      /\ active \subseteq Conns
    BY PoolFacts, Zenon DEF PoolInv, PoolTypes
<1>2. PICK b : b = conn[c]
    OBVIOUS
<1>3. PICK ch : /\ ch = Updated([b EXCEPT !.events = E])
                /\ InUse(ch) /\ ch.fd = b.fd /\ ch.state = b.state /\ ch.events = E
  <2>1. InUse(b)
      BY <1>1, <1>2
  <2> QED
      BY <2>1, EventsSet
<1>4. /\ conn' = [conn EXCEPT ![c] = ch]
      /\ epoll' = [epoll EXCEPT ![ch.fd] = Interest(c, ch)]
      /\ UNCHANGED <<free, active, channels>>
    BY <1>2, <1>3, Zenon DEF SetEvents
<1>5. Interest(c, ch) = Registers(c, ch)
    BY <1>3 DEF Interest, Registers, InUse
<1>6. ch.fd = conn[c].fd
    BY <1>2, <1>3
<1>7. PoolInv'
    BY <1>3, <1>4, <1>5, <1>6, PoolEvents
<1>8. \A d \in active : conn'[d].fd = conn[d].fd /\ conn'[d].state = conn[d].state
    BY <1>1, <1>2, <1>3, <1>4
<1> QED
    BY <1>4, <1>7, <1>8

\* A callback of a connection keeps the loop thread's turn.
LEMMA CallbackTurn ==
    ASSUME TurnInv, phase = "handle", phase' \in {"handle", "crashed", "killed"},
           UNCHANGED <<activeChannels, toHandle, current>>,
           NEW c \in Conns, NEW E \in SUBSET {"read", "write"},
           revents' = [revents EXCEPT ![c] = E]
    PROVE  TurnInv'
  BY DEF TurnInv

\* A callback that leaves the connection open.
LEMMA CallbackOpen ==
    ASSUME GoodState, PoolInv', active' = active,
           \A d \in active : conn'[d].fd = conn[d].fd /\ conn'[d].state = conn[d].state,
           sock' \in [Fds -> Sockets], \A f \in Fds : sock'[f].open = sock[f].open,
           phase = "handle", phase' \in {"handle", "crashed", "killed"},
           UNCHANGED <<timers, pendingFunctors, activeChannels, toHandle, current, due, functors>>,
           NEW c \in Conns, NEW E \in SUBSET {"read", "write"},
           revents' = [revents EXCEPT ![c] = E], IdleInv', UNCHANGED clockVars
    PROVE  GoodState'
<1>1. PoolInv /\ HandedInv /\ IdleInv /\ TimersInv /\ TurnInv
    BY Zenon DEF GoodState
<1>2. TurnInv'
    BY <1>1, CallbackTurn
<1>3. functors = <<>>
    BY <1>1 DEF HandedInv
<1>4. HandedInv'
    BY <1>1, <1>3, HandedQuiet
<1>5. TimersInv'
    BY <1>1, ClockStands, TimersQuiet
<1> QED
    BY <1>2, <1>4, <1>5, Zenon DEF GoodState

\* A callback that closes the connection.
LEMMA CallbackClose ==
    ASSUME GoodState, NEW c \in active, HandleClose(c), Touch(c),
           phase = "handle", phase' = "handle",
           UNCHANGED <<timers, pendingFunctors, clockVars, activeChannels, toHandle, current, due,
                       functors>>,
           NEW E \in SUBSET {"read", "write"}, revents' = [revents EXCEPT ![c] = E]
    PROVE  GoodState'
<1>1. PoolInv /\ HandedInv /\ IdleInv /\ TimersInv /\ TurnInv
    BY Zenon DEF GoodState
<1>2. c \in Conns /\ active \subseteq Conns /\ conn \in [Conns -> Connections]
    BY <1>1, Zenon DEF PoolInv, PoolTypes, IdleInv
<1>3. TurnInv'
    BY <1>1, <1>2, CallbackTurn
<1>4. PoolInv'
    BY <1>1, PoolClose
<1>5. HandedInv'
    BY <1>1, HandedClose
<1>6. IdleInv'
    BY <1>1, <1>2, IdleClose
<1>7. active' = active \ {c} /\ conn' = [conn EXCEPT ![c] = Unused]
    BY Zenon DEF HandleClose
<1>8. \A d \in active' : d \in active /\ conn'[d] = conn[d]
    BY <1>2, <1>7
<1>9. TimersInv'
    BY <1>1, <1>8, ClockStands, TimersQuiet
<1> QED
    BY <1>3, <1>4, <1>5, <1>6, <1>9, Zenon DEF GoodState

\* A write leaves all descriptors open.
LEMMA WriteKeepsSockets ==
    ASSUME PoolInv, sock \in [Fds -> Sockets], NEW c \in Conns,
           WriteSome(c) \/ WriteAll(c) \/ WriteError(c) \/ WriteGone(c)
    PROVE  sock' \in [Fds -> Sockets] /\ \A f \in Fds : sock'[f].open = sock[f].open
<1>1. CASE UNCHANGED sock
    BY <1>1
<1>2. CASE WriteError(c)
  <2>1. PICK g : g = conn[c].fd
      OBVIOUS
  <2>2. sock' = [sock EXCEPT ![g].peer = "gone"]
      BY <1>2, <2>1, Zenon DEF WriteError
  <2> QED
      BY <2>2 DEF Sockets
<1> QED
    BY <1>1, <1>2 DEF WriteSome, WriteAll, WriteGone

\* The callbacks of a connection.
LEMMA CallbackSteps ==
    ASSUME GoodState, NEW c \in Conns, ReadCallback(c) \/ WriteCallback(c)
    PROVE  GoodState'
<1>1. PoolInv /\ HandedInv /\ IdleInv /\ TimersInv /\ TurnInv
    BY Zenon DEF GoodState
<1>2. /\ sock \in [Fds -> Sockets]
      /\ revents \in [Conns -> SUBSET {"read", "write"}]
    BY <1>1, Zenon DEF HandedInv, TurnInv
<1>3. ClockMoves
  <2>1. UNCHANGED clockVars
      BY Zenon DEF ReadCallback, WriteCallback
  <2> QED
      BY <1>1, <2>1, ClockStands
<1>4. /\ \A d \in active : /\ d \in Conns /\ conn[d].events \in SUBSET {"read", "write"}
                           /\ "read" \in conn[d].events
      /\ \A d \in Conns : d \notin active =>
           conn[d].fd = NoFd /\ conn[d].state = "KConnecting" /\ conn[d].events = {}
    BY <1>1, PoolFacts
<1>5. CASE UNCHANGED poolVars
  <2> PoolInv' /\ UNCHANGED <<conn, active>>
      BY <1>1, <1>5, PoolQuiet DEF poolVars
  <2>1. CASE WriteCallback(c)
    <3>1. /\ phase = "handle" /\ revents' = [revents EXCEPT ![c] = {}]
          /\ UNCHANGED <<connectionTimeList, lastReceiveTime, timers>>
          /\ UNCHANGED <<pendingFunctors, clockVars, activeChannels, toHandle, current,
                         due, functors>>
          /\ WriteSome(c) \/ WriteAll(c) \/ WriteError(c) \/ WriteGone(c)
        BY <2>1, Zenon DEF WriteCallback, idleVars
    <3>2. IdleInv'
        BY <1>1, <1>3, <3>1, IdleQuiet
    <3>3. phase' \in {"handle", "crashed", "killed"}
        BY <3>1 DEF WriteSome, WriteAll, WriteError, WriteGone
    <3>4. /\ sock' \in [Fds -> Sockets] /\ \A f \in Fds : sock'[f].open = sock[f].open
        BY <1>1, <1>2, <3>1, WriteKeepsSockets
    <3> QED
        BY <3>1, <3>2, <3>3, <3>4, CallbackOpen
  <2>2. CASE ReadCallback(c)
    <3>1. /\ phase = "handle" /\ revents' = [revents EXCEPT ![c] = @ \ {"read"}]
          /\ UNCHANGED <<timers, pendingFunctors, clockVars, activeChannels, toHandle, current,
                         due, functors>>
          /\ ReadData(c) \/ ReadError(c) \/ ReadEnd(c) \/ ReadClosed(c)
        BY <2>2, Zenon DEF ReadCallback
    <3>2. PICK E \in SUBSET {"read", "write"} : revents' = [revents EXCEPT ![c] = E]
        BY <1>2, <3>1
    <3>3. CASE ReadClosed(c)
      <4>1. /\ phase' \in {"handle", "crashed", "killed"}
            /\ UNCHANGED <<connectionTimeList, lastReceiveTime, sock>>
          BY <3>1, <3>3 DEF ReadClosed
      <4>2. IdleInv'
          BY <1>1, <1>3, <3>1, <4>1, IdleQuiet
      <4> QED
          BY <1>2, <3>1, <3>2, <4>1, <4>2, CallbackOpen
    <3>4. CASE ReadData(c) \/ ReadError(c)
      <4>1. /\ conn[c].fd # NoFd /\ Touch(c) /\ MoveToTail(c) /\ UNCHANGED phase
          BY <3>4, Zenon DEF ReadData, ReadError
      <4>2. c \in active
          BY <1>4, <4>1
      <4>3. active' = active \cup {c}
          BY <4>2
      <4>4. IdleInv'
          BY <1>1, <3>1, <4>1, <4>3, IdleMove
      <4>5. /\ sock' \in [Fds -> Sockets] /\ \A f \in Fds : sock'[f].open = sock[f].open
        <5>1. CASE UNCHANGED sock
            BY <1>2, <5>1
        <5>2. CASE ReadError(c)
          <6>1. PICK g : g = conn[c].fd
              OBVIOUS
          <6>2. sock' = [sock EXCEPT ![g].peer = IF @ = "reset" THEN "gone" ELSE @]
              BY <5>2, <6>1, Zenon DEF ReadError
          <6> QED
              BY <1>2, <6>2 DEF Sockets
        <5> QED
            BY <3>4, <5>1, <5>2, Zenon DEF ReadData
      <4> QED
          BY <3>1, <3>2, <4>1, <4>4, <4>5, CallbackOpen
    <3>5. CASE ReadEnd(c)
      <4>1. /\ conn[c].fd # NoFd /\ Touch(c) /\ HandleClose(c) /\ UNCHANGED phase
          BY <3>5, Zenon DEF ReadEnd
      <4>2. c \in active
          BY <1>4, <4>1
      <4> QED
          BY <3>1, <3>2, <4>1, <4>2, CallbackClose
    <3> QED
        BY <3>1, <3>3, <3>4, <3>5
  <2> QED
      BY <2>1, <2>2
<1>6. CASE \E E \in SUBSET {"read", "write"} : c \in active /\ "read" \in E /\ SetEvents(c, E)
  <2>1. PICK E \in SUBSET {"read", "write"} : c \in active /\ "read" \in E /\ SetEvents(c, E)
      BY <1>6
  <2>2. /\ PoolInv' /\ active' = active
        /\ \A d \in active : conn'[d].fd = conn[d].fd /\ conn'[d].state = conn[d].state
      BY <1>1, <2>1, SetEventsEffect
  <2>3. CASE WriteCallback(c)
    <3>1. /\ phase = "handle" /\ revents' = [revents EXCEPT ![c] = {}]
          /\ UNCHANGED <<connectionTimeList, lastReceiveTime, timers>>
          /\ UNCHANGED <<pendingFunctors, clockVars, activeChannels, toHandle, current,
                         due, functors>>
          /\ WriteSome(c) \/ WriteAll(c) \/ WriteError(c) \/ WriteGone(c)
        BY <2>3, Zenon DEF WriteCallback, idleVars
    <3>2. IdleInv'
        BY <1>1, <1>3, <2>2, <3>1, IdleQuiet
    <3>3. phase' \in {"handle", "crashed", "killed"}
        BY <3>1 DEF WriteSome, WriteAll, WriteError, WriteGone
    <3>4. /\ sock' \in [Fds -> Sockets] /\ \A f \in Fds : sock'[f].open = sock[f].open
        BY <1>1, <1>2, <3>1, WriteKeepsSockets
    <3> QED
        BY <2>2, <3>1, <3>2, <3>3, <3>4, CallbackOpen
  <2>4. CASE ReadCallback(c) /\ ReadData(c)
    <3>1. /\ phase = "handle" /\ revents' = [revents EXCEPT ![c] = @ \ {"read"}]
          /\ UNCHANGED <<timers, pendingFunctors, clockVars, activeChannels, toHandle, current,
                         due, functors>>
          /\ Touch(c) /\ MoveToTail(c) /\ UNCHANGED <<sock, phase>>
        BY <2>4, Zenon DEF ReadCallback, ReadData
    <3>2. PICK F \in SUBSET {"read", "write"} : revents' = [revents EXCEPT ![c] = F]
        BY <1>2, <3>1
    <3>3. active' = active \cup {c}
        BY <2>1, <2>2
    <3>4. IdleInv'
        BY <1>1, <3>1, <3>3, IdleMove
    <3> QED
        BY <1>2, <2>2, <3>1, <3>2, <3>4, CallbackOpen
  <2>5. ~UNCHANGED poolVars /\ ReadCallback(c) => ReadData(c) \/ ReadEnd(c)
      BY Zenon DEF ReadCallback, ReadError, ReadClosed
  <2>6. ~ReadEnd(c)
    <3>1. ReadEnd(c) => active' = active \ {c}
        BY Zenon DEF ReadEnd, HandleClose
    <3> QED
        BY <2>1, <2>2, <3>1
  <2> QED
      BY <1>5, <2>3, <2>4, <2>5, <2>6, Zenon
<1>7. CASE ReadCallback(c) /\ ReadEnd(c)
  <2>1. /\ phase = "handle" /\ revents' = [revents EXCEPT ![c] = @ \ {"read"}]
        /\ UNCHANGED <<timers, pendingFunctors, clockVars, activeChannels, toHandle, current,
                       due, functors>>
        /\ conn[c].fd # NoFd /\ Touch(c) /\ HandleClose(c) /\ UNCHANGED phase
      BY <1>7, Zenon DEF ReadCallback, ReadEnd
  <2>2. PICK E \in SUBSET {"read", "write"} : revents' = [revents EXCEPT ![c] = E]
      BY <1>2, <2>1
  <2>3. c \in active
      BY <1>4, <2>1
  <2> QED
      BY <2>1, <2>2, <2>3, CallbackClose
<1>8. CASE WriteCallback(c) /\ WriteAll(c)
  <2>1. "write" \in conn[c].events /\ SetEvents(c, conn[c].events \ {"write"})
      BY <1>8 DEF WriteAll
  <2>2. c \in active
      BY <1>4, <2>1
  <2>3. /\ conn[c].events \ {"write"} \in SUBSET {"read", "write"}
        /\ "read" \in conn[c].events \ {"write"}
      BY <1>4, <2>2
  <2> QED
      BY <1>6, <2>1, <2>2, <2>3, Zenon
<1>9. CASE conn[c].state = "KConnected" /\ SetEvents(c, conn[c].events \cup {"write"})
  <2>1. c \in active
      BY <1>4, <1>9
  <2>2. /\ conn[c].events \cup {"write"} \in SUBSET {"read", "write"}
        /\ "read" \in conn[c].events \cup {"write"}
      BY <1>4, <2>1
  <2> QED
      BY <1>6, <1>9, <2>1, <2>2, Zenon
<1>10. CASE ReadCallback(c)
  <2>1. ReadData(c) \/ ReadEnd(c) \/ UNCHANGED poolVars
      BY <1>10, Zenon DEF ReadCallback, ReadError, ReadClosed
  <2>2. CASE ReadData(c)
      BY <1>5, <1>9, <2>2, Zenon DEF ReadData, Send
  <2> QED
      BY <1>5, <1>7, <1>10, <2>1, <2>2, Zenon
<1>11. CASE WriteCallback(c)
    BY <1>5, <1>8, <1>11, Zenon DEF WriteCallback, WriteSome, WriteError, WriteGone
<1> QED
    BY <1>10, <1>11

\* removeExpiredConnection.
LEMMA RemoveStep ==
    ASSUME GoodState, NEW t \in due, RemoveExpiredConnection(t)
    PROVE  GoodState'
<1>1. PoolInv /\ HandedInv /\ IdleInv /\ TimersInv /\ TurnInv
    BY Zenon DEF GoodState
<1>2. /\ sock \in [Fds -> Sockets] /\ active \subseteq Conns
      /\ connectionTimeList \in Seq(Conns) /\ conn \in [Conns -> Connections]
    BY <1>1, Zenon DEF IdleInv, HandedInv, PoolInv, PoolTypes
<1>3. PICK X : X = {c \in TooOld : conn[c].state = "KConnected"}
    OBVIOUS
<1>4. TooOld \subseteq Conns
    BY <1>2 DEF TooOld, Walked
<1>5. X \subseteq active
  <2>1. \A c \in Conns : c \notin active => conn[c].state = "KConnecting"
      BY <1>1, PoolFacts
  <2> QED
      BY <1>3, <1>4, <2>1
<1>6. /\ current = timerChannel /\ t[2] = None
      /\ conn' = [c \in Conns |-> IF c \in X
                    THEN [conn[c] EXCEPT !.state = "KDisconnecting"] ELSE conn[c]]
      /\ sock' = [f \in Fds |-> IF \E c \in X : conn[c].fd = f
                    THEN [sock[f] EXCEPT !.expired = TRUE] ELSE sock[f]]
      /\ timers' = timers \cup CloseTimers(X)
      /\ lastReceiveTime' = [c \in Conns |-> IF c \in Jumped THEN now ELSE lastReceiveTime[c]]
      /\ due' = due \ {t}
      /\ UNCHANGED <<free, active, channels, epoll>>
      /\ UNCHANGED <<connectionTimeList, clockVars>>
      /\ UNCHANGED <<pendingFunctors, functors, phase, activeChannels, toHandle, current, revents>>
    BY <1>3, Zenon DEF RemoveExpiredConnection
<1>7. /\ PoolInv' /\ \A c \in Conns : conn'[c].fd = conn[c].fd
      /\ \A c \in Conns : c \notin X => conn'[c] = conn[c]
    BY <1>1, <1>5, <1>6, PoolExpire
<1>8. sock' \in [Fds -> Sockets] /\ \A f \in Fds : sock'[f].open = sock[f].open
  <2>1. ASSUME NEW f \in Fds
        PROVE  sock'[f] \in Sockets /\ sock'[f].open = sock[f].open
    <3>1. sock[f] \in Sockets /\ sock'[f] \in {sock[f], [sock[f] EXCEPT !.expired = TRUE]}
        BY <1>2, <1>6
    <3>2. PICK s : s = sock[f]
        OBVIOUS
    <3> QED
        BY <3>1, <3>2 DEF Sockets
  <2>2. sock' = [f \in Fds |-> sock'[f]]
      BY <1>6
  <2> QED
      BY <2>1, <2>2
<1>9. HandedInv'
    BY <1>1, <1>2, <1>6, <1>7, <1>8, HandedQuiet
<1>10. now' = now /\ setBack' = setBack
    BY <1>1, <1>6, ClockStands
<1>11. IdleInv'
  <2>1. IdleOn
      BY <1>1 DEF TimersInv, NoTimers
  <2>2. UNCHANGED <<connectionTimeList, active, clockVars>>
      BY <1>6
  <2> QED
      BY <1>1, <1>6, <2>1, <2>2, IdleJump
<1>12. X \in SUBSET Conns
    BY <1>2, <1>5
<1>13. TimersInv'
    BY <1>1, <1>2, <1>6, <1>7, <1>10, <1>12, TimersRemove
<1>14. TurnInv'
    BY <1>1, <1>6 DEF TurnInv
<1> QED
    BY <1>7, <1>9, <1>11, <1>13, <1>14, Zenon DEF GoodState

\* forceCloseInLoop.
LEMMA ForceStep ==
    ASSUME GoodState, NEW t \in due, ForceClose(t)
    PROVE  GoodState'
<1>1. PoolInv /\ HandedInv /\ IdleInv /\ TimersInv /\ TurnInv
    BY Zenon DEF GoodState
<1>2. /\ sock \in [Fds -> Sockets] /\ active \subseteq Conns
      /\ conn \in [Conns -> Connections] /\ due \in SUBSET Callbacks
    BY <1>1, Zenon DEF IdleInv, HandedInv, PoolInv, PoolTypes, TimersInv
<1>3. /\ current = timerChannel /\ t[2] # None
      /\ IF conn[t[2]].state \in {"KConnected", "KDisconnecting"}
           THEN HandleClose(t[2]) ELSE UNCHANGED <<poolVars, connectionTimeList, sock>>
      /\ due' = due \ {t}
      /\ UNCHANGED <<lastReceiveTime, timers, clockVars>>
      /\ UNCHANGED <<pendingFunctors, functors, phase, activeChannels, toHandle, current, revents>>
    BY Zenon DEF ForceClose
<1>4. /\ ClockMoves /\ now' = now /\ setBack' = setBack
      /\ \E c \in Conns : c = t[2]
    BY <1>1, <1>2, <1>3, ClockStands DEF Callbacks
<1> PICK c \in Conns : c = t[2]
    BY <1>4
<1>5. /\ \A d \in Conns : d \notin active => conn[d].state = "KConnecting"
      /\ \A d \in active : conn[d].state # "KConnecting"
      /\ \A d \in Conns : conn[d].state \in {"KConnecting", "KConnected", "KDisconnecting"}
  <2>1. \A d \in Conns : conn[d] \in Connections
      BY <1>2
  <2>2. \A ch \in Connections : ch.state \in {"KConnecting", "KConnected", "KDisconnecting"}
      BY DEF Connections
  <2> QED
      BY <1>1, <2>1, <2>2, PoolFacts, Zenon
<1>6. TurnInv'
    BY <1>1, <1>3 DEF TurnInv
<1>7. CASE c \in active
  <2>1. HandleClose(c)
      BY <1>3, <1>4, <1>5, <1>7
  <2>2. PoolInv' /\ HandedInv'
      BY <1>1, <1>3, <1>7, <2>1, PoolClose, HandedClose
  <2>3. IdleInv'
      BY <1>1, <1>3, <2>1, IdleClose
  <2>4. active' = active \ {c} /\ conn' = [conn EXCEPT ![c] = Unused]
      BY <2>1, Zenon DEF HandleClose
  <2>5. \A d \in active' : d \in active /\ conn'[d] = conn[d] /\ d # t[2]
      BY <1>2, <1>4, <2>4
  <2>6. TimersInv'
      BY <1>1, <1>3, <1>4, <2>5, TimersForce
  <2> QED
      BY <1>6, <2>2, <2>3, <2>6, Zenon DEF GoodState
<1>8. CASE c \notin active
  <2>1. UNCHANGED <<poolVars, connectionTimeList, sock>>
      BY <1>3, <1>4, <1>5, <1>8
  <2>2. UNCHANGED <<conn, active, connectionTimeList, sock>>
      BY <2>1 DEF poolVars
  <2>3. PoolInv'
      BY <1>1, <2>1, PoolQuiet
  <2>4. HandedInv'
      BY <1>1, <1>2, <1>3, <2>2, HandedQuiet
  <2>6. IdleInv'
      BY <1>1, <1>3, <1>4, <2>2, IdleQuiet
  <2>7. \A d \in active' : d \in active /\ conn'[d] = conn[d] /\ d # t[2]
      BY <1>4, <1>8, <2>2
  <2>8. TimersInv'
      BY <1>1, <1>3, <1>4, <2>7, TimersForce
  <2> QED
      BY <1>6, <2>3, <2>4, <2>6, <2>8, Zenon DEF GoodState
<1> QED
    BY <1>7, <1>8

\* getNextFreeConnection and configEvent.
LEMMA TakeStep ==
    ASSUME GoodState, NEW c \in Conns, GetNextFreeConnection(c)
    PROVE  GoodState'
<1>1. PoolInv /\ HandedInv /\ IdleInv /\ TimersInv /\ TurnInv
    BY Zenon DEF GoodState
<1>2. /\ functors \in Seq(Fds) /\ functors # <<>> /\ active \subseteq Conns
      /\ conn \in [Conns -> Connections] /\ free \in Seq(Conns)
      /\ Range(free) \cap active = {} /\ IsInjective(free)
      /\ TakeFree(c)
    BY <1>1, Zenon DEF GetNextFreeConnection, HandedInv, PoolInv, PoolTypes, IdleInv, PoolShape
<1>3. PICK f \in Fds : f = Head(functors)
    BY <1>2, HeadTailProperties
<1>4. c \notin active
  <2>1. CASE free = <<>>
      BY <1>2, <2>1, Zenon DEF TakeFree
  <2>2. CASE free # <<>>
    <3>1. c = Head(free)
        BY <1>2, <2>2, Zenon DEF TakeFree
    <3>2. Head(free) \in Range(free)
        BY <1>2, <2>2, TailDistinct
    <3> QED
        BY <1>2, <3>1, <3>2
  <2> QED
      BY <2>1, <2>2
<1>5. conn[c] = Unused
    BY <1>1, <1>4, PoolFacts
<1>6. PICK ch : /\ ch = Updated([Updated([Unused EXCEPT !.state = "KConnected", !.fd = f])
                                   EXCEPT !.events = {"read"}])
                /\ InUse(ch) /\ ch.fd = f /\ ch.state = "KConnected"
    BY ChannelAdded
<1>7. /\ conn' = [conn EXCEPT ![c] = ch]
      /\ epoll' = [epoll EXCEPT ![f] = Interest(c, ch)]
      /\ channels' = IF conn[c].index = "kNew" THEN [channels EXCEPT ![f] = c] ELSE channels
      /\ active' = active \cup {c} /\ Touch(c) /\ MoveToTail(c)
      /\ functors' = Tail(functors)
      /\ UNCHANGED <<timers, sock, pendingFunctors, clockVars, phase, activeChannels, toHandle,
                     current, revents, due>>
    BY <1>3, <1>5, <1>6, Zenon DEF GetNextFreeConnection
<1>8. channels' = [channels EXCEPT ![f] = c] /\ Interest(c, ch) = Registers(c, ch)
    BY <1>5, <1>6, <1>7, NotUnused DEF Interest, Registers, InUse
<1>9. \A d \in active : conn[d].fd # f
  <2>1. f \in Range(queue)
    <3>1. pendingFunctors \in Seq(Fds)
        BY <1>1, Zenon DEF HandedInv
    <3>2. /\ queue \in Seq(Fds) /\ IsInjective(queue)
        BY <1>1, QueueType, Zenon DEF HandedInv, Handed
    <3>3. queue # <<>> /\ Head(queue) = f
        BY <1>2, <1>3, <3>1 DEF queue
    <3> QED
        BY <3>2, <3>3, TailDistinct
  <2>2. Range(queue) \cap owned = {}
      BY <1>1, Zenon DEF HandedInv, Handed
  <2> QED
      BY <2>1, <2>2 DEF owned
<1>10. PoolInv'
    BY <1>1, <1>2, <1>6, <1>7, <1>8, <1>9, PoolTake
<1>11. HandedInv'
    BY <1>1, <1>2, <1>3, <1>4, <1>6, <1>7, HandedTake
<1>12. IdleInv'
    BY <1>1, <1>7, IdleMove
<1>13. \A d \in active' : conn'[d].state = "KDisconnecting" =>
          d \in active /\ conn[d].state = "KDisconnecting"
    BY <1>2, <1>6, <1>7
<1>14. TimersInv'
    BY <1>1, <1>7, <1>13, ClockStands, TimersQuiet
<1>15. TurnInv'
    BY <1>1, <1>7 DEF TurnInv
<1> QED
    BY <1>10, <1>11, <1>12, <1>14, <1>15, Zenon DEF GoodState

\* Every step keeps the parts.
LEMMA StepKeeps == GoodState /\ [Next]_vars => GoodState'
<1> SUFFICES ASSUME GoodState, [Next]_vars PROVE GoodState'
    OBVIOUS
<1>1. CASE \/ \E f \in Fds : Accept(f)
           \/ \E f \in Fds, how \in {"closed", "reset"} : PeerLeaves(f, how)
           \/ Tick \/ SetBack \/ UNCHANGED vars
    BY <1>1, OutsideSteps
<1>2. CASE \/ \E ch \in Conns \cup {timerChannel} : NextChannel(ch)
           \/ EndEvent \/ DoPendingFunctors \/ EndPendingFunctors \/ Poll
    BY <1>2, TurnSteps
<1>3. CASE (\E c \in Conns : ReadCallback(c)) \/ (\E c \in Conns : WriteCallback(c))
    BY <1>3, CallbackSteps
<1>4. CASE \E t \in due : RemoveExpiredConnection(t)
    BY <1>4, RemoveStep
<1>5. CASE \E t \in due : ForceClose(t)
    BY <1>5, ForceStep
<1>6. CASE \E c \in Conns : GetNextFreeConnection(c)
    BY <1>6, TakeStep
<1> QED
    BY <1>1, <1>2, <1>3, <1>4, <1>5, <1>6, Zenon DEF Next, LoopStep

\* They hold at the start.
LEMMA InitGood == Init => GoodState
<1> SUFFICES ASSUME Init PROVE GoodState
    OBVIOUS
<1>1. Pool \in Seq(Conns) /\ IsInjective(Pool)
    BY Zenon, ConstantsAssumption
<1>2. PoolInv
  <2>1. PoolTypes
      BY <1>1, NotUnused DEF Init, PoolTypes
  <2>2. PoolShape /\ OneOwner /\ Watched
      BY <1>1 DEF Init, PoolShape, OneOwner, Watched
  <2> QED
      BY <2>1, <2>2 DEF PoolInv
<1>3. HandedInv
  <2>1. sock \in [Fds -> Sockets] /\ opened = {}
      BY DEF Init, NoSock, Sockets, opened
  <2>2. queue = <<>> /\ owned = {}
      BY DEF Init, queue, owned
  <2>3. Range(queue) = {} /\ IsInjective(queue)
      BY <2>2 DEF Range, IsInjective
  <2>4. pendingFunctors \in Seq(Fds) /\ functors \in Seq(Fds) /\ functors = <<>>
      BY DEF Init
  <2> QED
      BY <2>1, <2>2, <2>3, <2>4 DEF HandedInv, Handed
<1>4. IdleInv
  <2>1. Listed(<<>>, {}, lastReceiveTime, 0)
      BY DEF Listed, Range, IsInjective
  <2>2. /\ connectionTimeList = <<>> /\ active = {} /\ now = 0 /\ setBack = 0
        /\ lastReceiveTime = [c \in Conns |-> 0]
      BY Zenon DEF Init
  <2>3. connectionTimeList \in Seq(Conns) /\ lastReceiveTime \in [Conns -> Nat] /\ now \in Nat /\ setBack \in Nat
      BY <2>2
  <2>4. HeardBefore
      BY <2>2 DEF HeardBefore
  <2> QED
      BY <2>1, <2>2, <2>3, <2>4 DEF IdleInv
<1>5. TimersInv
  <2>1. /\ timers = {t \in {<<1, None>>} : IdleOn} /\ due = {} /\ active = {}
        /\ now = 0 /\ setBack = 0
      BY DEF Init
  <2>2. timers \in SUBSET Callbacks
      BY <2>1 DEF Callbacks
  <2>3. RemoverSet
    <3>1. IdleOn => <<1, None>> \in timers
        BY <2>1
    <3>2. <<1, None>>[2] = None /\ <<1, None>>[1] <= now + 1 + setBack
        BY <2>1
    <3> QED
        BY <3>1, <3>2, Zenon DEF RemoverSet
  <2> QED
      BY <2>1, <2>2, <2>3 DEF TimersInv, ShutdownsEnd, NoTimers
<1>6. TurnInv
    BY DEF Init, TurnInv
<1> QED
    BY <1>2, <1>3, <1>4, <1>5, <1>6, Zenon DEF GoodState

\* The invariant always holds.
LEMMA Invariance == SafeSpec => []IInv
<1>1. SafeSpec => []GoodState
    BY InitGood, StepKeeps, PTL DEF SafeSpec
<1> QED
    BY <1>1, InParts, PTL

-----------------------------------------------------------------------------
(* What the invariant implies.                                              *)

\* The pool.
LEMMA PoolImplied == IInv => PoolConsistent
<1> SUFFICES ASSUME IInv PROVE PoolConsistent
    OBVIOUS
<1>1. PoolInv
    BY InParts, Zenon DEF GoodState
<1>2. IsInjective(free) /\ Range(free) \cap active = {}
    BY <1>1, Zenon DEF PoolInv, PoolShape
<1>3. \A c \in Conns : c \notin active <=> conn[c] = Unused
    BY <1>1, PoolFacts, NotUnused
<1> QED
    BY <1>2, <1>3, Zenon DEF PoolConsistent

\* The Epoller and the kernel.
LEMMA EpollImplied == IInv => EpollInStep
<1> SUFFICES ASSUME IInv PROVE EpollInStep
    OBVIOUS
<1>1. PoolInv
    BY InParts, Zenon DEF GoodState
<1>2. OneOwner /\ Watched
    BY <1>1, Zenon DEF PoolInv
<1>3. ASSUME NEW f \in Fds, NEW c \in active, conn[c].fd = f
      PROVE  /\ (CHOOSE d \in active : conn[d].fd = f) = c
             /\ epoll[f] = [channel |-> c, events |-> conn[c].events]
             /\ channels[f] = c
  <2>1. \A d \in active : conn[d].fd = f => d = c
      BY <1>2, <1>3 DEF OneOwner
  <2>2. (CHOOSE d \in active : conn[d].fd = f) = c
      BY <1>3, <2>1
  <2> QED
      BY <1>2, <1>3, <2>2 DEF Watched
<1>4. EpollMatchesChannels
  <2> SUFFICES ASSUME NEW f \in Fds
               PROVE  epoll[f] = IF \E c \in active : conn[c].fd = f
                        THEN [channel |-> CHOOSE c \in active : conn[c].fd = f,
                              events  |-> conn[CHOOSE c \in active : conn[c].fd = f].events]
                        ELSE None
      BY Zenon DEF EpollMatchesChannels
  <2>1. CASE \E c \in active : conn[c].fd = f
    <3>1. PICK c \in active : conn[c].fd = f
        BY <2>1
    <3>2. /\ (CHOOSE d \in active : conn[d].fd = f) = c
          /\ epoll[f] = [channel |-> c, events |-> conn[c].events]
        BY <1>3, <3>1
    <3> QED
        BY <2>1, <3>2
  <2>2. CASE ~\E c \in active : conn[c].fd = f
    <3>1. epoll[f] = None
        BY <1>2, <2>2, Zenon DEF Watched
    <3> QED
        BY <2>2, <3>1, Zenon
  <2> QED
      BY <2>1, <2>2
<1>5. ReportedChannelKnown
  <2> SUFFICES ASSUME NEW f \in Fds, epoll[f] # None PROVE channels[f] = epoll[f].channel
      BY Zenon DEF ReportedChannelKnown
  <2>1. PICK c \in active : conn[c].fd = f
      BY <1>2, Zenon DEF Watched
  <2>2. /\ epoll[f] = [channel |-> c, events |-> conn[c].events]
        /\ channels[f] = c
      BY <1>3, <2>1
  <2> QED
      BY <2>2
<1> QED
    BY <1>4, <1>5 DEF EpollInStep

\* Where a descriptor waits, and who has it.
PlacesOf(f) == {i \in DOMAIN queue : queue[i] = f}
OwnersOf(f) == {c \in Conns : conn[c].fd = f}

\* The descriptors.
LEMMA DescriptorsImplied == IInv => DescriptorsOwned
<1> SUFFICES ASSUME IInv, NEW f \in Fds
             PROVE  /\ OwnersOf(f) \subseteq active
                    /\ Cardinality(PlacesOf(f)) + Cardinality(OwnersOf(f))
                         = (IF sock[f].open THEN 1 ELSE 0)
    BY Zenon DEF DescriptorsOwned, queue, PlacesOf, OwnersOf
<1>1. PoolInv /\ HandedInv
    BY InParts, Zenon DEF GoodState
<1>2. /\ OneOwner /\ IsInjective(queue) /\ Range(queue) \cap owned = {}
      /\ opened = Range(queue) \cup owned /\ active \subseteq Conns
      /\ sock \in [Fds -> Sockets]
    BY <1>1, Zenon DEF PoolInv, HandedInv, Handed, PoolTypes
<1>3. sock[f].open <=> f \in Range(queue) \/ f \in owned
    BY <1>2 DEF opened
<1>4. OwnersOf(f) \subseteq active
    BY <1>1, PoolFacts, NotUnused DEF OwnersOf
<1>5. f \notin owned => OwnersOf(f) = {}
    BY <1>4 DEF owned, OwnersOf
<1>6. f \notin Range(queue) => PlacesOf(f) = {}
    BY DEF Range, PlacesOf
<1>7. Cardinality({}) = 0 /\ \A x : Cardinality({x}) = 1
    BY FS_EmptySet, FS_Singleton
<1>8. CASE f \in Range(queue)
  <2>1. PICK i \in DOMAIN queue : queue[i] = f
      BY <1>8 DEF Range
  <2>2. PlacesOf(f) = {i}
      BY <1>2, <2>1 DEF IsInjective, PlacesOf
  <2>3. f \notin owned
      BY <1>2, <1>8
  <2> QED
      BY <1>3, <1>4, <1>5, <1>7, <1>8, <2>2, <2>3
<1>9. CASE f \in owned
  <2>1. PICK c \in active : conn[c].fd = f
      BY <1>9 DEF owned
  <2>2. OwnersOf(f) = {c}
      BY <1>2, <1>4, <2>1 DEF OneOwner, OwnersOf
  <2>3. f \notin Range(queue)
      BY <1>2, <1>9
  <2> QED
      BY <1>3, <1>4, <1>6, <1>7, <1>9, <2>2, <2>3
<1>10. CASE f \notin Range(queue) /\ f \notin owned
    BY <1>3, <1>4, <1>5, <1>6, <1>7, <1>10
<1> QED
    BY <1>8, <1>9, <1>10

\* Without an idle limit there are no close timers: what closes a descriptor is
\* the read callback of a connection whose client has left.
LEMMA ClosedStep ==
    ASSUME ~IdleOn, IInv, [Next]_vars, NEW f \in Fds, sock[f].open, ~sock'[f].open
    PROVE  sock[f].peer # "open"
<1>1. due = {} /\ sock \in [Fds -> Sockets]
    BY InParts, Zenon DEF GoodState, TimersInv, NoTimers, HandedInv
<1>2. ~UNCHANGED sock
    OBVIOUS
<1>3. ASSUME NEW g \in Fds, Accept(g) PROVE FALSE
    BY <1>1, <1>3 DEF Accept, Sockets
<1>4. ASSUME NEW g \in Fds, NEW how, PeerLeaves(g, how) PROVE FALSE
    BY <1>1, <1>4 DEF PeerLeaves, Sockets
<1>5. ASSUME NEW c \in Conns, ReadCallback(c) PROVE sock[f].peer # "open"
  <2>1. PICK g : g = conn[c].fd
      OBVIOUS
  <2>2. ReadError(c) \/ ReadEnd(c)
      BY <1>2, <1>5, Zenon DEF ReadCallback, ReadData, ReadClosed
  <2>3. CASE ReadError(c)
    <3>1. sock' = [sock EXCEPT ![g].peer = IF @ = "reset" THEN "gone" ELSE @]
        BY <2>1, <2>3, Zenon DEF ReadError
    <3> QED
        BY <1>1, <3>1 DEF Sockets
  <2>4. CASE ReadEnd(c)
    <3>1. sock[g].peer \in {"closed", "gone"} /\ sock' = [sock EXCEPT ![g] = NoSock]
        BY <2>1, <2>4, Zenon DEF ReadEnd, HandleClose
    <3>2. f = g
        BY <1>1, <3>1
    <3> QED
        BY <3>1, <3>2
  <2> QED
      BY <2>2, <2>3, <2>4
<1>6. ASSUME NEW c \in Conns, WriteCallback(c) PROVE FALSE
  <2>1. PoolInv
      BY InParts, Zenon DEF GoodState
  <2> QED
      BY <1>1, <1>6, <2>1, WriteKeepsSockets DEF WriteCallback
<1>7. \/ \E g \in Fds : Accept(g)
      \/ \E g \in Fds, how \in {"closed", "reset"} : PeerLeaves(g, how)
      \/ \E c \in Conns : ReadCallback(c)
      \/ \E c \in Conns : WriteCallback(c)
  <2>1. Next
      BY <1>2, Zenon DEF vars
  <2>2. ~Tick /\ ~SetBack /\ ~EndEvent /\ ~DoPendingFunctors /\ ~EndPendingFunctors /\ ~Poll
      BY <1>2, Zenon DEF Tick, SetBack, EndEvent, DoPendingFunctors, EndPendingFunctors, Poll
  <2>3. \A c : ~NextChannel(c) /\ ~GetNextFreeConnection(c)
      BY <1>2, Zenon DEF NextChannel, GetNextFreeConnection
  <2> QED
      BY <1>1, <2>1, <2>2, <2>3, Zenon DEF Next, LoopStep
<1> QED
    BY <1>3, <1>4, <1>5, <1>6, <1>7

-----------------------------------------------------------------------------
(* Results.                                                                 *)

\* The objects, the lists, the kernel's tables and the timers hold what they may,
\* in every state of the loop, the accepting thread and the clients.
THEOREM LoopTyped == SafeSpec => []TypeOK
<1>1. IInv => TypeOK
    BY Zenon DEF IInv
<1> QED
    BY <1>1, Invariance, PTL

\* A TcpConnection is in the free list once, or active, or not constructed, however
\* getNextFreeConnection and handleClose alternate.
THEOREM PoolStaysConsistent == SafeSpec => []PoolConsistent
  BY PoolImplied, Invariance, PTL

\* The kernel watches the descriptors of the active connections, for the events
\* their channels ask for, and the Epoller finds the channel of each.
THEOREM EpollStaysInStep == SafeSpec => []EpollInStep
  BY EpollImplied, Invariance, PTL

\* An open descriptor is on its way to the loop once, or that of one active
\* connection: none leaks, none is used twice, none is used after close().
THEOREM DescriptorsHaveOwners == SafeSpec => []DescriptorsOwned
  BY DescriptorsImplied, Invariance, PTL

\* The list of idle connections is complete, and sorted up to how far the clock was
\* set back; every idle connection is found by removeExpiredConnection, whose timer
\* is set, and closed by a timer of its own, each at most so much late.
THEOREM IdleOnesAreFound == SafeSpec => []IdleOnesEnd
<1>1. IInv => IdleOnesFound
  <2> SUFFICES ASSUME IInv, IdleOn PROVE IdleOnesFound
      BY Zenon DEF IdleOnesFound
  <2>1. IdleInv /\ RemoverSet
      BY InParts, Zenon DEF GoodState, TimersInv
  <2> QED
      BY <2>1, OldOnesWalked DEF IdleOnesFound, RemoverSet
<1>2. IInv => IdleOnesEnd
    BY <1>1, Zenon DEF IInv, IdleOnesEnd
<1> QED
    BY <1>2, Invariance, PTL

\* As the server is built, without an idle limit, a descriptor is closed only after
\* its client has left (handleClose).
THEOREM ClosesOnlyLeft ==
    ASSUME ~IdleOn
    PROVE  SafeSpec => ClosesOnlyIdleOrLeft
<1> DEFINE A == \A f \in Fds : sock[f].open /\ ~sock'[f].open =>
                  sock[f].peer # "open" \/ sock[f].expired
<1>1. IInv /\ [Next]_vars => [A]_vars
    BY ClosedStep, Zenon
<1> QED
    BY <1>1, Invariance, PTL DEF SafeSpec, ClosesOnlyIdleOrLeft
=============================================================================
