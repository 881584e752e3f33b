---------------------------- MODULE Server_proofs ----------------------------
(* Proofs about Server for any number of io threads, none included, and     *)
(* any number of clients and descriptors.                                   *)
EXTENDS Server, SequenceTheorems, TLAPS

\* getNextLoop() goes on to the next thread, and from the last to the first.
LEMMA AdvanceIs ==
    ASSUME numThreads \in Nat, next \in IoThreads
    PROVE  Advance = IF next = numThreads THEN 1 ELSE next + 1
  BY DEF Advance, IoThreads

-----------------------------------------------------------------------------
(* The inductive invariant.                                                 *)

\* While the main thread is occupied with an io thread, turn names one.
TurnOfAThread == main \in {"latch", "test", "wait", "wakeup", "join"} => turn \in IoThreads

\* start() has returned the loops of the threads before turn, all when it is
\* done.
Starting == main \in {"spawn", "latch", "test", "wait"}
LoopsSoFar == Len(loops) = IF Starting THEN turn - 1 ELSE numThreads

\* loop_ is the thread's own loop, or NULL.
OwnLoop == \A t \in Threads : loop[t] \in {t, NULL}

\* threadFunc() fills the pool before loop() runs.
PoolFilled ==
    \A t \in Threads :
        thread[t] \in {"filled", "looping", "left", "exited"} => pool[t]

\* The turns a loop has had.
Turns(t) == handed[t] + lost[t]

\* A loop has had no more turns than clients have left the backlog.
TurnsArrived == \A t \in Threads : Turns(t) + backlog <= arrived

\* The threads before next_ are one turn ahead of those from next_ on.
RoundRobin ==
    \A t, u \in IoThreads :
        Turns(t) + (IF u < next THEN 1 ELSE 0)
            = Turns(u) + (IF t < next THEN 1 ELSE 0)

\* The inductive invariant.
IInv ==
    /\ TypeOK
    /\ TurnOfAThread /\ LoopsSoFar /\ OwnLoop /\ LoopsKnown
    /\ PoolFilled /\ PoolFirst
    /\ TurnsArrived /\ RoundRobin

-----------------------------------------------------------------------------
(* Every action keeps the types.                                            *)

\* With loops to deal out clients to, next_ is the number of one, and its
\* thread's own.
LEMMA NextLoop ==
    ASSUME IInv, main = "serving", loops # <<>>
    PROVE  /\ numThreads \in Nat /\ next \in IoThreads /\ next \in Threads
           /\ loops[next] = next
<1>1. /\ loops \in Seq(Threads \cup {NULL}) /\ next \in IoThreads \cup {1}
      /\ numThreads \in 0..MaxThreads
    BY DEF IInv, TypeOK
<1>2. Len(loops) = numThreads
    BY DEF IInv, LoopsSoFar, Starting
<1>3. numThreads \in 1..MaxThreads
    BY <1>1, <1>2, EmptySeq, ConstantsAssumption
<1>4. next \in IoThreads
    BY <1>1, <1>3, ConstantsAssumption DEF IoThreads
<1>5. next \in DOMAIN loops
    BY <1>1, <1>2, <1>3, <1>4 DEF IoThreads
<1>6. next \in Threads
    BY <1>3, <1>4, ConstantsAssumption DEF IoThreads, Threads
<1> QED
    BY <1>3, <1>4, <1>5, <1>6, ConstantsAssumption DEF IInv, LoopsKnown

\* A turn taken: who had it, and whose is next.
LEMMA TurnTaken ==
    ASSUME IInv, NEW fd \in Fds, HandOver(fd) \/ (LoseClient(fd) /\ loops # <<>>)
    PROVE  /\ main = "serving" /\ loops # <<>>
           /\ backlog' = backlog - 1 /\ backlog > 0
           /\ next' = Advance
           /\ \/ /\ queue' = [queue EXCEPT ![next] = Append(@, fd)]
                 /\ handed' = [handed EXCEPT ![next] = @ + 1]
                 /\ lost' = lost /\ leaked' = leaked
              \/ /\ lost' = [lost EXCEPT ![next] = @ + 1]
                 /\ leaked' = leaked \cup {fd}
                 /\ queue' = queue /\ handed' = handed
           /\ UNCHANGED <<mainVars, numThreads, arrived, thread, loop, pool, quit, conns>>
<1>1. main = "serving" /\ loops # <<>>
    BY DEF HandOver, LoseClient, Accepted
<1>2. loops[next] = next
    BY <1>1, NextLoop
<1>3. CASE HandOver(fd)
    BY <1>1, <1>2, <1>3 DEF HandOver, Accepted, mainVars
<1>4. CASE LoseClient(fd)
    BY <1>1, <1>2, <1>4 DEF LoseClient, Accepted, mainVars
<1> QED
    BY <1>3, <1>4

\* Whoever has the turn, the types are kept, and next_ stays a position of loops_.
LEMMA TurnType ==
    ASSUME IInv, NEW fd \in Fds, HandOver(fd) \/ (LoseClient(fd) /\ loops # <<>>)
    PROVE  TypeOK'
<1>1. main = "serving" /\ loops # <<>> /\ next' = Advance /\ backlog > 0
    BY TurnTaken
<1>2. numThreads \in Nat /\ next \in IoThreads /\ next \in Threads
    BY <1>1, NextLoop
<1>3. next' \in IoThreads'
  <2>1. numThreads' = numThreads
      BY TurnTaken
  <2> QED
      BY <1>1, <1>2, <2>1, AdvanceIs DEF IoThreads
<1>4. queue' \in [Threads -> Seq(Fds)] /\ leaked' \subseteq Fds
  <2>1. queue \in [Threads -> Seq(Fds)] /\ leaked \subseteq Fds
      BY DEF IInv, TypeOK
  <2>2. Append(queue[next], fd) \in Seq(Fds)
      BY <1>2, <2>1, AppendProperties
  <2>3. [queue EXCEPT ![next] = Append(@, fd)] \in [Threads -> Seq(Fds)]
      BY <2>1, <2>2
  <2> QED
      BY <2>1, <2>3, TurnTaken, Zenon
<1>5. handed' \in [Threads -> 0..MaxClients] /\ lost' \in [Threads -> 0..MaxClients]
  <2>1. /\ handed[next] \in 0..MaxClients /\ lost[next] \in 0..MaxClients
        /\ backlog \in Nat /\ arrived \in 0..MaxClients
        /\ handed[next] + lost[next] + backlog <= arrived
      BY <1>2, ConstantsAssumption DEF IInv, TypeOK, TurnsArrived, Turns
  <2>2. handed[next] + 1 \in 0..MaxClients /\ lost[next] + 1 \in 0..MaxClients
      BY <1>1, <2>1, ConstantsAssumption
  <2> QED
      BY <1>2, <2>2, TurnTaken DEF IInv, TypeOK
<1>6. backlog' \in 0..arrived' /\ arrived' \in 0..MaxClients
    BY <1>1, TurnTaken, ConstantsAssumption DEF IInv, TypeOK
<1>7. UNCHANGED <<main, turn, loops, numThreads, thread, loop, pool, quit, conns>>
    BY TurnTaken DEF mainVars
<1> QED
    BY <1>3, <1>4, <1>5, <1>6, <1>7 DEF IInv, TypeOK, IoThreads

\* A client that takes no turn: it is refused, or there is no loop but the base loop.
LEMMA NoTurn ==
    ASSUME NEW fd \in Fds,
           Refuse(fd) \/ TakeItself(fd) \/ (LoseClient(fd) /\ loops = <<>>)
    PROVE  /\ main = "serving" /\ (main' = main \/ (main' = "noPool" /\ loops = <<>>))
           /\ backlog' = backlog - 1 /\ backlog > 0
           /\ leaked' \in {leaked, leaked \cup {fd}}
           /\ UNCHANGED <<turn, loops, numThreads, next, arrived, handed, lost,
                          thread, loop, pool, quit, queue, conns>>
  BY DEF Refuse, TakeItself, LoseClient, Accepted

\* These are all.
LEMMA Handled ==
    ASSUME NEW fd \in Fds, HandleNewConn(fd)
    PROVE  \/ HandOver(fd) \/ (LoseClient(fd) /\ loops # <<>>)
           \/ Refuse(fd) \/ TakeItself(fd) \/ (LoseClient(fd) /\ loops = <<>>)
  BY DEF HandleNewConn

\* Every step of the threads, the loops and the clients keeps the types.
LEMMA TypeStep == IInv /\ [Next]_vars => TypeOK'
<1> SUFFICES ASSUME IInv, [Next]_vars PROVE TypeOK'
    OBVIOUS
<1> USE ConstantsAssumption DEF TypeOK, mainVars, acceptVars
<1>0. TypeOK /\ TurnOfAThread /\ LoopsSoFar
    BY DEF IInv
<1>a. /\ numThreads \in Nat /\ IoThreads \subseteq Threads
      /\ \A t \in IoThreads : t + 1 \in 1..(numThreads + 1)
    BY <1>0 DEF Threads, IoThreads
<1>b. UNCHANGED numThreads => IoThreads' = IoThreads
    BY DEF IoThreads
<1>1. CASE StartThread
    BY <1>0, <1>a, <1>b, <1>1 DEF StartThread
<1>2. CASE LatchPassed
    BY <1>0, <1>a, <1>b, <1>2 DEF LatchPassed
<1>3. CASE TestLoop
  <2>1. turn \in IoThreads /\ turn \in Threads /\ loop[turn] \in Threads \cup {NULL}
      BY <1>0, <1>a, <1>b, <1>3 DEF TestLoop, TurnOfAThread
  <2>2. /\ main' \in {"wait", "spawn"} /\ turn' \in {turn, turn + 1}
        /\ loops' \in {loops, Append(loops, loop[turn])}
        /\ UNCHANGED <<acceptVars, thread, loop, pool, quit, queue, conns>>
      BY <1>3 DEF TestLoop
  <2>3. turn' \in 1..(numThreads + 1)
      BY <1>0, <1>a, <2>1, <2>2
  <2>4. loops' \in Seq(Threads \cup {NULL})
    <3>1. loops \in Seq(Threads \cup {NULL})
      BY <1>0
    <3>2. Append(loops, loop[turn]) \in Seq(Threads \cup {NULL})
      BY <2>1, <3>1, AppendProperties
    <3> QED
      BY <2>2, <3>1, <3>2, Zenon
  <2> QED
      BY <1>0, <1>b, <2>2, <2>3, <2>4
<1>4. CASE Serve
    BY <1>0, <1>a, <1>b, <1>4 DEF Serve
<1>5. ASSUME NEW fd \in Fds, HandOver(fd) \/ (LoseClient(fd) /\ loops # <<>>)
      PROVE  TypeOK'
    BY <1>5, TurnType
<1>6. ASSUME NEW fd \in Fds,
             Refuse(fd) \/ TakeItself(fd) \/ (LoseClient(fd) /\ loops = <<>>)
      PROVE  TypeOK'
  <2>1. /\ main' \in {main, "noPool"} /\ backlog' = backlog - 1 /\ backlog > 0
        /\ leaked' \in {leaked, leaked \cup {fd}}
        /\ UNCHANGED <<turn, loops, numThreads, next, arrived, handed, lost,
                       thread, loop, pool, quit, queue, conns>>
      BY <1>6, NoTurn
  <2>2. backlog' \in 0..arrived' /\ leaked' \subseteq Fds
      BY <1>0, <2>1, ConstantsAssumption
  <2> QED
      BY <1>0, <1>b, <2>1, <2>2
<1>7. CASE Destroy
    BY <1>0, <1>a, <1>b, <1>7 DEF Destroy
<1>22. CASE Wakeup
    BY <1>0, <1>a, <1>b, <1>22 DEF Wakeup
<1>8. CASE Join
    BY <1>0, <1>a, <1>b, <1>8 DEF Join, TurnOfAThread
<1>9. CASE Destroyed
    BY <1>0, <1>a, <1>b, <1>9 DEF Destroyed
<1>10. CASE SpuriousWakeup
    BY <1>0, <1>a, <1>b, <1>10 DEF SpuriousWakeup
<1>11. CASE Connect
    BY <1>0, <1>a, <1>b, <1>11 DEF Connect
<1>12. CASE BaseLoopReturns
    BY <1>0, <1>a, <1>b, <1>12 DEF BaseLoopReturns
<1>13. ASSUME NEW t \in Threads, CountDown(t) PROVE TypeOK'
    BY <1>0, <1>a, <1>b, <1>13 DEF CountDown
<1>14. ASSUME NEW t \in Threads, Publish(t) PROVE TypeOK'
    BY <1>0, <1>a, <1>b, <1>14 DEF Publish
<1>15. ASSUME NEW t \in Threads, InitConnectionPool(t) PROVE TypeOK'
    BY <1>0, <1>a, <1>b, <1>15 DEF InitConnectionPool
<1>16. ASSUME NEW t \in Threads, EnterLoop(t) PROVE TypeOK'
    BY <1>0, <1>a, <1>b, <1>16 DEF EnterLoop
<1>17. ASSUME NEW t \in Threads, GetNextFreeConnection(t) PROVE TypeOK'
    BY <1>0, <1>a, <1>b, <1>17, HeadTailProperties DEF GetNextFreeConnection
<1>18. ASSUME NEW t \in Threads, LeaveLoop(t) PROVE TypeOK'
    BY <1>0, <1>a, <1>b, <1>18 DEF LeaveLoop
<1>19. ASSUME NEW t \in Threads, Exit(t) PROVE TypeOK'
    BY <1>0, <1>a, <1>b, <1>19 DEF Exit
<1>20. ASSUME NEW t \in Threads, NEW fd \in Fds, CloseConnection(t, fd)
       PROVE TypeOK'
    BY <1>0, <1>a, <1>b, <1>20 DEF CloseConnection
<1>21. CASE UNCHANGED vars
    BY <1>0, <1>a, <1>b, <1>21 DEF vars
<1> QED
    BY <1>1, <1>2, <1>3, <1>4, <1>5, <1>6, <1>7, <1>8, <1>9, <1>10, <1>11,
       <1>12, <1>13, <1>14, <1>15, <1>16, <1>17, <1>18, <1>19, <1>20, <1>21,
       <1>22, Handled DEF Next, MainStep, ThreadStep

-----------------------------------------------------------------------------
(* The rest of the invariant, part by part.                                 *)

\* The loops of the threads that were started, in order.
Started == TurnOfAThread /\ LoopsSoFar /\ OwnLoop /\ LoopsKnown

\* startLoop() waits until loop_ is set, and so adds the loop of its thread.
LEMMA StartedStep == IInv /\ [Next]_vars => Started'
<1> SUFFICES ASSUME IInv, [Next]_vars PROVE Started'
    OBVIOUS
<1> USE ConstantsAssumption
    DEF Started, TurnOfAThread, LoopsSoFar, OwnLoop, LoopsKnown, Starting,
        mainVars, acceptVars
<1>0. /\ Started /\ numThreads \in Nat /\ turn \in 1..(numThreads + 1)
      /\ loops \in Seq(Threads \cup {NULL}) /\ loop \in [Threads -> Threads \cup {NULL}]
      /\ IoThreads = 1..numThreads /\ IoThreads \subseteq Threads
  <2>1. /\ numThreads \in 0..MaxThreads /\ turn \in 1..(numThreads + 1)
        /\ loops \in Seq(Threads \cup {NULL}) /\ loop \in [Threads -> Threads \cup {NULL}]
      BY DEF IInv, TypeOK
  <2>2. IoThreads = 1..numThreads /\ IoThreads \subseteq Threads /\ numThreads \in Nat
      BY <2>1 DEF IoThreads, Threads
  <2> QED
      BY <2>1, <2>2 DEF IInv
<1>a. UNCHANGED numThreads => IoThreads' = IoThreads
    BY DEF IoThreads
<1>1. CASE StartThread
    BY <1>0, <1>a, <1>1 DEF StartThread
<1>2. CASE LatchPassed
    BY <1>0, <1>a, <1>2 DEF LatchPassed
<1>3. CASE TestLoop
  <2>1. turn \in IoThreads /\ Len(loops) = turn - 1 /\ main = "test"
      BY <1>0, <1>a, <1>3 DEF TestLoop
  <2>2. CASE loop[turn] = NULL
      BY <1>0, <1>a, <1>3, <2>2 DEF TestLoop, WaitsFor
  <2>3. CASE loop[turn] # NULL
    <3>1. loop[turn] = turn
        BY <1>0, <2>1, <2>3
    <3>2. /\ loops' = Append(loops, turn) /\ turn' = turn + 1 /\ main' = "spawn"
          /\ loop' = loop
        BY <1>3, <2>3, <3>1 DEF TestLoop, WaitsFor
    <3>3. Len(loops') = turn
        BY <1>0, <2>1, <3>2
    <3>4. ASSUME NEW i \in DOMAIN loops' PROVE loops'[i] = i
        BY <1>0, <2>1, <3>2, <3>3
    <3> QED
        BY <1>0, <1>a, <1>3, <2>1, <3>2, <3>3, <3>4 DEF TestLoop
  <2> QED
      BY <2>2, <2>3
<1>4. CASE Serve
    BY <1>0, <1>a, <1>4 DEF Serve
<1>5. CASE Connect
    BY <1>0, <1>a, <1>5 DEF Connect
<1>15. ASSUME NEW fd \in Fds, HandleNewConn(fd) PROVE Started'
  <2>1. /\ UNCHANGED <<turn, loops, loop, numThreads>> /\ main = "serving"
        /\ main' \in {"serving", "noPool"}
      BY <1>15, Handled, TurnTaken, NoTurn
  <2> QED
      BY <1>0, <1>a, <2>1
<1>6. CASE Destroy
    BY <1>0, <1>a, <1>6 DEF Destroy
<1>16. CASE Wakeup
    BY <1>0, <1>a, <1>16 DEF Wakeup
<1>7. CASE Join
    BY <1>0, <1>a, <1>7 DEF Join
<1>8. CASE Destroyed
    BY <1>0, <1>a, <1>8 DEF Destroyed
<1>9. CASE SpuriousWakeup
    BY <1>0, <1>a, <1>9 DEF SpuriousWakeup
<1>10. CASE BaseLoopReturns
    BY <1>0, <1>a, <1>10 DEF BaseLoopReturns
<1>11. ASSUME NEW t \in Threads, Publish(t) PROVE Started'
    BY <1>0, <1>a, <1>11 DEF Publish
<1>12. ASSUME NEW t \in Threads, Exit(t) PROVE Started'
    BY <1>0, <1>a, <1>12 DEF Exit
<1>13. ASSUME NEW t \in Threads,
              \/ CountDown(t) \/ InitConnectionPool(t) \/ EnterLoop(t)
              \/ GetNextFreeConnection(t) \/ LeaveLoop(t)
              \/ \E fd \in Fds : CloseConnection(t, fd)
       PROVE  Started'
  <2>1. UNCHANGED <<mainVars, numThreads, loop>>
      BY <1>13 DEF CountDown, InitConnectionPool, EnterLoop,
                   GetNextFreeConnection, LeaveLoop, CloseConnection
  <2> QED
      BY <1>0, <1>a, <2>1
<1>14. CASE UNCHANGED vars
    BY <1>0, <1>a, <1>14 DEF vars
<1> QED
    BY <1>1, <1>2, <1>3, <1>4, <1>5, <1>6, <1>7, <1>8, <1>9, <1>10, <1>11,
       <1>12, <1>13, <1>14, <1>15, <1>16 DEF Next, MainStep, ThreadStep

\* A thread's connections come from functors that loop() runs.
LEMMA PoolStep == IInv /\ [Next]_vars => (PoolFilled /\ PoolFirst)'
<1> SUFFICES ASSUME IInv, [Next]_vars PROVE (PoolFilled /\ PoolFirst)'
    OBVIOUS
<1> USE DEF PoolFilled, PoolFirst
<1>0. /\ PoolFilled /\ PoolFirst
      /\ Len(loops) = numThreads \/ main # "serving"
      /\ DOMAIN thread = Threads /\ DOMAIN pool = Threads /\ DOMAIN conns = Threads
    BY DEF IInv, TypeOK, LoopsSoFar, Starting
<1>1. CASE StartThread
    BY <1>0, <1>1 DEF StartThread, acceptVars, mainVars
<1>2. ASSUME NEW t \in Threads, CountDown(t) PROVE (PoolFilled /\ PoolFirst)'
    BY <1>0, <1>2 DEF CountDown, acceptVars, mainVars
<1>3. ASSUME NEW t \in Threads, Publish(t) PROVE (PoolFilled /\ PoolFirst)'
    BY <1>0, <1>3 DEF Publish, acceptVars, mainVars
<1>4. ASSUME NEW t \in Threads, InitConnectionPool(t)
      PROVE  (PoolFilled /\ PoolFirst)'
    BY <1>0, <1>4 DEF InitConnectionPool, acceptVars, mainVars
<1>5. ASSUME NEW t \in Threads, EnterLoop(t) PROVE (PoolFilled /\ PoolFirst)'
    BY <1>0, <1>5 DEF EnterLoop, acceptVars, mainVars
<1>6. ASSUME NEW t \in Threads, GetNextFreeConnection(t)
      PROVE  (PoolFilled /\ PoolFirst)'
    BY <1>0, <1>6 DEF GetNextFreeConnection, acceptVars, mainVars
<1>7. ASSUME NEW t \in Threads, LeaveLoop(t) PROVE (PoolFilled /\ PoolFirst)'
    BY <1>0, <1>7 DEF LeaveLoop, acceptVars, mainVars
<1>8. ASSUME NEW t \in Threads, Exit(t) PROVE (PoolFilled /\ PoolFirst)'
    BY <1>0, <1>8 DEF Exit, acceptVars, mainVars
<1>9. ASSUME NEW t \in Threads, NEW fd \in Fds, CloseConnection(t, fd)
      PROVE  (PoolFilled /\ PoolFirst)'
    BY <1>0, <1>9 DEF CloseConnection, acceptVars, mainVars
<1>10. CASE \/ LatchPassed \/ TestLoop \/ Serve \/ Destroy \/ Wakeup
            \/ Join \/ Destroyed \/ SpuriousWakeup \/ Connect
            \/ BaseLoopReturns \/ UNCHANGED vars
  <2>1. /\ UNCHANGED <<thread, pool, conns, numThreads>>
        /\ main' = "noPool" => main = "noPool"
      BY <1>10 DEF LatchPassed, TestLoop, Serve, Destroy, Wakeup, Join, Destroyed,
                   SpuriousWakeup, Connect, BaseLoopReturns, vars, acceptVars, mainVars
  <2> QED
      BY <1>0, <2>1
<1>11. ASSUME NEW fd \in Fds, HandleNewConn(fd) PROVE (PoolFilled /\ PoolFirst)'
  <2>1. UNCHANGED <<thread, pool, conns, numThreads>>
      BY <1>11, Handled, TurnTaken, NoTurn
  <2>2. main = "serving" /\ (main' = "noPool" => loops = <<>>)
      BY <1>11, Handled, TurnTaken, NoTurn DEF mainVars
  <2>3. main' = "noPool" => numThreads' = 0
      BY <1>0, <2>1, <2>2
  <2> QED
      BY <1>0, <2>1, <2>3
<1> QED
    BY <1>1, <1>2, <1>3, <1>4, <1>5, <1>6, <1>7, <1>8, <1>9, <1>10, <1>11
       DEF Next, MainStep, ThreadStep

\* A turn moves the loop that has it one ahead, and next_ past it.
LEMMA TurnsInOrder ==
    ASSUME IInv, NEW fd \in Fds, HandOver(fd) \/ (LoseClient(fd) /\ loops # <<>>)
    PROVE  (TurnsArrived /\ RoundRobin)'
<1>1. /\ main = "serving" /\ loops # <<>> /\ next' = Advance
      /\ backlog > 0 /\ backlog' = backlog - 1
      /\ arrived' = arrived /\ numThreads' = numThreads
    BY TurnTaken
<1>2. numThreads \in Nat /\ next \in IoThreads /\ next \in Threads
    BY <1>1, NextLoop
<1>3. /\ handed \in [Threads -> Nat] /\ lost \in [Threads -> Nat]
      /\ backlog \in Nat /\ arrived \in Nat
      /\ IoThreads \subseteq Threads /\ IoThreads = 1..numThreads
      /\ TurnsArrived /\ RoundRobin
    BY ConstantsAssumption DEF IInv, TypeOK, IoThreads, Threads
<1>4. PICK T \in [Threads -> Nat] : \A t \in Threads : T[t] = Turns(t)
  <2>1. \A t \in Threads : Turns(t) \in Nat
      BY <1>3 DEF Turns
  <2>2. [t \in Threads |-> Turns(t)] \in [Threads -> Nat]
      BY <2>1
  <2> QED
      BY <2>2
<1>5. \A t \in Threads : Turns(t)' = IF t = next THEN T[t] + 1 ELSE T[t]
  <2>1. ASSUME NEW t \in Threads
        PROVE  handed'[t] + lost'[t] = IF t = next THEN handed[t] + lost[t] + 1
                                                   ELSE handed[t] + lost[t]
    <3>1. \/ /\ handed' = [handed EXCEPT ![next] = @ + 1] /\ lost' = lost
          \/ /\ lost' = [lost EXCEPT ![next] = @ + 1] /\ handed' = handed
        BY TurnTaken
    <3>2. \/ /\ handed'[t] = (IF t = next THEN handed[t] + 1 ELSE handed[t])
             /\ lost'[t] = lost[t]
          \/ /\ lost'[t] = (IF t = next THEN lost[t] + 1 ELSE lost[t])
             /\ handed'[t] = handed[t]
        BY <1>3, <3>1
    <3>3. handed[t] \in Nat /\ lost[t] \in Nat
        BY <1>3
    <3> QED
        BY <3>2, <3>3
  <2> QED
      BY <1>4, <2>1 DEF Turns
<1>6. TurnsArrived'
    BY <1>1, <1>3, <1>4, <1>5 DEF TurnsArrived
<1>7. \A t, u \in IoThreads : T[t] + (IF u < next THEN 1 ELSE 0)
                             = T[u] + (IF t < next THEN 1 ELSE 0)
    BY <1>3, <1>4 DEF RoundRobin
<1>8. \A t, u \in IoThreads :
          (IF t = next THEN T[t] + 1 ELSE T[t]) + (IF u < next' THEN 1 ELSE 0)
            = (IF u = next THEN T[u] + 1 ELSE T[u]) + (IF t < next' THEN 1 ELSE 0)
  <2>1. CASE next = numThreads
    <3>1. next' = 1
        BY <1>1, <1>2, <2>1, AdvanceIs
    <3>2. \A t \in IoThreads : /\ t \in Int /\ T[t] \in Nat
                              /\ ~(t < next') /\ (t < next <=> t # next)
        BY <1>2, <1>3, <1>4, <2>1, <3>1
    <3> QED
        BY <1>7, <3>2
  <2>2. CASE next # numThreads
    <3>1. next' = next + 1
        BY <1>1, <1>2, <2>2, AdvanceIs
    <3>2. \A t \in IoThreads : /\ t \in Int /\ T[t] \in Nat
                              /\ (t < next' <=> t < next \/ t = next)
                              /\ (t = next => ~(t < next))
        BY <1>2, <1>3, <1>4, <3>1
    <3> QED
        BY <1>7, <3>2
  <2> QED
      BY <2>1, <2>2
<1>9. RoundRobin'
  <2>1. IoThreads' = IoThreads
      BY <1>1 DEF IoThreads
  <2> QED
      BY <1>3, <1>5, <1>8, <2>1 DEF RoundRobin
<1> QED
    BY <1>6, <1>9

\* accept() hands each client to the loop whose turn it is.
LEMMA RobinStep == IInv /\ [Next]_vars => (TurnsArrived /\ RoundRobin)'
<1> SUFFICES ASSUME IInv, [Next]_vars PROVE (TurnsArrived /\ RoundRobin)'
    OBVIOUS
<1> USE DEF TurnsArrived, RoundRobin, Turns, IoThreads
<1>0. /\ TurnsArrived /\ RoundRobin
      /\ handed \in [Threads -> Nat] /\ lost \in [Threads -> Nat]
      /\ backlog \in Nat /\ arrived \in Nat
    BY ConstantsAssumption DEF IInv, TypeOK
<1>1. ASSUME NEW fd \in Fds, HandOver(fd) \/ (LoseClient(fd) /\ loops # <<>>)
      PROVE  (TurnsArrived /\ RoundRobin)'
    BY <1>1, TurnsInOrder
<1>2. ASSUME NEW fd \in Fds,
             Refuse(fd) \/ TakeItself(fd) \/ (LoseClient(fd) /\ loops = <<>>)
      PROVE  (TurnsArrived /\ RoundRobin)'
  <2>1. /\ UNCHANGED <<numThreads, next, arrived, handed, lost>>
        /\ backlog' = backlog - 1
      BY <1>2, NoTurn
  <2> QED
      BY <1>0, <2>1
<1>3. CASE Connect
    BY <1>0, <1>3 DEF Connect
<1>4. CASE \/ StartThread \/ LatchPassed \/ TestLoop \/ Serve \/ Destroy \/ Wakeup
           \/ Join \/ Destroyed \/ SpuriousWakeup \/ BaseLoopReturns \/ UNCHANGED vars
  <2>1. UNCHANGED acceptVars
      BY <1>4 DEF StartThread, LatchPassed, TestLoop, Serve, Destroy, Wakeup, Join,
                  Destroyed, SpuriousWakeup, BaseLoopReturns, vars
  <2> QED
      BY <1>0, <2>1 DEF acceptVars
<1>5. ASSUME NEW t \in Threads,
             ThreadStep(t) \/ \E fd \in Fds : CloseConnection(t, fd)
      PROVE  (TurnsArrived /\ RoundRobin)'
  <2>1. UNCHANGED acceptVars
      BY <1>5 DEF ThreadStep, CountDown, Publish, InitConnectionPool, EnterLoop,
                  GetNextFreeConnection, LeaveLoop, Exit, CloseConnection
  <2> QED
      BY <1>0, <2>1 DEF acceptVars
<1> QED
    BY <1>1, <1>2, <1>3, <1>4, <1>5, Handled DEF Next, MainStep

-----------------------------------------------------------------------------

\* The server that has been constructed satisfies the invariant.
LEMMA InitIInv == Init => IInv
<1> SUFFICES ASSUME Init PROVE IInv
    OBVIOUS
<1> USE ConstantsAssumption DEF Init
<1>1. TypeOK
    BY DEF TypeOK, Threads, IoThreads
<1>2. TurnOfAThread /\ LoopsSoFar /\ OwnLoop /\ LoopsKnown
    BY DEF TurnOfAThread, LoopsSoFar, OwnLoop, LoopsKnown, Starting
<1>3. PoolFilled /\ PoolFirst
    BY DEF PoolFilled, PoolFirst
<1>4. TurnsArrived /\ RoundRobin
    BY DEF TurnsArrived, RoundRobin, Turns, Threads, IoThreads
<1> QED
    BY <1>1, <1>2, <1>3, <1>4 DEF IInv

\* The inductive invariant holds in every state the server reaches.
LEMMA ServerInvariant == SafeSpec => []IInv
<1>1. IInv /\ [Next]_vars => IInv'
    BY TypeStep, StartedStep, PoolStep, RobinStep DEF IInv, Started
<1> QED
    BY InitIInv, <1>1, PTL DEF SafeSpec

\* The variables of the server always have their types: next_ stays a position
\* of loops_, if there are any, and no loop is handed more clients than came.
THEOREM ServerTypes == SafeSpec => []TypeOK
<1>1. IInv => TypeOK
    BY DEF IInv
<1> QED
    BY ServerInvariant, <1>1, PTL

\* start() returns the loops of the threads and never NULL, a loop takes its
\* clients after its pool is filled, only a server without io threads takes one
\* from no pool, and the turns are shared out evenly.
THEOREM ServerHandsOver == SafeSpec => []Handover
<1>1. IInv => Handover
  <2> SUFFICES ASSUME IInv PROVE Balanced
      BY DEF IInv, Handover
  <2>1. /\ RoundRobin /\ next \in Nat
        /\ \A t \in IoThreads : t \in Nat /\ handed[t] \in Nat /\ lost[t] \in Nat
      BY ConstantsAssumption DEF IInv, TypeOK, Threads, IoThreads
  <2> QED
      BY <2>1 DEF RoundRobin, Balanced, Turns
<1> QED
    BY ServerInvariant, <1>1, PTL
=============================================================================
