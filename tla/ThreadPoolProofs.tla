--------------------------- MODULE ThreadPoolProofs ----------------------------
(***************************************************************************)
(* The safety properties of ThreadPool, for every number of workers and    *)
(* every set of descriptors, and that it implements ConnectionService.     *)
(***************************************************************************)
EXTENDS ThreadPool, FiniteSetTheorems, TLAPS

(* The inductive invariant, by parts. *)

\* What TypeOK lacks to be inductive: a byte in the pipe is one SIGINT delivered.
PipeFromSignals == pipe <= signals

\* A worker's client_fd is live from deQueue to close, conn_fd from accept to enQueue.
LocalFds == /\ \A w \in Workers : clientFd[w] # NoFd <=> pc[w] \in {"serving", "handled", "closing"}
            /\ connFd # NoFd <=> mainPc = "enqueue"

\* How far the shutdown has come, seen from the shared variables.
ShutdownPhase ==
    /\ exitFlag <=> mainPc \in {"shutdown", "drain", "join", "returned"}
    /\ exitFlag => \A w \in Workers : pc[w] # "waiting"
    /\ \A w \in Workers : pc[w] = "done" => exitFlag
    /\ mainPc \in {"join", "returned"} => queue = <<>>
    /\ mainPc = "returned" => \A w \in Workers : pc[w] = "done"

Typing == TypeOK /\ PipeFromSignals

IInv == /\ Typing
        /\ LocalFds
        /\ ShutdownPhase
        /\ FdOwnedOnce
        /\ ActiveFdsExact

--------------------------------------------------------------------------------
(* Types. *)

\* The rest of a batch is a batch.
LEMMA BatchTail ==
    ASSUME NEW b \in Batches, b # <<>>
    PROVE  Tail(b) \in Batches
  <1>1. CASE b = <<"listen">>  BY <1>1 DEF Batches
  <1>2. CASE b = <<"pipe">>  BY <1>2 DEF Batches
  <1>3. CASE b = <<"listen", "pipe">>
    <2>1. Tail(b) = <<"pipe">>  BY <1>3
    <2> QED  BY <2>1 DEF Batches
  <1>4. CASE b = <<"pipe", "listen">>
    <2>1. Tail(b) = <<"listen">>  BY <1>4
    <2> QED  BY <2>1 DEF Batches
  <1> QED  BY <1>1, <1>2, <1>3, <1>4 DEF Batches

\* pthread_cond_signal and the broadcast only move sleepers back to the loop.
LEMMA WakeupTypes ==
    ASSUME TypeOK
    PROVE  /\ CondBroadcast \in [Workers -> WorkerPcs]
           /\ \A p \in CondSignal : p \in [Workers -> WorkerPcs]
  BY DEF TypeOK, CondBroadcast, CondSignal, Waiting, WorkerPcs

LEMMA ReplaceFirstType ==
    ASSUME NEW T, NEW slots \in [Slots -> T], NEW old, NEW new \in T
    PROVE  ReplaceFirst(slots, old, new) \in [Slots -> T]
  BY DEF ReplaceFirst

\* TakeClient runs only with something in the queue.
LEMMA DequeueTypes ==
    ASSUME TypeOK, ~MustWait, ~exitFlag
    PROVE  /\ queue # <<>>
           /\ DeQueued(queue) = queue[1] /\ DeQueued(queue) \in Fds
           /\ AfterDeQueue(queue) = Tail(queue) /\ AfterDeQueue(queue) \in Seq(Fds)
           /\ Len(Tail(queue)) = Len(queue) - 1
           /\ \A i \in 1..Len(Tail(queue)) : Tail(queue)[i] = queue[i + 1]
  BY DEF TypeOK, MustWait, DeQueued, AfterDeQueue

LEMMA TypingInit == Init => Typing
  <1> SUFFICES ASSUME Init PROVE Typing  OBVIOUS
  <1>1. events \in Batches  BY DEF Init, Batches
  <1>2. queue \in Seq(Fds)  BY DEF Init
  <1>3. /\ backlog \in 0..Backlog /\ pipe \in 0..MaxSignals /\ signals \in 0..MaxSignals
        /\ pipe <= signals
    BY PoolAssumption DEF Init
  <1>4. /\ sock \in [Fds -> {"free", "up", "eof"}]
        /\ active \in [Slots -> Fds \cup {NoFd}]
        /\ pc \in [Workers -> WorkerPcs]
        /\ clientFd \in [Workers -> Fds \cup {NoFd}]
    BY DEF Init, WorkerPcs
  <1>5. mainPc \in MainPcs /\ exitFlag \in BOOLEAN /\ connFd \in Fds \cup {NoFd}
    BY DEF Init, MainPcs
  <1> QED
    BY <1>1, <1>2, <1>3, <1>4, <1>5 DEF Typing, TypeOK, PipeFromSignals

LEMMA TypingNext == Typing /\ LocalFds /\ [Next]_vars => Typing'
  <1> SUFFICES ASSUME Typing, LocalFds, [Next]_vars PROVE Typing'  OBVIOUS
  <1> USE PoolAssumption DEF Typing, PipeFromSignals, TypeOK, WorkerPcs, MainPcs,
        kernelVars, poolVars, workerVars, mainVars
  <1>1. CASE EpollWait  BY <1>1 DEF EpollWait
  <1>2. CASE \E fd \in Fds : Accept(fd)
    BY <1>2, BatchTail DEF Accept, HandlingEvent
  <1>3. CASE AcceptFails  BY <1>3, BatchTail DEF AcceptFails, HandlingEvent
  <1>4. CASE Enqueue  BY <1>4, WakeupTypes DEF Enqueue, EnQueue, LocalFds
  <1>5. CASE BeginShutdown  BY <1>5 DEF BeginShutdown, Batches
  <1>6. CASE SetExitFlag  BY <1>6, WakeupTypes DEF SetExitFlag
  <1>7. CASE ShutdownActiveFds  BY <1>7 DEF ShutdownActiveFds
  <1>8. CASE DrainPendingFds  BY <1>8 DEF DrainPendingFds
  <1>9. CASE JoinWorkers  BY <1>9 DEF JoinWorkers
  <1>10. ASSUME NEW w \in Workers, Wait(w) PROVE Typing'  BY <1>10 DEF Wait
  <1>11. ASSUME NEW w \in Workers, SpuriousWakeup(w) PROVE Typing'  BY <1>11 DEF SpuriousWakeup
  <1>12. ASSUME NEW w \in Workers, Exit(w) PROVE Typing'  BY <1>12 DEF Exit
  <1>13. ASSUME NEW w \in Workers, TakeClient(w) PROVE Typing'
    BY <1>13, DequeueTypes, ReplaceFirstType DEF TakeClient
  <1>14. ASSUME NEW w \in Workers, HandleRequestReturns(w) PROVE Typing'
    BY <1>14 DEF HandleRequestReturns
  <1>15. ASSUME NEW w \in Workers, UnregisterActiveFd(w) PROVE Typing'
    BY <1>15, ReplaceFirstType DEF UnregisterActiveFd
  <1>16. ASSUME NEW w \in Workers, CloseClientFd(w) PROVE Typing'  BY <1>16 DEF CloseClientFd
  <1>17. CASE ClientConnects  BY <1>17 DEF ClientConnects
  <1>18. ASSUME NEW fd \in Fds, ClientLeaves(fd) PROVE Typing'  BY <1>18 DEF ClientLeaves
  <1>19. CASE HandleSigint  BY <1>19 DEF HandleSigint
  <1>20. CASE UNCHANGED vars  BY <1>20 DEF vars
  <1> QED
    BY <1>1, <1>2, <1>3, <1>4, <1>5, <1>6, <1>7, <1>8, <1>9, <1>10, <1>11, <1>12, <1>13,
       <1>14, <1>15, <1>16, <1>17, <1>18, <1>19, <1>20
       DEF Next, MainThread, WorkerThread, WorkerStep, Environment, Returned

--------------------------------------------------------------------------------
(* The scans of active_fds in thread_func and unregister_active_fd. *)

\* A scan from slot 1 for a value that is there stops at its first occurrence.
LEMMA FirstSlot ==
    ASSUME NEW slots, NEW old, NEW i \in Slots, slots[i] = old
    PROVE  \E k \in Slots : slots[k] = old /\ \A j \in 1..(k - 1) : slots[j] # old
  <1> DEFINE found == {j \in Slots : slots[j] = old}
             prefixes == {1..j : j \in found}
  <1>1. IsFiniteSet(Slots)  BY PoolAssumption, FS_Interval DEF Slots
  <1>2. prefixes \subseteq SUBSET Slots /\ 1..i \in prefixes
    BY PoolAssumption DEF Slots
  <1>3. \A P \in prefixes : IsFiniteSet(P)  BY <1>1, <1>2, FS_Subset
  <1>4. prefixes \subseteq FiniteSubsetsOf(Slots)  BY <1>2, <1>3 DEF FiniteSubsetsOf
  <1>5. PICK P \in prefixes : \A Q \in prefixes : ~(<<Q, P>> \in StrictSubsetOrdering(Slots))
    <2> HIDE DEF prefixes
    <2> QED  BY <1>2, <1>4, FS_StrictSubsetOrderingWellFounded, WFMin
  <1>6. PICK k \in found : P = 1..k  OBVIOUS
  <1>7. ASSUME NEW j \in 1..(k - 1), slots[j] = old PROVE FALSE
    <2>1. j \in Slots /\ j \in found  BY <1>6, <1>7, PoolAssumption DEF Slots
    <2>2. 1..j \subseteq 1..k /\ 1..j # 1..k
      <3>1. k \in 1..k /\ k \notin 1..j  BY <2>1, <1>6, <1>7, PoolAssumption DEF Slots
      <3>2. 1..j \subseteq 1..k  BY <2>1, <1>6, <1>7, PoolAssumption DEF Slots
      <3> QED  BY <3>1, <3>2
    <2>3. <<1..j, P>> \in StrictSubsetOrdering(Slots)
      BY <1>2, <1>6, <2>1, <2>2 DEF StrictSubsetOrdering
    <2> QED  BY <1>5, <2>1, <2>3
  <1> QED  BY <1>6, <1>7

\* So such a scan of an array of descriptors changes exactly one slot.
LEMMA ReplaceOneSlot ==
    ASSUME NEW slots \in [Slots -> Fds \cup {NoFd}], NEW old, NEW new,
           NEW i \in Slots, slots[i] = old
    PROVE  \E k \in Slots : /\ slots[k] = old
                            /\ ReplaceFirst(slots, old, new) = [slots EXCEPT ![k] = new]
  <1>1. PICK k \in Slots : slots[k] = old /\ \A j \in 1..(k - 1) : slots[j] # old
    BY FirstSlot
  <1>2. \A j \in Slots : slots[j] = old /\ (\A m \in 1..(j - 1) : slots[m] # old) <=> j = k
    BY <1>1, PoolAssumption DEF Slots
  <1> QED  BY <1>1, <1>2 DEF ReplaceFirst

LEMMA ScanEffect ==
    ASSUME active \in [Slots -> Fds \cup {NoFd}], NEW i \in Slots, NEW new
    PROVE  \E k \in Slots : /\ active[k] = active[i]
                            /\ ReplaceFirst(active, active[i], new) = [active EXCEPT ![k] = new]
  BY ReplaceOneSlot

--------------------------------------------------------------------------------
(* The program counters. *)

\* A signal or a broadcast moves sleepers to the loop and nobody else.
LEMMA WakeupMoves ==
    ASSUME TypeOK, pc' \in CondSignal \/ pc' = CondBroadcast, NEW w \in Workers
    PROVE  pc'[w] = pc[w] \/ (pc[w] = "waiting" /\ pc'[w] = "loop")
  BY DEF TypeOK, CondSignal, CondBroadcast, Waiting

LEMMA PhasesInit == Init => LocalFds /\ ShutdownPhase
  BY PoolAssumption DEF Init, LocalFds, ShutdownPhase

LEMMA PhasesNext == Typing /\ LocalFds /\ ShutdownPhase /\ [Next]_vars => LocalFds' /\ ShutdownPhase'
  <1> SUFFICES ASSUME Typing, LocalFds, ShutdownPhase, [Next]_vars
               PROVE  LocalFds' /\ ShutdownPhase'
    OBVIOUS
  <1> USE PoolAssumption DEF Typing, TypeOK, WorkerPcs, MainPcs, LocalFds, ShutdownPhase,
        kernelVars, poolVars, workerVars, mainVars
  <1>1. CASE EpollWait  BY <1>1 DEF EpollWait
  <1>2. CASE \E fd \in Fds : Accept(fd)  BY <1>2 DEF Accept, HandlingEvent
  <1>3. CASE AcceptFails  BY <1>3 DEF AcceptFails
  <1>4. CASE Enqueue  BY <1>4, WakeupMoves, WakeupTypes DEF Enqueue
  <1>5. CASE BeginShutdown  BY <1>5 DEF BeginShutdown, HandlingEvent
  <1>6. CASE SetExitFlag  BY <1>6 DEF SetExitFlag, CondBroadcast
  <1>7. CASE ShutdownActiveFds  BY <1>7 DEF ShutdownActiveFds
  <1>8. CASE DrainPendingFds  BY <1>8 DEF DrainPendingFds
  <1>9. CASE JoinWorkers  BY <1>9 DEF JoinWorkers
  <1>10. ASSUME NEW w \in Workers, Wait(w) PROVE LocalFds' /\ ShutdownPhase'
    BY <1>10 DEF Wait, MustWait
  <1>11. ASSUME NEW w \in Workers, SpuriousWakeup(w) PROVE LocalFds' /\ ShutdownPhase'
    BY <1>11 DEF SpuriousWakeup
  <1>12. ASSUME NEW w \in Workers, Exit(w) PROVE LocalFds' /\ ShutdownPhase'
    BY <1>12 DEF Exit
  <1>13. ASSUME NEW w \in Workers, TakeClient(w) PROVE LocalFds' /\ ShutdownPhase'
    BY <1>13, DequeueTypes DEF TakeClient
  <1>14. ASSUME NEW w \in Workers, HandleRequestReturns(w) PROVE LocalFds' /\ ShutdownPhase'
    BY <1>14 DEF HandleRequestReturns
  <1>15. ASSUME NEW w \in Workers, UnregisterActiveFd(w) PROVE LocalFds' /\ ShutdownPhase'
    BY <1>15 DEF UnregisterActiveFd
  <1>16. ASSUME NEW w \in Workers, CloseClientFd(w) PROVE LocalFds' /\ ShutdownPhase'
    BY <1>16 DEF CloseClientFd
  <1>17. CASE ClientConnects  BY <1>17 DEF ClientConnects
  <1>18. ASSUME NEW fd \in Fds, ClientLeaves(fd) PROVE LocalFds' /\ ShutdownPhase'
    BY <1>18 DEF ClientLeaves
  <1>19. CASE HandleSigint  BY <1>19 DEF HandleSigint
  <1>20. CASE UNCHANGED vars  BY <1>20 DEF vars
  <1> QED
    BY <1>1, <1>2, <1>3, <1>4, <1>5, <1>6, <1>7, <1>8, <1>9, <1>10, <1>11, <1>12, <1>13,
       <1>14, <1>15, <1>16, <1>17, <1>18, <1>19, <1>20
       DEF Next, MainThread, WorkerThread, WorkerStep, Environment, Returned

--------------------------------------------------------------------------------
(* Who owns a descriptor. *)

LEMMA OwnedInit == Init => FdOwnedOnce
  BY PoolAssumption DEF Init, FdOwnedOnce, InQueue, Held

LEMMA OwnedNext ==
    Typing /\ LocalFds /\ ShutdownPhase /\ FdOwnedOnce /\ [Next]_vars => FdOwnedOnce'
  <1> SUFFICES ASSUME Typing, LocalFds, ShutdownPhase, FdOwnedOnce, [Next]_vars
               PROVE  FdOwnedOnce'
    OBVIOUS
  <1> USE PoolAssumption DEF Typing, TypeOK, LocalFds, FdOwnedOnce, InQueue, Held,
        kernelVars, poolVars, workerVars, mainVars
  <1>1. CASE UNCHANGED <<sock, queue, clientFd, connFd>>  BY <1>1
  <1>2. ASSUME NEW fd \in Fds, Accept(fd) PROVE FdOwnedOnce'
    <2>1. connFd = NoFd  BY <1>2 DEF Accept, HandlingEvent
    <2> QED  BY <1>2, <2>1 DEF Accept
  <1>3. CASE Enqueue
    <2>1. /\ connFd \in Fds /\ connFd' = NoFd /\ queue' \in Seq(Fds)
          /\ Len(queue') = Len(queue) + 1
          /\ \A i \in 1..Len(queue') : queue'[i] = IF i = Len(queue') THEN connFd ELSE queue[i]
          /\ UNCHANGED <<sock, clientFd>>
      BY <1>3 DEF Enqueue, EnQueue
    <2>2. \A fd \in Fds : InQueue(fd)' <=> InQueue(fd) \/ fd = connFd
      <3>1. ASSUME NEW fd \in Fds, NEW i \in 1..Len(queue), queue[i] = fd PROVE InQueue(fd)'
        BY <2>1, <3>1
      <3>2. ASSUME NEW fd \in Fds, fd = connFd PROVE InQueue(fd)'
        <4>1. Len(queue') \in 1..Len(queue') /\ queue'[Len(queue')] = connFd  BY <2>1
        <4> QED  BY <3>2, <4>1
      <3>3. ASSUME NEW fd \in Fds, NEW i \in 1..Len(queue'), queue'[i] = fd
            PROVE  InQueue(fd) \/ fd = connFd
        BY <2>1, <3>3
      <3> QED  BY <3>1, <3>2, <3>3
    <2>3. \A i, j \in 1..Len(queue') : queue'[i] = queue'[j] => i = j
      BY <2>1
    <2> QED  BY <2>1, <2>2, <2>3
  <1>4. CASE ShutdownActiveFds
    <2>1. \A fd \in Fds : sock'[fd] = "free" <=> sock[fd] = "free"
      BY <1>4 DEF ShutdownActiveFds
    <2>2. UNCHANGED <<queue, clientFd, connFd>>
      BY <1>4 DEF ShutdownActiveFds
    <2> QED  BY <2>1, <2>2
  <1>5. CASE DrainPendingFds
    <2>1. \A fd \in Fds : sock'[fd] # "free" <=> sock[fd] # "free" /\ ~InQueue(fd)
      BY <1>5 DEF DrainPendingFds
    <2>2. \A fd \in Fds : ~InQueue(fd)'
      BY <1>5 DEF DrainPendingFds
    <2>3. queue' = <<>> /\ UNCHANGED <<clientFd, connFd>>
      BY <1>5 DEF DrainPendingFds
    <2> QED  BY <2>1, <2>2, <2>3
  <1>6. ASSUME NEW w \in Workers, TakeClient(w) PROVE FdOwnedOnce'
    <2> DEFINE c == DeQueued(queue)
    <2>1. /\ c \in Fds /\ queue # <<>> /\ c = queue[1] /\ queue' \in Seq(Fds)
          /\ Len(queue') = Len(queue) - 1
          /\ \A i \in 1..Len(queue') : queue'[i] = queue[i + 1]
      BY <1>6, DequeueTypes DEF TakeClient
    <2>2. /\ clientFd[w] = NoFd
          /\ clientFd' = [clientFd EXCEPT ![w] = c]
          /\ UNCHANGED <<sock, connFd>>
      BY <1>6 DEF TakeClient
    <2> HIDE DEF c
    <2>3. \A fd \in Fds : InQueue(fd)' <=> InQueue(fd) /\ fd # c
      <3>1. ASSUME NEW fd \in Fds, NEW i \in 1..Len(queue), queue[i] = fd, fd # c
            PROVE  InQueue(fd)'
        <4>1. i - 1 \in 1..Len(queue') /\ queue'[i - 1] = fd  BY <2>1, <3>1
        <4> QED  BY <4>1
      <3>2. ASSUME NEW fd \in Fds, NEW i \in 1..Len(queue'), queue'[i] = fd
            PROVE  InQueue(fd) /\ fd # c
        <4>1. i + 1 \in 1..Len(queue) /\ queue[i + 1] = fd  BY <2>1, <3>2
        <4> QED  BY <2>1, <4>1
      <3> QED  BY <3>1, <3>2
    <2>4. \A fd \in Fds : Held(fd)' <=> Held(fd) \/ fd = c
      BY <2>1, <2>2
    <2>5. InQueue(c)  BY <2>1
    <2>6. \A i, j \in 1..Len(queue') : queue'[i] = queue'[j] => i = j
      BY <2>1
    <2>7. \A u, v \in Workers : clientFd'[u] = clientFd'[v] /\ clientFd'[u] # NoFd => u = v
      BY <2>1, <2>2, <2>5
    <2> QED  BY <2>1, <2>2, <2>3, <2>4, <2>5, <2>6, <2>7
  <1>7. ASSUME NEW w \in Workers, CloseClientFd(w) PROVE FdOwnedOnce'
    <2>1. /\ clientFd[w] \in Fds
          /\ sock' = [sock EXCEPT ![clientFd[w]] = "free"]
          /\ clientFd' = [clientFd EXCEPT ![w] = NoFd]
          /\ UNCHANGED <<queue, connFd>>
      BY <1>7 DEF CloseClientFd
    <2>2. \A fd \in Fds : Held(fd)' <=> Held(fd) /\ fd # clientFd[w]
      BY <2>1
    <2>3. Held(clientFd[w])  OBVIOUS
    <2> QED  BY <2>1, <2>2, <2>3
  <1>8. ASSUME NEW fd \in Fds, ClientLeaves(fd) PROVE FdOwnedOnce'
    BY <1>8 DEF ClientLeaves
  <1> QED
    BY <1>1, <1>2, <1>3, <1>4, <1>5, <1>6, <1>7, <1>8
       DEF Next, MainThread, WorkerThread, WorkerStep, Environment, Returned, vars, EpollWait,
           AcceptFails, BeginShutdown, SetExitFlag, JoinWorkers, Wait, SpuriousWakeup, Exit,
           HandleRequestReturns, UnregisterActiveFd, ClientConnects, HandleSigint

--------------------------------------------------------------------------------
(* active_fds. *)

LEMMA ActiveInit == Init => ActiveFdsExact
  BY PoolAssumption DEF Init, ActiveFdsExact, Serves

\* There are as many slots as workers, so a worker that serves nobody finds one
\* empty: the registration loop of thread_func never falls off its end.
LEMMA FreeSlot ==
    ASSUME Typing, LocalFds, FdOwnedOnce, ActiveFdsExact, NEW w \in Workers, ~Serves(w)
    PROVE  \E i \in Slots : active[i] = NoFd
  <1> SUFFICES ASSUME \A i \in Slots : active[i] # NoFd PROVE FALSE  OBVIOUS
  <1> DEFINE others == Workers \ {w}
             server == [i \in Slots |-> CHOOSE v \in Workers : Serves(v) /\ clientFd[v] = active[i]]
  <1>1. \A i \in Slots : server[i] \in others /\ clientFd[server[i]] = active[i]
    BY DEF ActiveFdsExact
  <1>2. server \in [Slots -> others]  BY <1>1
  <1>3. /\ IsFiniteSet(Slots) /\ IsFiniteSet(others)
        /\ Cardinality(others) < Cardinality(Slots)
    <2>1. IsFiniteSet(1..Num) /\ Cardinality(1..Num) = Num
      BY PoolAssumption, FS_Interval
    <2>2. IsFiniteSet(others) /\ Cardinality(others) = Num - 1
      BY <2>1, FS_RemoveElement DEF Workers
    <2> QED  BY <2>1, <2>2, PoolAssumption DEF Slots
  <1> HIDE DEF server, others
  <1>4. PICK i, j \in Slots : i # j /\ server[i] = server[j]
    BY <1>2, <1>3, FS_PigeonHole
  <1>5. active[i] = active[j] /\ active[i] # NoFd  BY <1>1, <1>4
  <1> QED  BY <1>4, <1>5 DEF ActiveFdsExact

LEMMA ActiveNext ==
    Typing /\ LocalFds /\ ShutdownPhase /\ FdOwnedOnce /\ ActiveFdsExact /\ [Next]_vars
        => ActiveFdsExact'
  <1> SUFFICES ASSUME Typing, LocalFds, ShutdownPhase, FdOwnedOnce, ActiveFdsExact, [Next]_vars
               PROVE  ActiveFdsExact'
    OBVIOUS
  <1> USE PoolAssumption DEF ActiveFdsExact, Serves, Registered
  <1>1. ASSUME active' = active,
               \A v \in Workers : /\ Serves(v)' <=> Serves(v)
                                  /\ Serves(v) => clientFd'[v] = clientFd[v]
        PROVE  ActiveFdsExact'
    <2>1. ASSUME NEW v \in Workers, Serves(v)' PROVE \E i \in Slots : active'[i] = clientFd'[v]
      BY <1>1, <2>1
    <2>2. ASSUME NEW i \in Slots, active'[i] # NoFd
          PROVE  \E v \in Workers : Serves(v)' /\ clientFd'[v] = active'[i]
      BY <1>1, <2>2
    <2>3. \A i, j \in Slots : active'[i] = active'[j] /\ active'[i] # NoFd => i = j
      BY <1>1
    <2> QED  BY <2>1, <2>2, <2>3
  <1>2. ASSUME NEW w \in Workers, TakeClient(w) PROVE ActiveFdsExact'
    <2> DEFINE c == DeQueued(queue)
    <2>1. /\ c \in Fds /\ c # NoFd /\ InQueue(c)
      BY <1>2, DequeueTypes DEF TakeClient, InQueue, Typing, TypeOK
    <2>2. PICK k \in Slots : active[k] = NoFd /\ active' = [active EXCEPT ![k] = c]
      <3>1. PICK i \in Slots : active[i] = NoFd  BY <1>2, FreeSlot DEF TakeClient
      <3>2. active \in [Slots -> Fds \cup {NoFd}]  BY DEF Typing, TypeOK
      <3>3. \E k \in Slots : /\ active[k] = active[i]
                             /\ ReplaceFirst(active, active[i], c) = [active EXCEPT ![k] = c]
        <4> HIDE DEF c
        <4> QED  BY <3>2, ScanEffect
      <3> QED  BY <1>2, <3>1, <3>3 DEF TakeClient
    <2>3. /\ pc[w] = "loop" /\ clientFd' = [clientFd EXCEPT ![w] = c]
          /\ pc' = [pc EXCEPT ![w] = "serving"]
      BY <1>2 DEF TakeClient
    <2> HIDE DEF c
    <2>4. \A v \in Workers : clientFd[v] # c
      BY <2>1 DEF FdOwnedOnce, Held
    <2>5. /\ active'[k] = c /\ \A i \in Slots : i # k => active'[i] = active[i]
          /\ clientFd'[w] = c /\ \A v \in Workers : v # w => clientFd'[v] = clientFd[v]
          /\ Serves(w)' /\ ~Serves(w) /\ \A v \in Workers : v # w => (Serves(v)' <=> Serves(v))
      BY <2>2, <2>3 DEF Typing, TypeOK
    <2>6. \A i \in Slots : active[i] # c  BY <2>1, <2>4
    <2>7. ASSUME NEW v \in Workers, Serves(v)' PROVE \E i \in Slots : active'[i] = clientFd'[v]
      <3>1. CASE v = w  BY <2>5, <3>1
      <3>2. CASE v # w
        <4>1. PICK i \in Slots : active[i] = clientFd[v]  BY <2>5, <2>7, <3>2
        <4>2. clientFd[v] # NoFd  BY <2>5, <2>7, <3>2 DEF LocalFds
        <4> QED  BY <2>2, <2>5, <3>2, <4>1, <4>2
      <3> QED  BY <3>1, <3>2
    <2>8. ASSUME NEW i \in Slots, active'[i] # NoFd
          PROVE  \E v \in Workers : Serves(v)' /\ clientFd'[v] = active'[i]
      BY <2>5, <2>8
    <2>9. \A i, j \in Slots : active'[i] = active'[j] /\ active'[i] # NoFd => i = j
      BY <2>5, <2>6
    <2> QED  BY <2>7, <2>8, <2>9
  <1>3. ASSUME NEW w \in Workers, UnregisterActiveFd(w) PROVE ActiveFdsExact'
    <2> DEFINE c == clientFd[w]
    <2>1. PICK i \in Slots : active[i] = c  BY <1>3 DEF UnregisterActiveFd
    <2>2. PICK k \in Slots : active[k] = c /\ active' = [active EXCEPT ![k] = NoFd]
      <3>1. active \in [Slots -> Fds \cup {NoFd}]  BY DEF Typing, TypeOK
      <3>2. \E k \in Slots : /\ active[k] = active[i]
                             /\ ReplaceFirst(active, active[i], NoFd) = [active EXCEPT ![k] = NoFd]
        BY <3>1, ScanEffect
      <3>3. active' = ReplaceFirst(active, active[i], NoFd)
        BY <1>3, <2>1 DEF UnregisterActiveFd
      <3> QED  BY <2>1, <3>2, <3>3
    <2>3. /\ c # NoFd /\ clientFd' = clientFd
          /\ pc[w] = "handled" /\ pc' = [pc EXCEPT ![w] = "closing"]
      BY <1>3 DEF UnregisterActiveFd, LocalFds
    <2>4. \A v \in Workers : clientFd[v] = c => v = w
      BY <2>3 DEF FdOwnedOnce
    <2> QED  BY <2>2, <2>3, <2>4 DEF Typing, TypeOK
  <1>4. CASE Enqueue  BY <1>1, <1>4, WakeupMoves DEF Enqueue, Typing
  <1>5. CASE SetExitFlag  BY <1>1, <1>5, WakeupMoves DEF SetExitFlag, Typing
  <1>6. ASSUME NEW w \in Workers, HandleRequestReturns(w) PROVE ActiveFdsExact'
    BY <1>1, <1>6 DEF HandleRequestReturns, Typing, TypeOK, poolVars
  <1>7. ASSUME NEW w \in Workers, CloseClientFd(w) PROVE ActiveFdsExact'
    BY <1>1, <1>7 DEF CloseClientFd, Typing, TypeOK, poolVars
  <1>8. ASSUME NEW w \in Workers, Wait(w) \/ SpuriousWakeup(w) \/ Exit(w) PROVE ActiveFdsExact'
    BY <1>1, <1>8 DEF Wait, SpuriousWakeup, Exit, Typing, TypeOK, poolVars
  <1>9. CASE UNCHANGED <<active, pc, clientFd>>  BY <1>1, <1>9
  <1> QED
    BY <1>2, <1>3, <1>4, <1>5, <1>6, <1>7, <1>8, <1>9
       DEF Next, MainThread, WorkerThread, WorkerStep, Environment, Returned, vars, EpollWait,
           Accept, AcceptFails, BeginShutdown, ShutdownActiveFds, DrainPendingFds, JoinWorkers,
           ClientConnects, ClientLeaves, HandleSigint, poolVars, workerVars

--------------------------------------------------------------------------------
(* The inductive invariant holds. *)

LEMMA InitIInv == Init => IInv
  BY TypingInit, PhasesInit, OwnedInit, ActiveInit DEF IInv

LEMMA NextIInv == IInv /\ [Next]_vars => IInv'
  BY TypingNext, PhasesNext, OwnedNext, ActiveNext DEF IInv

(* It holds in every behaviour of the main thread and the workers. *)
THEOREM Invariance == Spec => []IInv
  BY InitIInv, NextIInv, PTL DEF Spec

\* Every variable has its type in every reachable state, in particular the pipe
\* never holds more bytes than the buffer main reads it with.
THEOREM TypeCorrect == Spec => []TypeOK
  <1>1. IInv => TypeOK  BY DEF IInv, Typing
  <1> QED  BY <1>1, Invariance, PTL

\* Each open descriptor has one owner who will close it: the main thread, the
\* queue or one worker.
THEOREM OneOwner == Spec => []FdOwnedOnce
  <1>1. IInv => FdOwnedOnce  BY DEF IInv
  <1> QED  BY <1>1, Invariance, PTL

\* active_fds lists exactly the connections in service, whatever the number of
\* workers: the scan for a free slot always succeeds.
THEOREM ActiveExact == Spec => []ActiveFdsExact
  <1>1. IInv => ActiveFdsExact  BY DEF IInv
  <1> QED  BY <1>1, Invariance, PTL

--------------------------------------------------------------------------------
(* No wakeup is lost. *)

Awake == {w \in Workers : pc[w] = "loop"}

\* Awake counted after one worker has joined or left it.
LEMMA AwakeCount ==
    /\ IsFiniteSet(Awake) /\ Cardinality(Awake) \in Nat
    /\ \A w \in Workers : Awake' = Awake \cup {w} /\ w \notin Awake
                             => Cardinality(Awake') = Cardinality(Awake) + 1
    /\ \A w \in Workers : Awake' = Awake \ {w} /\ w \in Awake
                             => Cardinality(Awake') = Cardinality(Awake) - 1
  <1>1. IsFiniteSet(Awake)
    <2>1. IsFiniteSet(Workers)  BY PoolAssumption, FS_Interval DEF Workers
    <2>2. Awake \in SUBSET Workers  BY DEF Awake
    <2> QED  BY <2>1, <2>2, FS_Subset
  <1>2. Cardinality(Awake) \in Nat  BY <1>1, FS_CardinalityType
  <1> QED  BY <1>1, <1>2, FS_AddElement, FS_RemoveElement

LEMMA NoLostWakeupNext == IInv /\ NoLostWakeup /\ [Next]_vars => NoLostWakeup'
  <1> SUFFICES ASSUME IInv, NoLostWakeup, [Next]_vars, Waiting' # {}
               PROVE  Cardinality(Awake)' >= Len(queue)'
    BY DEF NoLostWakeup, Awake
  <1> USE DEF IInv, Typing, TypeOK, Waiting, Awake
  <1>1. Waiting # {} => Cardinality(Awake) >= Len(queue)  BY DEF NoLostWakeup
  <1>2. Cardinality(Awake) \in Nat /\ Len(queue) \in Nat  BY AwakeCount
  <1>3. CASE Enqueue
    <2>1. Waiting # {}  BY <1>3, WakeupMoves DEF Enqueue
    <2>2. PICK w \in Waiting : pc' = [pc EXCEPT ![w] = "loop"]
      BY <1>3, <2>1 DEF Enqueue, CondSignal
    <2>3. Awake' = Awake \cup {w} /\ w \notin Awake  BY <2>2
    <2>4. Len(queue') = Len(queue) + 1  BY <1>3 DEF Enqueue, EnQueue, LocalFds
    <2>5. Cardinality(Awake') = Cardinality(Awake) + 1  BY <2>3, AwakeCount
    <2> QED  BY <1>1, <1>2, <2>1, <2>4, <2>5
  <1>4. CASE SetExitFlag
    <2>1. \A w \in Workers : pc'[w] # "waiting"  BY <1>4 DEF SetExitFlag, CondBroadcast
    <2> QED  BY <2>1
  <1>5. CASE DrainPendingFds
    <2>1. Len(queue') = 0 /\ pc' = pc  BY <1>5 DEF DrainPendingFds, workerVars
    <2> QED  BY <1>2, <2>1
  <1>6. ASSUME NEW w \in Workers, Wait(w) PROVE Cardinality(Awake)' >= Len(queue)'
    <2>1. Awake' = Awake \ {w} /\ w \in Awake  BY <1>6 DEF Wait
    <2>2. w \in Awake => Cardinality(Awake) # 0  BY AwakeCount, FS_EmptySet
    <2>3. Cardinality(Awake') = Cardinality(Awake) - 1  BY <2>1, AwakeCount
    <2>4. queue' = <<>> /\ Len(queue') = 0  BY <1>6 DEF Wait, MustWait, poolVars
    <2> QED  BY <1>2, <2>1, <2>2, <2>3, <2>4
  <1>7. ASSUME NEW w \in Workers, SpuriousWakeup(w) PROVE Cardinality(Awake)' >= Len(queue)'
    <2>1. Awake' = Awake \cup {w} /\ w \notin Awake  BY <1>7 DEF SpuriousWakeup
    <2>2. Cardinality(Awake') = Cardinality(Awake) + 1  BY <2>1, AwakeCount
    <2>3. Waiting # {} /\ queue' = queue  BY <1>7 DEF SpuriousWakeup, poolVars
    <2> QED  BY <1>1, <1>2, <2>2, <2>3
  <1>8. ASSUME NEW w \in Workers, Exit(w) PROVE Cardinality(Awake)' >= Len(queue)'
    <2>1. Waiting' = {}  BY <1>8 DEF Exit, ShutdownPhase
    <2> QED  BY <2>1
  <1>9. ASSUME NEW w \in Workers, TakeClient(w) PROVE Cardinality(Awake)' >= Len(queue)'
    <2>1. Awake' = Awake \ {w} /\ w \in Awake  BY <1>9 DEF TakeClient
    <2>2. Cardinality(Awake') = Cardinality(Awake) - 1  BY <2>1, AwakeCount
    <2>3. Len(queue') = Len(queue) - 1  BY <1>9, DequeueTypes DEF TakeClient
    <2>4. Waiting # {}  BY <1>9 DEF TakeClient
    <2> QED  BY <1>1, <1>2, <2>2, <2>3, <2>4
  <1>10. ASSUME NEW w \in Workers, CloseClientFd(w) PROVE Cardinality(Awake)' >= Len(queue)'
    <2>1. Awake' = Awake \cup {w} /\ w \notin Awake  BY <1>10 DEF CloseClientFd
    <2>2. Cardinality(Awake') = Cardinality(Awake) + 1  BY <2>1, AwakeCount
    <2>3. Waiting # {} /\ queue' = queue  BY <1>10 DEF CloseClientFd, poolVars
    <2> QED  BY <1>1, <1>2, <2>2, <2>3
  <1>11. ASSUME NEW w \in Workers, HandleRequestReturns(w) \/ UnregisterActiveFd(w)
         PROVE  Cardinality(Awake)' >= Len(queue)'
    <2>1. Awake' = Awake /\ Waiting' = Waiting /\ queue' = queue
      BY <1>11 DEF HandleRequestReturns, UnregisterActiveFd, poolVars
    <2> QED  BY <1>1, <2>1
  <1>12. CASE UNCHANGED <<pc, queue>>
    <2>1. Awake' = Awake /\ Waiting' = Waiting /\ queue' = queue  BY <1>12
    <2> QED  BY <1>1, <2>1
  <1> QED
    BY <1>3, <1>4, <1>5, <1>6, <1>7, <1>8, <1>9, <1>10, <1>11, <1>12
       DEF Next, MainThread, WorkerThread, WorkerStep, Environment, Returned, vars, EpollWait,
           Accept, AcceptFails, BeginShutdown, ShutdownActiveFds, JoinWorkers, ClientConnects,
           ClientLeaves, HandleSigint, poolVars, workerVars

\* No connection sits in the queue with a worker asleep and none awake to take it:
\* the single pthread_cond_signal per enQueue is enough for any number of workers.
THEOREM NoWakeupLost == Spec => []NoLostWakeup
  <1>1. Init => NoLostWakeup
    BY DEF Init, NoLostWakeup, Waiting
  <1> QED  BY <1>1, NoLostWakeupNext, Invariance, PTL DEF Spec

--------------------------------------------------------------------------------
(* The shutdown reaches everybody. *)

LEMMA ReachesSessionsNext ==
    IInv /\ ShutdownReachesSessions /\ [Next]_vars => ShutdownReachesSessions'
  <1> SUFFICES ASSUME IInv, ShutdownReachesSessions, [Next]_vars,
                      mainPc' \in {"drain", "join"},
                      NEW v \in Workers, pc'[v] = "serving"
               PROVE  sock'[clientFd'[v]] = "eof"
    BY DEF ShutdownReachesSessions
  <1> USE DEF IInv, Typing, TypeOK, LocalFds
  <1>1. mainPc \in {"drain", "join"} /\ pc[v] = "serving" => sock[clientFd[v]] = "eof"
    BY DEF ShutdownReachesSessions
  <1>2. CASE ShutdownActiveFds
    <2>1. pc[v] = "serving" /\ clientFd' = clientFd
      BY <1>2 DEF ShutdownActiveFds, workerVars
    <2>2. clientFd[v] \in Fds  BY <2>1
    <2>3. Registered(clientFd[v])  BY <2>1 DEF ActiveFdsExact, Serves
    <2>4. sock[clientFd[v]] # "free"  BY <2>2 DEF FdOwnedOnce, Held
    <2> QED  BY <1>2, <2>1, <2>2, <2>3, <2>4 DEF ShutdownActiveFds
  <1>3. CASE DrainPendingFds
    <2>1. pc[v] = "serving" /\ clientFd' = clientFd /\ mainPc = "drain"
      BY <1>3 DEF DrainPendingFds, workerVars
    <2>2. clientFd[v] \in Fds  BY <2>1
    <2>3. ~InQueue(clientFd[v])  BY <2>2 DEF FdOwnedOnce, Held
    <2> QED  BY <1>1, <1>3, <2>1, <2>2, <2>3 DEF DrainPendingFds
  <1>4. ASSUME NEW w \in Workers, CloseClientFd(w) PROVE sock'[clientFd'[v]] = "eof"
    <2>1. /\ v # w /\ pc[v] = "serving" /\ mainPc' = mainPc
          /\ clientFd'[v] = clientFd[v] /\ clientFd[v] \in Fds
      BY <1>4 DEF CloseClientFd, mainVars
    <2>2. clientFd[v] # clientFd[w]  BY <2>1, PoolAssumption DEF FdOwnedOnce
    <2> QED  BY <1>1, <1>4, <2>1, <2>2 DEF CloseClientFd
  <1>5. ASSUME NEW w \in Workers, TakeClient(w) PROVE sock'[clientFd'[v]] = "eof"
    BY <1>5 DEF TakeClient, ShutdownPhase, mainVars
  <1>6. ASSUME NEW w \in Workers,
               Wait(w) \/ SpuriousWakeup(w) \/ Exit(w) \/ HandleRequestReturns(w)
                   \/ UnregisterActiveFd(w)
        PROVE  sock'[clientFd'[v]] = "eof"
    <2>1. pc[v] = "serving" /\ UNCHANGED <<mainPc, clientFd, sock>>
      BY <1>6 DEF Wait, SpuriousWakeup, Exit, HandleRequestReturns, UnregisterActiveFd,
                  kernelVars, mainVars
    <2> QED  BY <1>1, <2>1
  <1>7. ASSUME NEW fd \in Fds, ClientLeaves(fd) PROVE sock'[clientFd'[v]] = "eof"
    BY <1>1, <1>7 DEF ClientLeaves, workerVars, mainVars
  <1>8. CASE UNCHANGED <<pc, clientFd, sock, mainPc>>  BY <1>1, <1>8
  <1> QED
    BY <1>2, <1>3, <1>4, <1>5, <1>6, <1>7, <1>8
       DEF Next, MainThread, WorkerThread, WorkerStep, Environment, Returned, vars, EpollWait,
           Accept, AcceptFails, Enqueue, BeginShutdown, SetExitFlag, JoinWorkers, ClientConnects,
           HandleSigint, HandlingEvent, poolVars, workerVars, kernelVars, mainVars

\* After shutdown_active_fds no session is left on a live connection, so no worker
\* can stay blocked in recv while main waits in pthread_join.
THEOREM NoSessionMissed == Spec => []ShutdownReachesSessions
  <1>1. Init => ShutdownReachesSessions  BY DEF Init, ShutdownReachesSessions
  <1> QED  BY <1>1, ReachesSessionsNext, Invariance, PTL DEF Spec

\* When main returns nothing is left open, registered, queued or running.
THEOREM ReturnsClean == Spec => []CleanReturn
  <1>1. IInv => CleanReturn
    <2> SUFFICES ASSUME IInv, mainPc = "returned"
                 PROVE  /\ \A fd \in Fds : sock[fd] = "free"
                        /\ \A i \in Slots : active[i] = NoFd
                        /\ queue = <<>> /\ \A w \in Workers : pc[w] = "done"
      BY DEF CleanReturn
    <2>1. queue = <<>> /\ (\A w \in Workers : pc[w] = "done") /\ connFd = NoFd
      BY DEF IInv, ShutdownPhase, LocalFds
    <2>2. \A w \in Workers : clientFd[w] = NoFd /\ ~Serves(w)
      BY <2>1 DEF IInv, LocalFds, Serves
    <2>3. \A fd \in Fds : ~InQueue(fd) /\ ~Held(fd) /\ connFd # fd
      BY <2>1, <2>2, PoolAssumption DEF InQueue, Held
    <2> QED  BY <2>1, <2>2, <2>3 DEF IInv, FdOwnedOnce, ActiveFdsExact
  <1> QED  BY <1>1, Invariance, PTL

--------------------------------------------------------------------------------
(* Implementation of ConnectionService. *)

Pending   == IF connFd = NoFd THEN queue ELSE Append(queue, connFd)
InService == {clientFd[w] : w \in Workers} \ {NoFd}

\* There is a worker to spare for a connection that is taken.
LEMMA RoomForOne ==
    ASSUME IInv, NEW w \in Workers, clientFd[w] = NoFd
    PROVE  IsFiniteSet(InService) /\ Cardinality(InService) < Num
  <1>1. IsFiniteSet(InService)
    <2>1. InService \in SUBSET Fds  BY DEF InService, IInv, Typing, TypeOK
    <2> QED  BY <2>1, PoolAssumption, FS_Subset
  <1>2. Cardinality(InService) \in Nat  BY <1>1, FS_CardinalityType
  <1> DEFINE others == Workers \ {w}
             server == [c \in InService |-> CHOOSE v \in Workers : clientFd[v] = c]
  <1>3. \A c \in InService : server[c] \in others /\ clientFd[server[c]] = c
    BY DEF InService
  <1>4. server \in [InService -> others]  BY <1>3
  <1>5. IsFiniteSet(others) /\ Cardinality(others) = Num - 1
    <2>1. IsFiniteSet(1..Num) /\ Cardinality(1..Num) = Num
      BY PoolAssumption, FS_Interval
    <2> QED  BY <2>1, FS_RemoveElement DEF Workers
  <1> HIDE DEF server, others
  <1>6. ASSUME Num - 1 < Cardinality(InService) PROVE FALSE
    <2>1. PICK c, d \in InService : c # d /\ server[c] = server[d]
      BY <1>1, <1>4, <1>5, <1>6, FS_PigeonHole
    <2> QED  BY <1>3, <2>1
  <1> QED  BY <1>1, <1>2, <1>6, PoolAssumption

LEMMA SameCardinality == \A S : CS!Cardinality(S) = Cardinality(S)
  BY DEF CS!Cardinality, Cardinality

LEMMA RefinementInit == Init => CS!CSInit
  BY PoolAssumption DEF Init, CS!CSInit

LEMMA RefinementNext == IInv /\ [Next]_vars => [CS!CSNext]_(CS!csVars)
  <1> SUFFICES ASSUME IInv, [Next]_vars
               PROVE  CS!CSNext \/ (Pending' = Pending /\ InService' = InService /\ exitFlag' = exitFlag)
    BY DEF CS!csVars, Pending, InService
  <1> USE PoolAssumption
  <1>1. ASSUME NEW fd \in Fds, Accept(fd) PROVE CS!CSNext
    <2>1. /\ connFd = NoFd /\ connFd' = fd /\ fd # NoFd /\ ~exitFlag
          /\ UNCHANGED <<queue, clientFd, exitFlag>>
      BY <1>1 DEF Accept, HandlingEvent, IInv, LocalFds, ShutdownPhase, poolVars, workerVars
    <2>2. ~InQueue(fd) /\ ~Held(fd)  BY <1>1 DEF Accept, IInv, FdOwnedOnce
    <2>3. CS!Arrive(fd)
      BY <2>1, <2>2 DEF CS!Arrive, CS!IsPending, InQueue, Held
    <2> QED  BY <2>3 DEF CS!CSNext
  <1>2. CASE Enqueue
    <2>1. /\ connFd # NoFd /\ connFd' = NoFd /\ queue' = Append(queue, connFd)
          /\ UNCHANGED <<clientFd, exitFlag>>
      BY <1>2 DEF Enqueue, EnQueue, IInv, LocalFds
    <2> QED  BY <2>1 DEF Pending, InService
  <1>3. CASE SetExitFlag
    <2>1. ~exitFlag /\ exitFlag' = TRUE /\ UNCHANGED <<queue, clientFd, connFd>>
      BY <1>3 DEF SetExitFlag, IInv, ShutdownPhase
    <2>2. CS!Stop  BY <2>1 DEF CS!Stop
    <2> QED  BY <2>2 DEF CS!CSNext
  <1>4. CASE DrainPendingFds
    <2>1. /\ exitFlag /\ queue' = <<>> /\ connFd = NoFd /\ connFd' = NoFd
          /\ UNCHANGED <<clientFd, exitFlag>>
      BY <1>4 DEF DrainPendingFds, IInv, ShutdownPhase, LocalFds, workerVars
    <2>2. CS!DropPending  BY <2>1 DEF CS!DropPending
    <2> QED  BY <2>2 DEF CS!CSNext
  <1>5. ASSUME NEW w \in Workers, TakeClient(w) PROVE CS!CSNext
    <2> DEFINE c == queue[1]
    <2>1. /\ ~exitFlag /\ queue \in Seq(Fds) /\ queue # <<>> /\ c \in Fds
          /\ queue' = Tail(queue) /\ Len(queue) >= 1
          /\ clientFd[w] = NoFd /\ clientFd' = [clientFd EXCEPT ![w] = c]
          /\ UNCHANGED <<exitFlag, connFd>>
      <3>1. pc[w] = "loop" /\ ~MustWait /\ ~exitFlag /\ TypeOK
        BY <1>5 DEF TakeClient, IInv, Typing
      <3>2. queue \in Seq(Fds) /\ queue # <<>> /\ c \in Fds /\ DeQueued(queue) = c
              /\ AfterDeQueue(queue) = Tail(queue)
        BY <3>1, DequeueTypes DEF TypeOK
      <3>3. Len(queue) >= 1  BY <3>2
      <3>4. clientFd[w] = NoFd  BY <3>1 DEF IInv, LocalFds
      <3> HIDE DEF c
      <3> QED  BY <1>5, <3>1, <3>2, <3>3, <3>4 DEF TakeClient, mainVars
    <2>2. InService' = InService \cup {c}
      BY <2>1 DEF InService, IInv, Typing, TypeOK
    <2>3. c \notin InService
      <3>1. InQueue(c)  BY <2>1 DEF InQueue
      <3>2. ~Held(c)  BY <2>1, <3>1 DEF IInv, FdOwnedOnce
      <3> QED  BY <3>2 DEF Held, InService
    <2>4. Pending # <<>> /\ Head(Pending) = c /\ Pending' = Tail(Pending)
      <3>1. CASE connFd = NoFd  BY <2>1, <3>1 DEF Pending
      <3>2. CASE connFd # NoFd
        <4>1. connFd \in Fds  BY <3>2 DEF IInv, Typing, TypeOK
        <4>2. Append(queue, connFd) # <<>> /\ Head(Append(queue, connFd)) = c
          BY <2>1, <4>1
        <4>3. Tail(Append(queue, connFd)) = Append(Tail(queue), connFd)
          BY <2>1, <4>1
        <4> QED  BY <2>1, <3>2, <4>2, <4>3 DEF Pending
      <3> QED  BY <3>1, <3>2
    <2>5. Cardinality(InService) < Num  BY <2>1, RoomForOne
    <2> HIDE DEF c
    <2>6. CS!Begin  BY <2>1, <2>2, <2>3, <2>4, <2>5, SameCardinality, Zenon DEF CS!Begin, Pending, InService
    <2> QED  BY <2>6 DEF CS!CSNext
  <1>6. ASSUME NEW w \in Workers, CloseClientFd(w) PROVE CS!CSNext
    <2>0. PICK c \in Fds : c = clientFd[w]
      BY <1>6 DEF CloseClientFd, IInv, Typing, TypeOK, LocalFds
    <2>1. /\ c = clientFd[w] /\ clientFd' = [clientFd EXCEPT ![w] = NoFd]
          /\ UNCHANGED <<queue, connFd, exitFlag>>
      BY <1>6, <2>0 DEF CloseClientFd, poolVars, mainVars
    <2>2. \A v \in Workers : clientFd[v] = c => v = w  BY <2>1 DEF IInv, FdOwnedOnce
    <2>3. c \in InService  BY <2>1 DEF InService
    <2>4. InService' = InService \ {c}
      BY <2>1, <2>2 DEF InService, IInv, Typing, TypeOK
    <2>5. Pending' = Pending  BY <2>1 DEF Pending
    <2>6. CS!Finish(c)  BY <2>1, <2>3, <2>4, <2>5 DEF CS!Finish, Pending, InService
    <2> QED  BY <2>1, <2>6 DEF CS!CSNext
  <1>7. CASE UNCHANGED <<queue, connFd, clientFd, exitFlag>>
    BY <1>7 DEF Pending, InService
  <1> QED
    BY <1>1, <1>2, <1>3, <1>4, <1>5, <1>6, <1>7
       DEF Next, MainThread, WorkerThread, WorkerStep, Environment, Returned, vars, EpollWait,
           AcceptFails, BeginShutdown, ShutdownActiveFds, JoinWorkers, Wait, SpuriousWakeup, Exit,
           HandleRequestReturns, UnregisterActiveFd, ClientConnects, ClientLeaves, HandleSigint,
           poolVars, workerVars, mainVars

\* The threads, the queue and the descriptors implement ConnectionService: first
\* come first served, each once, at most Num at a time, none after the stop.
THEOREM Refinement == Spec => ImplementsConnectionService
  <1> QED
    BY RefinementInit, RefinementNext, Invariance, PTL
       DEF Spec, ImplementsConnectionService, CS!CSSpec
================================================================================
