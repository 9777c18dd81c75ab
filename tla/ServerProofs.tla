------------------------------ MODULE ServerProofs ------------------------------
(***************************************************************************)
(* The composed server, for any number of workers, descriptors and         *)
(* clients.  Its pool part is a behaviour of ThreadPool, so that all that  *)
(* ThreadPoolProofs shows holds of it; its upload part keeps the           *)
(* invariants of UploadProofs, although a stop breaks many connections in  *)
(* one step; and peer and waiting bind the two together.                   *)
(***************************************************************************)
EXTENDS Server, FiniteSetTheorems, TLAPS

PoolP == INSTANCE ThreadPoolProofs
PutsP == INSTANCE UploadProofs

(* The inductive invariant. *)

\* A connection no worker has taken yet.
Unread(fd) == connFd = fd \/ Pool!InQueue(fd)

InBacklog(c) == \E i \in 1..Len(waiting) : waiting[i] = c

\* Each session that is not over waits once in the backlog or has one open descriptor;
\* before a worker has the connection nothing of it has been read; its handler has returned
\* when the worker says so; no half of it is alive alone.
Peers == /\ peer \in [Fds -> Sessions \cup {NoClient}]
         /\ waiting \in Seq(Sessions)
         /\ \A fd \in Fds : peer[fd] # NoClient <=> sock[fd] # "free"
         /\ \A f, g \in Fds : peer[f] = peer[g] /\ peer[f] # NoClient => f = g
         /\ \A i, j \in 1..Len(waiting) : waiting[i] = waiting[j] => i = j
         /\ \A c \in Sessions : InBacklog(c) => spc[c] = "idle" /\ \A fd \in Fds : peer[fd] # c
         /\ \A c \in Sessions : spc[c] # "gone" <=> InBacklog(c) \/ \E fd \in Fds : peer[fd] = c
         /\ \A fd \in Fds : Unread(fd) => spc[peer[fd]] = "idle"
         /\ \A w \in Pool!Workers : clientFd[w] \in Fds =>
                (pc[w] = "serving" <=> spc[peer[clientFd[w]]] # "closing")
         /\ \A fd \in Fds : peer[fd] # NoClient /\ link[peer[fd]] = "up" => sock[fd] = "up"
         /\ mainPc \notin {"epoll", "enqueue"} => waiting = <<>>

IInv == PoolP!IInv /\ PutsP!SafeInv /\ PutsP!PlaceInv /\ Peers

--------------------------------------------------------------------------------
(* The instances of the proof modules are those of Server. *)

LEMMA Assumptions ==
    PoolP!PoolAssumption /\ PutsP!UploadAssumption /\ Faults = {} /\ NoClient \notin Sessions
  BY ServerAssumption
  DEF PoolP!PoolAssumption, Pool!PoolAssumption, PutsP!UploadAssumption, Puts!UploadAssumption,
      PoolP!IsFiniteSet, Pool!IsFiniteSet

LEMMA SamePool ==
    /\ PoolP!Init <=> Pool!Init
    /\ PoolP!Next <=> Pool!Next
    /\ PoolP!vars = Pool!vars /\ PoolP!vars' = Pool!vars'
  BY DEF PoolP!Init, Pool!Init, PoolP!Next, Pool!Next, PoolP!vars, Pool!vars,
     PoolP!kernelVars, Pool!kernelVars, PoolP!poolVars, Pool!poolVars, PoolP!mainVars, Pool!mainVars,
     PoolP!workerVars, Pool!workerVars, PoolP!Slots, Pool!Slots, PoolP!Workers, Pool!Workers,
     PoolP!MainThread, Pool!MainThread, PoolP!EpollWait, Pool!EpollWait, PoolP!Accept, Pool!Accept,
     PoolP!AcceptFails, Pool!AcceptFails, PoolP!Enqueue, Pool!Enqueue, PoolP!BeginShutdown, Pool!BeginShutdown,
     PoolP!SetExitFlag, Pool!SetExitFlag, PoolP!ShutdownActiveFds, Pool!ShutdownActiveFds,
     PoolP!DrainPendingFds, Pool!DrainPendingFds, PoolP!JoinWorkers, Pool!JoinWorkers,
     PoolP!HandlingEvent, Pool!HandlingEvent, PoolP!ReadyEvents, Pool!ReadyEvents, PoolP!Batches, Pool!Batches,
     PoolP!CondSignal, Pool!CondSignal, PoolP!CondBroadcast, Pool!CondBroadcast, PoolP!Waiting, Pool!Waiting,
     PoolP!EnQueue, Pool!EnQueue, PoolP!Registered, Pool!Registered, PoolP!InQueue, Pool!InQueue,
     PoolP!WorkerThread, Pool!WorkerThread, PoolP!WorkerStep, Pool!WorkerStep, PoolP!Wait, Pool!Wait,
     PoolP!Exit, Pool!Exit, PoolP!TakeClient, Pool!TakeClient, PoolP!UnregisterActiveFd, Pool!UnregisterActiveFd,
     PoolP!CloseClientFd, Pool!CloseClientFd, PoolP!HandleRequestReturns, Pool!HandleRequestReturns,
     PoolP!SpuriousWakeup, Pool!SpuriousWakeup, PoolP!MustWait, Pool!MustWait, PoolP!DeQueued, Pool!DeQueued,
     PoolP!AfterDeQueue, Pool!AfterDeQueue, PoolP!ReplaceFirst, Pool!ReplaceFirst,
     PoolP!Environment, Pool!Environment, PoolP!ClientConnects, Pool!ClientConnects,
     PoolP!ClientLeaves, Pool!ClientLeaves, PoolP!HandleSigint, Pool!HandleSigint, PoolP!Returned, Pool!Returned

LEMMA SameClient ==
    \A c \in Sessions : /\ PutsP!ClientStep(c) <=> Puts!ClientStep(c)
                        /\ PutsP!User(c) <=> Puts!User(c)
                        /\ PutsP!LinkBreaks(c) <=> Puts!LinkBreaks(c)
  BY DEF PutsP!ClientStep, Puts!ClientStep, PutsP!RecvPutsResp, Puts!RecvPutsResp, PutsP!RecvRefusal,
     Puts!RecvRefusal, PutsP!SendFileData, Puts!SendFileData, PutsP!SendFileEnd, Puts!SendFileEnd,
     PutsP!LocalReadFails, Puts!LocalReadFails, PutsP!RecvReply, Puts!RecvReply, PutsP!ClientIoFails,
     Puts!ClientIoFails, PutsP!Return, Puts!Return, PutsP!ToServer, Puts!ToServer, PutsP!ClientGets,
     Puts!ClientGets, PutsP!PopClient, Puts!PopClient, PutsP!Block, Puts!Block,
     PutsP!User, Puts!User, PutsP!Connect, Puts!Connect, PutsP!StartPuts, Puts!StartPuts,
     PutsP!Leave, Puts!Leave, PutsP!LinkBreaks, Puts!LinkBreaks, PutsP!Uploading, Puts!Uploading,
     PutsP!clientVars, Puts!clientVars, PutsP!serverVars, Puts!serverVars, PutsP!bounds, Puts!bounds,
     PutsP!counters, Puts!counters

LEMMA SameWorker ==
    \A c \in Sessions : PutsP!Worker(c) <=> Puts!Worker(c)
  BY DEF PutsP!Worker, Puts!Worker, PutsP!RecvPutsReq, Puts!RecvPutsReq, PutsP!RefusePuts, Puts!RefusePuts,
     PutsP!RecvUnknown, Puts!RecvUnknown, PutsP!SessionEnds, Puts!SessionEnds, PutsP!StatResumePoint,
     Puts!StatResumePoint, PutsP!StatFails, Puts!StatFails, PutsP!ResetLarger, Puts!ResetLarger,
     PutsP!ResetFails, Puts!ResetFails, PutsP!SendPutsResp, Puts!SendPutsResp, PutsP!SendFails, Puts!SendFails,
     PutsP!Extend, Puts!Extend, PutsP!ExtendFails, Puts!ExtendFails, PutsP!MmapFails, Puts!MmapFails,
     PutsP!RecvFileData, Puts!RecvFileData, PutsP!RecvFileEnd, Puts!RecvFileEnd, PutsP!RecvOutOfPlace,
     Puts!RecvOutOfPlace, PutsP!RecvFails, Puts!RecvFails, PutsP!TruncateToReceived, Puts!TruncateToReceived,
     PutsP!TruncateFails, Puts!TruncateFails, PutsP!SendAck, Puts!SendAck, PutsP!SendError, Puts!SendError,
     PutsP!CloseClientFd, Puts!CloseClientFd, PutsP!Sigbus, Puts!Sigbus, PutsP!ServerDies, Puts!ServerDies,
     PutsP!EndRequest, Puts!EndRequest, PutsP!ServerGets, Puts!ServerGets, PutsP!PopServer, Puts!PopServer,
     PutsP!ToClient, Puts!ToClient, PutsP!Resize, Puts!Resize, PutsP!clientVars, Puts!clientVars, PutsP!bounds,
     Puts!bounds, PutsP!counters, Puts!counters, PutsP!netVars, Puts!netVars

LEMMA InitPeers == Init => Peers
  <1> SUFFICES ASSUME Init PROVE Peers  OBVIOUS
  <1>1. /\ \A fd \in Fds : ~Unread(fd) /\ sock[fd] = "free"
        /\ \A w \in Pool!Workers : clientFd[w] \notin Fds
        /\ mainPc = "epoll"
    BY ServerAssumption DEF Init, Pool!Init, Unread, Pool!InQueue, Pool!PoolAssumption
  <1>2. \A fd \in Fds : peer[fd] = NoClient  BY DEF Init
  <1>3. waiting \in Seq(Sessions) /\ Len(waiting) = 0  BY DEF Init
  <1>4. \A c \in Sessions : ~InBacklog(c)  BY <1>3 DEF InBacklog
  <1>5. \A c \in Sessions : spc[c] = "gone"  BY DEF Init, Puts!Init
  <1> QED  BY <1>1, <1>2, <1>3, <1>4, <1>5, ServerAssumption DEF Init, Peers

\* Types and facts of the pool, in the words of Server.
LEMMA PoolFacts ==
    ASSUME PoolP!IInv
    PROVE  /\ sock \in [Fds -> {"free", "up", "eof"}] /\ queue \in Seq(Fds)
           /\ pc \in [Pool!Workers -> Pool!WorkerPcs] /\ clientFd \in [Pool!Workers -> Fds \cup {NoFd}]
           /\ connFd \in Fds \cup {NoFd} /\ NoFd \notin Fds
           /\ connFd # NoFd <=> mainPc = "enqueue"
           /\ \A w \in Pool!Workers : clientFd[w] # NoFd <=> pc[w] \in {"serving", "handled", "closing"}
           /\ \A i, j \in 1..Len(queue) : queue[i] = queue[j] => i = j
           /\ \A v, w \in Pool!Workers : clientFd[v] = clientFd[w] /\ clientFd[v] # NoFd => v = w
           /\ \A fd \in Fds : /\ sock[fd] # "free" <=> connFd = fd \/ Pool!InQueue(fd) \/ Pool!Held(fd)
                              /\ ~(Pool!InQueue(fd) /\ Pool!Held(fd))
                              /\ connFd = fd => ~Pool!InQueue(fd) /\ ~Pool!Held(fd)
  BY Assumptions
  DEF PoolP!IInv, PoolP!Typing, PoolP!TypeOK, PoolP!LocalFds, PoolP!FdOwnedOnce, PoolP!Workers, Pool!Workers,
      PoolP!WorkerPcs, Pool!WorkerPcs, PoolP!InQueue, Pool!InQueue, PoolP!Held, Pool!Held, PoolP!PoolAssumption

\* A step that opens, closes and hands on nothing, and ends no session.
LEMMA PeersStay ==
    ASSUME Peers, UNCHANGED <<peer, waiting, spc, link>>,
           \A fd \in Fds : /\ sock'[fd] = "free" <=> sock[fd] = "free"
                           /\ sock[fd] = "up" => sock'[fd] = "up"
                           /\ Unread(fd)' => Unread(fd),
           \A w \in Pool!Workers : clientFd'[w] \in Fds =>
               (pc'[w] = "serving" <=> spc[peer[clientFd'[w]]] # "closing"),
           mainPc' \in {"epoll", "enqueue"} \/ mainPc \notin {"epoll", "enqueue"}
    PROVE  Peers'
  <1>1. \A c \in Sessions : InBacklog(c)' <=> InBacklog(c)  BY DEF InBacklog
  <1> QED  BY <1>1 DEF Peers

\* A worker that only goes from one place without a connection to another.
LEMMA NoneServed ==
    ASSUME Peers, UNCHANGED <<peer, waiting, spc, link, sock, queue, connFd, clientFd>>,
           \A v \in Pool!Workers : pc'[v] = "serving" <=> pc[v] = "serving",
           mainPc' \in {"epoll", "enqueue"} \/ mainPc \notin {"epoll", "enqueue"}
    PROVE  Peers'
  <1>1. \A fd \in Fds : Unread(fd)' <=> Unread(fd)  BY DEF Unread, Pool!InQueue
  <1>2. \A w \in Pool!Workers : clientFd[w] \in Fds =>
            (pc'[w] = "serving" <=> spc[peer[clientFd[w]]] # "closing")
    BY DEF Peers
  <1> QED  BY <1>1, <1>2, PeersStay

\* The first of the backlog, and who is left.
LEMMA BacklogTail ==
    ASSUME Peers, waiting # <<>>
    PROVE  /\ Head(waiting) \in Sessions /\ InBacklog(Head(waiting))
           /\ Tail(waiting) \in Seq(Sessions) /\ Len(Tail(waiting)) = Len(waiting) - 1
           /\ \A i, j \in 1..Len(Tail(waiting)) : Tail(waiting)[i] = Tail(waiting)[j] => i = j
           /\ \A c \in Sessions : (\E i \in 1..Len(Tail(waiting)) : Tail(waiting)[i] = c)
                                 <=> InBacklog(c) /\ c # Head(waiting)
  <1>1. /\ waiting \in Seq(Sessions) /\ Len(waiting) \in Nat /\ Len(waiting) >= 1
        /\ Head(waiting) = waiting[1] /\ Head(waiting) \in Sessions
        /\ Tail(waiting) \in Seq(Sessions) /\ Len(Tail(waiting)) = Len(waiting) - 1
        /\ \A i \in 1..Len(waiting) - 1 : Tail(waiting)[i] = waiting[i + 1]
    BY DEF Peers
  <1>2. \A i, j \in 1..Len(waiting) : waiting[i] = waiting[j] => i = j  BY DEF Peers
  <1>3. 1 \in 1..Len(waiting)  BY <1>1
  <1>4. \A i, j \in 1..Len(Tail(waiting)) : Tail(waiting)[i] = Tail(waiting)[j] => i = j
    <2>1. ASSUME NEW i \in 1..Len(Tail(waiting)), NEW j \in 1..Len(Tail(waiting)),
                 Tail(waiting)[i] = Tail(waiting)[j]
          PROVE  i = j
      <3>1. /\ i + 1 \in 1..Len(waiting) /\ j + 1 \in 1..Len(waiting)
            /\ waiting[i + 1] = waiting[j + 1]
        BY <1>1, <2>1
      <3>2. i + 1 = j + 1  BY <1>2, <3>1
      <3> QED  BY <1>1, <3>2
    <2> QED  BY <2>1
  <1>5. ASSUME NEW c \in Sessions, InBacklog(c), c # Head(waiting)
        PROVE  \E i \in 1..Len(Tail(waiting)) : Tail(waiting)[i] = c
    <2>1. PICK i \in 1..Len(waiting) : waiting[i] = c  BY <1>5 DEF InBacklog
    <2>2. i - 1 \in 1..Len(Tail(waiting)) /\ Tail(waiting)[i - 1] = waiting[i]  BY <1>1, <1>5, <2>1
    <2> QED  BY <2>1, <2>2
  <1>6. ASSUME NEW i \in 1..Len(Tail(waiting))
        PROVE  InBacklog(Tail(waiting)[i]) /\ Tail(waiting)[i] # Head(waiting)
    <2>1. i + 1 \in 1..Len(waiting) /\ Tail(waiting)[i] = waiting[i + 1] /\ i + 1 # 1  BY <1>1, <1>6
    <2> QED  BY <1>1, <1>2, <1>3, <2>1 DEF InBacklog
  <1>7. InBacklog(Head(waiting))  BY <1>1, <1>3 DEF InBacklog
  <1>8. ASSUME NEW c \in Sessions
        PROVE  (\E i \in 1..Len(Tail(waiting)) : Tail(waiting)[i] = c)
               <=> InBacklog(c) /\ c # Head(waiting)
    <2>1. ASSUME NEW i \in 1..Len(Tail(waiting)), Tail(waiting)[i] = c
          PROVE  InBacklog(c) /\ c # Head(waiting)
      BY <1>6, <2>1
    <2> QED  BY <1>5, <2>1
  <1> QED  BY <1>1, <1>4, <1>7, <1>8

--------------------------------------------------------------------------------
(* peer and waiting, step by step. *)

LEMMA ConnectPeers ==
    ASSUME IInv, NEW c \in Sessions, ClientConnects(c)
    PROVE  Peers'
  <1>1. /\ UNCHANGED <<peer, sock, queue, connFd, pc, clientFd, mainPc>> /\ mainPc \in {"epoll", "enqueue"}
        /\ waiting' = Append(waiting, c)
    BY DEF ClientConnects, Pool!ClientConnects, Pool!poolVars, Pool!workerVars, Pool!mainVars
  <1>2. spc[c] = "gone" /\ spc' = [spc EXCEPT ![c] = "idle"] /\ link' = [link EXCEPT ![c] = "up"]
    BY DEF ClientConnects, Puts!Connect
  <1>3. /\ spc \in [Sessions -> PutsP!ServerPcs] /\ link \in [Sessions -> {"up", "broken"}]
        /\ waiting \in Seq(Sessions) /\ Len(waiting) \in Nat
    <2>1. spc \in [Sessions -> PutsP!ServerPcs] /\ link \in [Sessions -> {"up", "broken"}]
      BY DEF IInv, PutsP!SafeInv, PutsP!Typing, PutsP!TypeOK
    <2>2. waiting \in Seq(Sessions)  BY DEF IInv, Peers
    <2> QED  BY <2>1, <2>2
  <1>4. ~InBacklog(c) /\ \A fd \in Fds : peer[fd] # c  BY <1>2 DEF IInv, Peers
  <1>5. /\ waiting' \in Seq(Sessions) /\ Len(waiting') = Len(waiting) + 1
        /\ waiting'[Len(waiting) + 1] = c /\ \A i \in 1..Len(waiting) : waiting'[i] = waiting[i]
    BY <1>1, <1>3
  <1>6. \A d \in Sessions : InBacklog(d)' <=> InBacklog(d) \/ d = c
    <2>1. ASSUME NEW d \in Sessions, InBacklog(d) \/ d = c PROVE InBacklog(d)'
      <3>1. CASE InBacklog(d)
        <4>1. PICK i \in 1..Len(waiting) : waiting[i] = d  BY <3>1 DEF InBacklog
        <4>2. i \in 1..Len(waiting')  BY <1>3, <1>5
        <4> QED  BY <1>5, <4>1, <4>2 DEF InBacklog
      <3>2. CASE d = c
        <4>1. Len(waiting) + 1 \in 1..Len(waiting')  BY <1>3, <1>5
        <4> QED  BY <1>5, <3>2, <4>1 DEF InBacklog
      <3> QED  BY <2>1, <3>1, <3>2
    <2>2. ASSUME NEW d \in Sessions, NEW i \in 1..Len(waiting'), waiting'[i] = d, d # c PROVE InBacklog(d)
      <3>1. i \in 1..Len(waiting)  BY <1>3, <1>5, <2>2
      <3> QED  BY <1>5, <2>2, <3>1 DEF InBacklog
    <2> QED  BY <2>1, <2>2 DEF InBacklog
  <1>7. \A i, j \in 1..Len(waiting') : waiting'[i] = waiting'[j] => i = j
    <2>1. ASSUME NEW i \in 1..Len(waiting'), NEW j \in 1..Len(waiting'), waiting'[i] = waiting'[j] PROVE i = j
      <3>1. /\ i \in 1..Len(waiting) \/ i = Len(waiting) + 1
            /\ j \in 1..Len(waiting) \/ j = Len(waiting) + 1
        BY <1>3, <1>5
      <3>2. \A k \in 1..Len(waiting) : waiting[k] # c  BY <1>4 DEF InBacklog
      <3> QED  BY <1>5, <2>1, <3>1, <3>2 DEF IInv, Peers
    <2> QED  BY <2>1
  <1>8. /\ \A d \in Sessions \ {c} : spc'[d] = spc[d] /\ link'[d] = link[d]
        /\ spc'[c] = "idle"
    BY <1>2, <1>3
  <1>9. \A fd \in Fds : (Unread(fd)' <=> Unread(fd)) /\ (Unread(fd) => peer[fd] # NoClient)
    BY <1>1, PoolFacts DEF Unread, Pool!InQueue, IInv, Peers
  <1>10. \A fd \in Fds : peer[fd] # NoClient => peer[fd] \in Sessions \ {c}
    BY <1>4 DEF IInv, Peers
  <1>11. \A w \in Pool!Workers : clientFd[w] \in Fds => peer[clientFd[w]] # NoClient
    BY PoolFacts DEF IInv, Peers, Pool!Held
  <1>12. \A d \in Sessions : InBacklog(d)' => spc'[d] = "idle" /\ \A fd \in Fds : peer'[fd] # d
    BY <1>1, <1>4, <1>6, <1>8 DEF IInv, Peers
  <1>13. \A d \in Sessions : spc'[d] # "gone" <=> InBacklog(d)' \/ \E fd \in Fds : peer'[fd] = d
    BY <1>1, <1>6, <1>8 DEF IInv, Peers
  <1>14. \A w \in Pool!Workers : clientFd'[w] \in Fds =>
            (pc'[w] = "serving" <=> spc'[peer'[clientFd'[w]]] # "closing")
    BY <1>1, <1>8, <1>10, <1>11 DEF IInv, Peers
  <1>15. \A fd \in Fds : Unread(fd)' => spc'[peer'[fd]] = "idle"
    BY <1>1, <1>8, <1>9, <1>10 DEF IInv, Peers
  <1>16. \A fd \in Fds : peer'[fd] # NoClient /\ link'[peer'[fd]] = "up" => sock'[fd] = "up"
    BY <1>1, <1>8, <1>10 DEF IInv, Peers
  <1> QED  BY <1>1, <1>5, <1>7, <1>12, <1>13, <1>14, <1>15, <1>16 DEF IInv, Peers

LEMMA AcceptPeers ==
    ASSUME IInv, NEW fd \in Fds, Accept(fd)
    PROVE  Peers'
  <1> DEFINE c == Head(waiting)
  <1>1. /\ sock[fd] = "free" /\ sock' = [sock EXCEPT ![fd] = "up"]
        /\ connFd' = fd /\ connFd = NoFd /\ mainPc' = "enqueue" /\ UNCHANGED <<queue, pc, clientFd>>
    BY PoolFacts DEF IInv, Accept, Pool!Accept, Pool!HandlingEvent, Pool!poolVars, Pool!workerVars
  <1>2. /\ waiting # <<>> /\ waiting' = Tail(waiting) /\ peer' = [peer EXCEPT ![fd] = c]
        /\ UNCHANGED <<spc, link>>
    BY DEF Accept, putsVars
  <1>3. /\ c \in Sessions /\ InBacklog(c) /\ waiting' \in Seq(Sessions)
        /\ \A i, j \in 1..Len(waiting') : waiting'[i] = waiting'[j] => i = j
        /\ \A d \in Sessions : InBacklog(d)' <=> InBacklog(d) /\ d # c
    BY <1>2, BacklogTail DEF IInv, InBacklog
  <1>4. spc[c] = "idle" /\ peer[fd] = NoClient /\ \A f \in Fds : peer[f] # c
    BY <1>1, <1>3 DEF IInv, Peers
  <1>5. sock \in [Fds -> {"free", "up", "eof"}] /\ peer \in [Fds -> Sessions \cup {NoClient}]
    BY PoolFacts DEF IInv, Peers
  <1> HIDE DEF c
  <1>6. /\ \A f \in Fds : peer'[f] = (IF f = fd THEN c ELSE peer[f])
        /\ \A f \in Fds : sock'[f] = (IF f = fd THEN "up" ELSE sock[f])
    BY <1>1, <1>2, <1>5
  <1>7. \A f \in Fds : Unread(f)' <=> Unread(f) \/ f = fd
    BY <1>1, PoolFacts DEF IInv, Unread, Pool!InQueue
  <1>8. \A w \in Pool!Workers : clientFd[w] # fd
    BY <1>1, PoolFacts DEF IInv, Pool!Held
  <1>9. peer' \in [Fds -> Sessions \cup {NoClient}]  BY <1>2, <1>3, <1>5
  <1>10. \A d \in Sessions : InBacklog(d)' => spc'[d] = "idle" /\ \A f \in Fds : peer'[f] # d
    BY <1>2, <1>3, <1>6 DEF IInv, Peers
  <1>11. \A d \in Sessions : spc'[d] # "gone" <=> InBacklog(d)' \/ \E f \in Fds : peer'[f] = d
    BY <1>2, <1>3, <1>4, <1>6, ServerAssumption DEF IInv, Peers
  <1>12. \A f \in Fds : Unread(f)' => spc'[peer'[f]] = "idle"
    BY <1>2, <1>4, <1>6, <1>7 DEF IInv, Peers
  <1>13. \A w \in Pool!Workers : clientFd'[w] \in Fds =>
            (pc'[w] = "serving" <=> spc'[peer'[clientFd'[w]]] # "closing")
    BY <1>1, <1>2, <1>6, <1>8 DEF IInv, Peers
  <1>14. /\ \A f, g \in Fds : peer'[f] = peer'[g] /\ peer'[f] # NoClient => f = g
         /\ \A f \in Fds : peer'[f] # NoClient <=> sock'[f] # "free"
         /\ \A f \in Fds : peer'[f] # NoClient /\ link'[peer'[f]] = "up" => sock'[f] = "up"
    <2>1. c # NoClient  BY <1>3, ServerAssumption
    <2>2. \A f, g \in Fds : peer'[f] = peer'[g] /\ peer'[f] # NoClient => f = g
      BY <1>4, <1>6 DEF IInv, Peers
    <2>3. \A f \in Fds : peer'[f] # NoClient <=> sock'[f] # "free"
      BY <1>6, <2>1 DEF IInv, Peers
    <2>4. \A f \in Fds : peer'[f] # NoClient /\ link'[peer'[f]] = "up" => sock'[f] = "up"
      BY <1>2, <1>6 DEF IInv, Peers
    <2> QED  BY <2>2, <2>3, <2>4
  <1> QED  BY <1>1, <1>3, <1>9, <1>10, <1>11, <1>12, <1>13, <1>14 DEF Peers

LEMMA LoopPeers ==
    ASSUME IInv, LoopStep
    PROVE  Peers'
  <1>1. Peers /\ UNCHANGED <<peer, waiting, spc, link>>
    BY DEF IInv, LoopStep, putsVars
  <1>2. CASE Pool!Enqueue
    <2>1. /\ connFd \in Fds /\ connFd' = NoFd /\ NoFd \notin Fds /\ queue \in Seq(Fds)
          /\ queue' = Append(queue, connFd) /\ UNCHANGED <<sock, clientFd>> /\ mainPc' = "epoll"
          /\ \A w \in Pool!Workers : pc'[w] = "serving" <=> pc[w] = "serving"
      BY <1>2, PoolFacts
      DEF IInv, Pool!Enqueue, Pool!EnQueue, Pool!CondSignal, Pool!Waiting, Pool!kernelVars
    <2>2. \A fd \in Fds : Pool!InQueue(fd)' <=> Pool!InQueue(fd) \/ fd = connFd
      BY <2>1 DEF Pool!InQueue
    <2>3. \A fd \in Fds : Unread(fd)' => Unread(fd)
      BY <2>1, <2>2 DEF Unread
    <2>4. \A w \in Pool!Workers : clientFd'[w] \in Fds =>
            (pc'[w] = "serving" <=> spc[peer[clientFd'[w]]] # "closing")
      BY <1>1, <2>1 DEF Peers
    <2> QED  BY <1>1, <2>1, <2>3, <2>4, PeersStay
  <1>3. CASE Pool!EpollWait \/ Pool!AcceptFails \/ Pool!JoinWorkers
    <2>1. /\ UNCHANGED <<sock, queue, connFd, pc, clientFd>>
          /\ mainPc' \in {"epoll", "enqueue"} \/ mainPc \notin {"epoll", "enqueue"}
      BY <1>3 DEF Pool!EpollWait, Pool!AcceptFails, Pool!JoinWorkers, Pool!HandlingEvent,
                  Pool!kernelVars, Pool!poolVars, Pool!workerVars
    <2> QED  BY <1>1, <2>1, NoneServed
  <1>4. CASE Pool!SetExitFlag
    <2>1. /\ UNCHANGED <<sock, queue, connFd, clientFd>> /\ mainPc \notin {"epoll", "enqueue"}
          /\ \A w \in Pool!Workers : pc'[w] = "serving" <=> pc[w] = "serving"
      BY <1>4 DEF Pool!SetExitFlag, Pool!CondBroadcast, Pool!kernelVars
    <2> QED  BY <1>1, <2>1, NoneServed
  <1> QED  BY <1>2, <1>3, <1>4 DEF LoopStep

LEMMA BeginShutdownPeers ==
    ASSUME IInv, BeginShutdown
    PROVE  Peers'
  <1>1. UNCHANGED <<peer, sock, queue, connFd, pc, clientFd>> /\ waiting' = <<>>
    BY DEF BeginShutdown, Pool!BeginShutdown, Pool!poolVars, Pool!workerVars
  <1>2. \A c \in Sessions : IF InBacklog(c) THEN spc'[c] = "gone" ELSE spc'[c] = spc[c] /\ link'[c] = link[c]
    BY DEF BeginShutdown, Refuse, InBacklog
  <1>3. Len(waiting') = 0 /\ waiting' \in Seq(Sessions) /\ \A c \in Sessions : ~InBacklog(c)'
    BY <1>1 DEF InBacklog
  <1>4. \A fd \in Fds : /\ Unread(fd)' <=> Unread(fd)
                        /\ Unread(fd) => peer[fd] # NoClient
                        /\ peer[fd] # NoClient => spc'[peer[fd]] = spc[peer[fd]] /\ link'[peer[fd]] = link[peer[fd]]
    BY <1>1, <1>2, PoolFacts DEF IInv, Peers, Unread, Pool!InQueue
  <1>5. \A w \in Pool!Workers : clientFd[w] \in Fds => peer[clientFd[w]] # NoClient
    BY PoolFacts DEF IInv, Peers, Pool!Held
  <1>6. \A c \in Sessions : spc'[c] # "gone" <=> \E fd \in Fds : peer[fd] = c
    BY <1>2 DEF IInv, Peers
  <1> QED  BY <1>1, <1>3, <1>4, <1>5, <1>6 DEF IInv, Peers

LEMMA ShutdownPeers ==
    ASSUME IInv, ShutdownActiveFds
    PROVE  Peers'
  <1>1. UNCHANGED <<peer, waiting, spc, queue, connFd, pc, clientFd>> /\ mainPc \notin {"epoll", "enqueue"}
    BY DEF ShutdownActiveFds, Pool!ShutdownActiveFds, Pool!poolVars, Pool!workerVars
  <1>2. /\ sock' = [fd \in Fds |-> IF Pool!Registered(fd) /\ sock[fd] = "up" THEN "eof" ELSE sock[fd]]
        /\ link' = [c \in Sessions |-> IF \E fd \in Fds : Pool!Registered(fd) /\ peer[fd] = c
                                       THEN "broken" ELSE link[c]]
    BY DEF ShutdownActiveFds, Pool!ShutdownActiveFds, PeersOf
  <1>3. /\ \A fd \in Fds : Unread(fd)' <=> Unread(fd)
        /\ \A c \in Sessions : InBacklog(c)' <=> InBacklog(c)
    BY <1>1 DEF Unread, Pool!InQueue, InBacklog
  <1>4. ASSUME NEW fd \in Fds, peer[fd] # NoClient, link'[peer[fd]] = "up" PROVE sock'[fd] = "up"
    <2>1. peer[fd] \in Sessions /\ ~Pool!Registered(fd) /\ link[peer[fd]] = "up"
      BY <1>2, <1>4 DEF IInv, Peers
    <2> QED  BY <1>2, <1>4, <2>1 DEF IInv, Peers
  <1>5. \A fd \in Fds : sock'[fd] = "free" <=> sock[fd] = "free"  BY <1>2
  <1> QED  BY <1>1, <1>3, <1>4, <1>5 DEF IInv, Peers

LEMMA DrainPeers ==
    ASSUME IInv, DrainPendingFds
    PROVE  Peers'
  <1>1. /\ queue' = <<>> /\ UNCHANGED <<connFd, pc, clientFd, waiting>> /\ mainPc \notin {"epoll", "enqueue"}
        /\ sock' = [fd \in Fds |-> IF Pool!InQueue(fd) THEN "free" ELSE sock[fd]]
        /\ peer' = [fd \in Fds |-> IF Pool!InQueue(fd) THEN NoClient ELSE peer[fd]]
    BY DEF DrainPendingFds, Pool!DrainPendingFds, Pool!workerVars
  <1>2. \A c \in Sessions : IF \E fd \in Fds : Pool!InQueue(fd) /\ peer[fd] = c
                            THEN spc'[c] = "gone" /\ link'[c] = "broken"
                            ELSE spc'[c] = spc[c] /\ link'[c] = link[c]
    BY DEF DrainPendingFds, Refuse, PeersOf
  <1>3. /\ \A fd \in Fds : Unread(fd)' <=> connFd = fd
        /\ \A c \in Sessions : InBacklog(c)' <=> InBacklog(c)
    BY <1>1 DEF Unread, Pool!InQueue, InBacklog
  <1>4. \A fd \in Fds : Pool!InQueue(fd) => peer[fd] \in Sessions
    BY PoolFacts DEF IInv, Peers
  <1>5. \A fd \in Fds : peer'[fd] # NoClient => /\ peer'[fd] = peer[fd] /\ ~Pool!InQueue(fd)
                                                /\ spc'[peer[fd]] = spc[peer[fd]]
                                                /\ link'[peer[fd]] = link[peer[fd]]
                                                /\ sock'[fd] = sock[fd]
    BY <1>1, <1>2 DEF IInv, Peers
  <1>6. \A fd \in Fds : Unread(fd)' => Unread(fd) /\ peer'[fd] # NoClient
    BY <1>1, <1>3, PoolFacts DEF IInv, Peers, Unread
  <1>7. \A c \in Sessions : spc'[c] # "gone" <=> InBacklog(c)' \/ \E fd \in Fds : peer'[fd] = c
    BY <1>1, <1>2, <1>3, <1>4, ServerAssumption DEF IInv, Peers
  <1>8. /\ peer' \in [Fds -> Sessions \cup {NoClient}]
        /\ \A fd \in Fds : peer'[fd] # NoClient <=> sock'[fd] # "free"
    BY <1>1 DEF IInv, Peers
  <1>9. \A c \in Sessions : InBacklog(c)' => spc'[c] = "idle" /\ \A fd \in Fds : peer'[fd] # c
    BY <1>1, <1>2, <1>3, ServerAssumption DEF IInv, Peers
  <1>10. \A w \in Pool!Workers : clientFd[w] \in Fds => peer'[clientFd[w]] # NoClient
    BY <1>1, PoolFacts DEF IInv, Peers, Pool!Held
  <1> QED  BY <1>1, <1>5, <1>6, <1>7, <1>8, <1>9, <1>10 DEF IInv, Peers

LEMMA PoolStepPeers ==
    ASSUME IInv, NEW w \in Pool!Workers, PoolStep(w) \/ SpuriousWakeup(w)
    PROVE  Peers'
  <1>1. Peers /\ UNCHANGED <<peer, waiting, spc, link>>
    BY DEF IInv, PoolStep, SpuriousWakeup, putsVars
  <1>2. CASE Pool!Wait(w) \/ Pool!Exit(w) \/ Pool!SpuriousWakeup(w) \/ Pool!UnregisterActiveFd(w)
    <2>1. UNCHANGED <<sock, queue, connFd, clientFd, mainPc>>
          /\ \A v \in Pool!Workers : pc'[v] = "serving" <=> pc[v] = "serving"
      BY <1>2, PoolFacts
      DEF IInv, Pool!Wait, Pool!Exit, Pool!SpuriousWakeup, Pool!UnregisterActiveFd,
          Pool!kernelVars, Pool!poolVars, Pool!mainVars
    <2> QED  BY <1>1, <2>1, NoneServed
  \* A descriptor goes from the queue to the worker; nothing of it has been read.
  <1>3. CASE Pool!TakeClient(w)
    <2> DEFINE taken == Head(queue)
    <2>1. /\ queue # <<>> /\ pc[w] = "loop" /\ queue' = Tail(queue) /\ UNCHANGED <<sock, connFd, mainPc>>
          /\ clientFd' = [clientFd EXCEPT ![w] = taken] /\ pc' = [pc EXCEPT ![w] = "serving"]
      BY <1>3 DEF Pool!TakeClient, Pool!MustWait, Pool!DeQueued, Pool!AfterDeQueue, Pool!kernelVars, Pool!mainVars
    <2>2. /\ taken = queue[1] /\ taken \in Fds /\ Len(Tail(queue)) = Len(queue) - 1
          /\ \A i \in 1..Len(Tail(queue)) : Tail(queue)[i] = queue[i + 1]
          /\ Len(queue) \in Nat /\ Len(queue) # 0
      BY <2>1, PoolFacts DEF IInv
    <2>3. \A fd \in Fds : Pool!InQueue(fd)' => Pool!InQueue(fd)
      <3>1. ASSUME NEW fd \in Fds, NEW i \in 1..Len(queue'), queue'[i] = fd
            PROVE  Pool!InQueue(fd)
        <4>1. i + 1 \in 1..Len(queue) /\ queue'[i] = queue[i + 1]
          BY <2>1, <2>2
        <4> QED  BY <3>1, <4>1 DEF Pool!InQueue
      <3> QED  BY <3>1 DEF Pool!InQueue
    <2>4. Unread(taken)
      <3>1. 1 \in 1..Len(queue)  BY <2>2
      <3> QED  BY <2>2, <3>1 DEF Unread, Pool!InQueue
    <2>5. \A fd \in Fds : Unread(fd)' => Unread(fd)  BY <2>1, <2>3 DEF Unread
    <2> HIDE DEF taken
    <2>6. \A v \in Pool!Workers : clientFd'[v] \in Fds =>
            (pc'[v] = "serving" <=> spc[peer[clientFd'[v]]] # "closing")
      <3>1. spc[peer[taken]] = "idle"  BY <1>1, <2>2, <2>4 DEF Peers
      <3>2. /\ \A v \in Pool!Workers \ {w} : clientFd'[v] = clientFd[v] /\ pc'[v] = pc[v]
            /\ clientFd'[w] = taken /\ pc'[w] = "serving"
        BY <2>1, PoolFacts DEF IInv
      <3> QED  BY <1>1, <3>1, <3>2 DEF Peers
    <2> QED  BY <1>1, <2>1, <2>5, <2>6, PeersStay
  <1> QED
    BY <1>2, <1>3 DEF PoolStep, SpuriousWakeup

\* A step of a handler touches one session, and leaves its connection to thread_func.
\* (SIGBUS would end them all.)
LEMMA WorkerTouches ==
    ASSUME PutsP!SafeInv, NEW c \in Sessions, Puts!Worker(c), spc[c] # "closing"
    PROVE  /\ spc[c] # "gone" /\ spc'[c] # "gone" /\ link' = link
           /\ \A d \in Sessions \ {c} : spc'[d] = spc[d]
  <1>1. /\ spc \in [Sessions -> PutsP!ServerPcs]
        /\ file \in Seq(PutsP!Blocks) /\ total \in [Sessions -> Nat] /\ woff \in [Sessions -> Nat]
    BY DEF PutsP!SafeInv, PutsP!Typing, PutsP!TypeOK
  <1>2. ~Puts!Sigbus(c)
    <2>1. spc[c] = "recv" => Len(file) = total[c]  BY DEF PutsP!SafeInv, PutsP!Measured
    <2> QED  BY <1>1, <2>1 DEF Puts!Sigbus
  <1>3. ~Puts!CloseClientFd(c)  BY DEF Puts!CloseClientFd
  <1>4. link' = link /\ \E q \in PutsP!ServerPcs \ {"gone"} : spc' = [spc EXCEPT ![c] = q]
    <2>1. CASE Puts!RecvFileData(c)
      <3>1. spc' = [spc EXCEPT ![c] = "recv"]  BY <1>1, <2>1 DEF Puts!RecvFileData
      <3> QED  BY <2>1, <3>1 DEF Puts!RecvFileData, PutsP!ServerPcs
    <2>2. CASE ~Puts!RecvFileData(c)
      BY <1>2, <1>3, <2>2
      DEF Puts!Worker, Puts!RecvPutsReq, Puts!RefusePuts, Puts!RecvUnknown, Puts!SessionEnds,
          Puts!StatResumePoint, Puts!StatFails, Puts!ResetLarger, Puts!ResetFails, Puts!SendPutsResp,
          Puts!SendFails, Puts!Extend, Puts!ExtendFails, Puts!MmapFails,
          Puts!RecvFileEnd, Puts!RecvOutOfPlace, Puts!RecvFails, Puts!TruncateToReceived, Puts!TruncateFails,
          Puts!SendAck, Puts!SendError, Puts!EndRequest, Puts!netVars, PutsP!ServerPcs
    <2> QED  BY <2>1, <2>2
  <1>5. spc[c] # "gone"
    BY <1>2, <1>3
    DEF Puts!Worker, Puts!RecvPutsReq, Puts!RefusePuts, Puts!RecvUnknown, Puts!SessionEnds,
        Puts!StatResumePoint, Puts!StatFails, Puts!ResetLarger, Puts!ResetFails, Puts!SendPutsResp,
        Puts!SendFails, Puts!Extend, Puts!ExtendFails, Puts!MmapFails, Puts!RecvFileData,
        Puts!RecvFileEnd, Puts!RecvOutOfPlace, Puts!RecvFails, Puts!TruncateToReceived, Puts!TruncateFails,
        Puts!SendAck, Puts!SendError
  <1> QED  BY <1>1, <1>4, <1>5

\* The client of a worker that has a connection.
LEMMA ServedPeer ==
    ASSUME IInv, NEW w \in Pool!Workers, pc[w] \in {"serving", "closing"}
    PROVE  /\ clientFd[w] \in Fds /\ peer[clientFd[w]] \in Sessions /\ ~Unread(clientFd[w])
           /\ \A fd \in Fds : peer[fd] = peer[clientFd[w]] => fd = clientFd[w]
           /\ \A v \in Pool!Workers : clientFd[v] = clientFd[w] => v = w
           /\ ~InBacklog(peer[clientFd[w]])
           /\ pc[w] = "serving" <=> spc[peer[clientFd[w]]] # "closing"
  <1>1. clientFd[w] \in Fds /\ sock[clientFd[w]] # "free" /\ ~Unread(clientFd[w])
    BY PoolFacts DEF IInv, Unread, Pool!Held
  <1> QED  BY <1>1, PoolFacts DEF IInv, Peers

LEMMA HandlerPeers ==
    ASSUME IInv, NEW w \in Pool!Workers, Handler(w)
    PROVE  Peers'
  <1> DEFINE fd0 == clientFd[w]
             c == peer[fd0]
  <1>1. pc[w] = "serving" /\ Puts!Worker(c)
    BY DEF Handler, HandlerStep, HandlerReturns, Pool!HandleRequestReturns
  <1>2. /\ fd0 \in Fds /\ c \in Sessions /\ ~Unread(fd0) /\ \A fd \in Fds : peer[fd] = c => fd = fd0
        /\ \A v \in Pool!Workers : clientFd[v] = fd0 => v = w
        /\ ~InBacklog(c) /\ spc[c] # "closing"
    BY <1>1, ServedPeer
  <1>3. /\ spc[c] # "gone" /\ spc'[c] # "gone" /\ link' = link
        /\ \A d \in Sessions \ {c} : spc'[d] = spc[d]
    BY <1>1, <1>2, WorkerTouches DEF IInv
  <1>4. /\ UNCHANGED <<sock, queue, connFd, clientFd, peer, waiting, mainPc>>
        /\ \A v \in Pool!Workers \ {w} : pc'[v] = pc[v]
        /\ pc'[w] = "serving" <=> spc'[c] # "closing"
    <2>1. CASE HandlerStep(w)  BY <1>1, <2>1 DEF HandlerStep, poolVars
    <2>2. CASE HandlerReturns(w)
      BY <2>2, PoolFacts DEF IInv, HandlerReturns, Pool!HandleRequestReturns, Pool!kernelVars, Pool!poolVars, Pool!mainVars
    <2> QED  BY <2>1, <2>2 DEF Handler
  <1> HIDE DEF c
  <1>5. /\ \A fd \in Fds : Unread(fd)' <=> Unread(fd)
        /\ \A d \in Sessions : InBacklog(d)' <=> InBacklog(d)
    BY <1>4 DEF Unread, Pool!InQueue, InBacklog
  <1>6. \A fd \in Fds : Unread(fd)' => spc'[peer'[fd]] = "idle"
    <2>1. ASSUME NEW fd \in Fds, Unread(fd) PROVE spc'[peer[fd]] = "idle"
      <3>1. peer[fd] \in Sessions  BY <2>1, PoolFacts DEF IInv, Peers, Unread
      <3>2. peer[fd] # c  BY <1>2, <2>1
      <3> QED  BY <1>3, <2>1, <3>1, <3>2 DEF IInv, Peers
    <2> QED  BY <1>4, <1>5, <2>1
  <1>7. \A v \in Pool!Workers : clientFd'[v] \in Fds =>
            (pc'[v] = "serving" <=> spc'[peer'[clientFd'[v]]] # "closing")
    <2>1. ASSUME NEW v \in Pool!Workers \ {w}, clientFd[v] \in Fds
          PROVE  pc[v] = "serving" <=> spc'[peer[clientFd[v]]] # "closing"
      <3>1. peer[clientFd[v]] \in Sessions  BY <2>1, PoolFacts DEF IInv, Peers, Pool!Held
      <3>2. peer[clientFd[v]] # c  BY <1>2, <2>1
      <3> QED  BY <1>3, <2>1, <3>1, <3>2 DEF IInv, Peers
    <2> QED  BY <1>4, <2>1 DEF c
  <1>8. \A d \in Sessions : /\ spc'[d] # "gone" <=> spc[d] # "gone"
                            /\ InBacklog(d) => spc'[d] = spc[d]
    BY <1>2, <1>3
  <1> QED  BY <1>3, <1>4, <1>5, <1>6, <1>7, <1>8 DEF IInv, Peers

\* The connection is closed and its session is over.
LEMMA ClosePeers ==
    ASSUME IInv, NEW w \in Pool!Workers, CloseClientFd(w)
    PROVE  Peers'
  <1> DEFINE fd0 == clientFd[w]
             c == peer[fd0]
  <1>1. /\ pc[w] = "closing" /\ UNCHANGED <<queue, connFd, mainPc, waiting>>
        /\ sock' = [sock EXCEPT ![fd0] = "free"] /\ clientFd' = [clientFd EXCEPT ![w] = NoFd]
        /\ pc' = [pc EXCEPT ![w] = "loop"] /\ peer' = [peer EXCEPT ![fd0] = NoClient]
        /\ spc' = [spc EXCEPT ![c] = "gone"] /\ link' = [link EXCEPT ![c] = "broken"]
    BY DEF CloseClientFd, Pool!CloseClientFd, Pool!poolVars, Pool!mainVars, Puts!CloseClientFd
  <1>2. /\ fd0 \in Fds /\ c \in Sessions /\ ~Unread(fd0) /\ \A fd \in Fds : peer[fd] = c => fd = fd0
        /\ \A v \in Pool!Workers : clientFd[v] = fd0 => v = w
        /\ ~InBacklog(c)
    BY <1>1, ServedPeer
  <1>3. /\ spc \in [Sessions -> PutsP!ServerPcs] /\ link \in [Sessions -> {"up", "broken"}]
        /\ sock \in [Fds -> {"free", "up", "eof"}] /\ peer \in [Fds -> Sessions \cup {NoClient}]
        /\ pc \in [Pool!Workers -> Pool!WorkerPcs] /\ clientFd \in [Pool!Workers -> Fds \cup {NoFd}]
        /\ NoFd \notin Fds
    BY PoolFacts DEF IInv, Peers, PutsP!SafeInv, PutsP!Typing, PutsP!TypeOK
  <1>4. c = peer[fd0]  OBVIOUS
  <1> HIDE DEF c, fd0
  <1>5. /\ \A d \in Sessions : /\ spc'[d] = (IF d = c THEN "gone" ELSE spc[d])
                                /\ link'[d] = (IF d = c THEN "broken" ELSE link[d])
        /\ \A fd \in Fds : /\ sock'[fd] = (IF fd = fd0 THEN "free" ELSE sock[fd])
                            /\ peer'[fd] = (IF fd = fd0 THEN NoClient ELSE peer[fd])
        /\ \A v \in Pool!Workers \ {w} : clientFd'[v] = clientFd[v] /\ pc'[v] = pc[v]
        /\ clientFd'[w] = NoFd
    BY <1>1, <1>3
  <1>6. /\ \A fd \in Fds : Unread(fd)' <=> Unread(fd)
        /\ \A d \in Sessions : InBacklog(d)' <=> InBacklog(d)
    BY <1>1 DEF Unread, Pool!InQueue, InBacklog
  <1>7. \A fd \in Fds : Unread(fd)' => spc'[peer'[fd]] = "idle"
    <2>1. ASSUME NEW fd \in Fds, Unread(fd) PROVE spc'[peer'[fd]] = "idle"
      <3>1. peer[fd] \in Sessions  BY <2>1, PoolFacts DEF IInv, Peers, Unread
      <3>2. fd # fd0 /\ peer[fd] # c  BY <1>2, <2>1
      <3> QED  BY <1>5, <2>1, <3>1, <3>2 DEF IInv, Peers
    <2> QED  BY <1>6, <2>1
  <1>8. \A v \in Pool!Workers : clientFd'[v] \in Fds =>
            (pc'[v] = "serving" <=> spc'[peer'[clientFd'[v]]] # "closing")
    <2>1. ASSUME NEW v \in Pool!Workers \ {w}, clientFd[v] \in Fds
          PROVE  pc[v] = "serving" <=> spc'[peer'[clientFd[v]]] # "closing"
      <3>1. peer[clientFd[v]] \in Sessions  BY <2>1, PoolFacts DEF IInv, Peers, Pool!Held
      <3>2. clientFd[v] # fd0 /\ peer[clientFd[v]] # c  BY <1>2, <2>1
      <3> QED  BY <1>5, <2>1, <3>1, <3>2 DEF IInv, Peers
    <2> QED  BY <1>3, <1>5, <2>1
  <1>9. \A d \in Sessions : spc'[d] # "gone" <=> InBacklog(d)' \/ \E fd \in Fds : peer'[fd] = d
    BY <1>2, <1>4, <1>5, <1>6, ServerAssumption DEF IInv, Peers
  <1>10. \A d \in Sessions : InBacklog(d)' => spc'[d] = "idle" /\ \A fd \in Fds : peer'[fd] # d
    BY <1>2, <1>5, <1>6, ServerAssumption DEF IInv, Peers
  <1>11. /\ \A fd \in Fds : peer'[fd] # NoClient <=> sock'[fd] # "free"
         /\ \A f, g \in Fds : peer'[f] = peer'[g] /\ peer'[f] # NoClient => f = g
         /\ \A fd \in Fds : peer'[fd] # NoClient /\ link'[peer'[fd]] = "up" => sock'[fd] = "up"
    BY <1>2, <1>3, <1>5 DEF IInv, Peers
  <1>12. peer' \in [Fds -> Sessions \cup {NoClient}]  BY <1>1, <1>3
  <1> QED  BY <1>1, <1>7, <1>8, <1>9, <1>10, <1>11, <1>12 DEF IInv, Peers

LEMMA ClientPeers ==
    ASSUME IInv, NEW c \in Sessions, ClientLeaves(c) \/ StartPuts(c) \/ ClientStep(c)
    PROVE  Peers'
  <1>1. UNCHANGED <<peer, waiting, queue, connFd, pc, clientFd, mainPc, spc>>
    BY DEF ClientLeaves, StartPuts, ClientStep, poolVars, Puts!Leave, Puts!LinkBreaks, Puts!StartPuts,
           Puts!ClientStep, Puts!RecvPutsResp, Puts!RecvRefusal, Puts!SendFileData, Puts!SendFileEnd,
           Puts!LocalReadFails, Puts!RecvReply, Puts!ClientIoFails, Puts!Return, Puts!serverVars
  <1>2. /\ \A fd \in Fds : Unread(fd)' <=> Unread(fd)
        /\ \A d \in Sessions : InBacklog(d)' <=> InBacklog(d)
    BY <1>1 DEF Unread, Pool!InQueue, InBacklog
  <1>3. CASE ClientLeaves(c)
    <2>1. link' = [link EXCEPT ![c] = "broken"] /\ link \in [Sessions -> {"up", "broken"}]
      BY <1>3 DEF ClientLeaves, Puts!Leave, Puts!LinkBreaks, IInv, PutsP!SafeInv, PutsP!Typing, PutsP!TypeOK
    <2>2. sock' = [fd \in Fds |-> IF peer[fd] = c /\ sock[fd] = "up" THEN "eof" ELSE sock[fd]]
      BY <1>3 DEF ClientLeaves, PeerGone
    <2>3. ASSUME NEW fd \in Fds, peer[fd] # NoClient, link'[peer[fd]] = "up" PROVE sock'[fd] = "up"
      <3>1. peer[fd] \in Sessions \ {c} /\ link[peer[fd]] = "up"  BY <2>1, <2>3 DEF IInv, Peers
      <3> QED  BY <2>2, <2>3, <3>1 DEF IInv, Peers
    <2>4. \A fd \in Fds : sock'[fd] = "free" <=> sock[fd] = "free"  BY <2>2
    <2> QED  BY <1>1, <1>2, <2>3, <2>4 DEF IInv, Peers
  <1>4. CASE StartPuts(c) \/ ClientStep(c)
    <2>1. UNCHANGED <<sock, link>>
      BY <1>4 DEF StartPuts, ClientStep, poolVars, Puts!StartPuts,
           Puts!ClientStep, Puts!RecvPutsResp, Puts!RecvRefusal, Puts!SendFileData, Puts!SendFileEnd,
           Puts!LocalReadFails, Puts!RecvReply, Puts!ClientIoFails, Puts!Return
    <2> QED  BY <1>1, <2>1, NoneServed DEF IInv
  <1> QED  BY <1>3, <1>4

LEMMA NextPeers == IInv /\ [Next]_vars => Peers'
  <1> SUFFICES ASSUME IInv, [Next]_vars PROVE Peers'  OBVIOUS
  <1>1. CASE HandleSigint \/ UNCHANGED vars
    <2>1. UNCHANGED <<peer, waiting, spc, link, sock, queue, connFd, pc, clientFd, mainPc>>
      BY <1>1 DEF HandleSigint, vars, poolVars, putsVars, Pool!HandleSigint,
                  Pool!poolVars, Pool!workerVars, Pool!mainVars
    <2> QED  BY <2>1, NoneServed DEF IInv
  <1> QED
    BY <1>1, ConnectPeers, AcceptPeers, LoopPeers, BeginShutdownPeers, ShutdownPeers, DrainPeers,
       PoolStepPeers, HandlerPeers, ClosePeers, ClientPeers
    DEF Next, MainThread

--------------------------------------------------------------------------------
(* The pool part. *)

\* Every step of the composed server is a step of ThreadPool or none at all.
LEMMA PoolMoves == IInv /\ [Next]_vars => [Pool!Next]_(Pool!vars)
  <1> SUFFICES ASSUME IInv, [Next]_vars PROVE Pool!Next \/ UNCHANGED Pool!vars  OBVIOUS
  <1> USE DEF Pool!Next, Pool!MainThread, Pool!WorkerThread, Pool!WorkerStep, Pool!Environment
  <1>1. CASE MainThread
    BY <1>1 DEF MainThread, Accept, LoopStep, BeginShutdown, ShutdownActiveFds, DrainPendingFds
  <1>2. ASSUME NEW w \in Pool!Workers, PoolStep(w) \/ CloseClientFd(w) \/ SpuriousWakeup(w) \/ Handler(w)
        PROVE  Pool!Next \/ UNCHANGED Pool!vars
    <2>1. CASE PoolStep(w) \/ CloseClientFd(w) \/ SpuriousWakeup(w)
      BY <2>1 DEF PoolStep, CloseClientFd, SpuriousWakeup
    <2>2. CASE HandlerStep(w)
      BY <2>2 DEF HandlerStep, poolVars, Pool!vars, Pool!kernelVars, Pool!poolVars, Pool!workerVars, Pool!mainVars
    <2>3. CASE HandlerReturns(w)  BY <2>3 DEF HandlerReturns
    <2> QED  BY <1>2, <2>1, <2>2, <2>3 DEF Handler
  \* Who leaves has at most one descriptor.
  <1>3. ASSUME NEW c \in Sessions, ClientLeaves(c) PROVE Pool!Next \/ UNCHANGED Pool!vars
    <2>1. /\ sock' = [fd \in Fds |-> IF peer[fd] = c /\ sock[fd] = "up" THEN "eof" ELSE sock[fd]]
          /\ UNCHANGED <<backlog, pipe, signals, queue, active, exitFlag, pc, clientFd, mainPc, events, connFd>>
          /\ sock \in [Fds -> {"free", "up", "eof"}] /\ NoClient \notin Sessions
      BY <1>3, PoolFacts, ServerAssumption DEF ClientLeaves, PeerGone, IInv
    <2>2. CASE \E fd \in Fds : peer[fd] = c /\ sock[fd] = "up"
      <3>1. PICK fd \in Fds : peer[fd] = c /\ sock[fd] = "up"  BY <2>2
      <3>2. \A f \in Fds : peer[f] = c => f = fd  BY <2>1, <3>1 DEF IInv, Peers
      <3>3. sock' = [sock EXCEPT ![fd] = "eof"]  BY <2>1, <3>1, <3>2
      <3>4. Pool!ClientLeaves(fd)
        BY <2>1, <3>1, <3>3 DEF Pool!ClientLeaves, Pool!poolVars, Pool!workerVars, Pool!mainVars
      <3> QED  BY <3>4
    <2>3. CASE ~\E fd \in Fds : peer[fd] = c /\ sock[fd] = "up"
      <3>1. sock' = sock  BY <2>1, <2>3
      <3> QED
        BY <2>1, <3>1 DEF Pool!vars, Pool!kernelVars, Pool!poolVars, Pool!workerVars, Pool!mainVars
    <2> QED  BY <2>2, <2>3
  <1>4. ASSUME NEW c \in Sessions, StartPuts(c) \/ ClientStep(c) PROVE UNCHANGED Pool!vars
    BY <1>4 DEF StartPuts, ClientStep, poolVars, Pool!vars, Pool!kernelVars, Pool!poolVars, Pool!workerVars,
                Pool!mainVars
  <1>5. CASE HandleSigint \/ \E c \in Sessions : ClientConnects(c)
    BY <1>5 DEF ClientConnects, HandleSigint
  <1>6. CASE UNCHANGED vars
    BY <1>6 DEF vars, poolVars, Pool!vars, Pool!kernelVars, Pool!poolVars, Pool!workerVars, Pool!mainVars
  <1> QED  BY <1>1, <1>2, <1>3, <1>4, <1>5, <1>6 DEF Next

LEMMA NextPool == IInv /\ [Next]_vars => PoolP!IInv'
  <1> SUFFICES ASSUME IInv, [Next]_vars PROVE PoolP!IInv'  OBVIOUS
  <1>1. [PoolP!Next]_(PoolP!vars)  BY PoolMoves, SamePool
  <1>2. PoolP!IInv /\ [PoolP!Next]_(PoolP!vars) => PoolP!IInv'
    BY Assumptions, PoolP!NextIInv
  <1> QED  BY <1>1, <1>2 DEF IInv

--------------------------------------------------------------------------------
(* The upload part. *)

\* The steps that are steps of Upload.
LEMMA UploadMoves ==
    IInv /\ [Next]_vars => \/ [PutsP!Next]_(PutsP!vars)
                           \/ BeginShutdown \/ ShutdownActiveFds \/ DrainPendingFds
  <1> SUFFICES ASSUME IInv, [Next]_vars, ~BeginShutdown, ~ShutdownActiveFds, ~DrainPendingFds
               PROVE  PutsP!Next \/ UNCHANGED PutsP!vars
    OBVIOUS
  <1> USE SameClient, SameWorker DEF PutsP!Next
  <1>1. ASSUME UNCHANGED putsVars PROVE UNCHANGED PutsP!vars
    BY <1>1 DEF putsVars, clientVars, bounds, PutsP!vars, PutsP!netVars, PutsP!clientVars, PutsP!serverVars,
                PutsP!counters, PutsP!bounds
  <1>2. ASSUME NEW c \in Sessions, ClientConnects(c) PROVE PutsP!Next
    BY <1>2 DEF ClientConnects, Puts!User
  <1>3. ASSUME NEW w \in Pool!Workers, Handler(w) \/ CloseClientFd(w) PROVE PutsP!Next
    <2>1. pc[w] \in {"serving", "closing"} /\ Puts!Worker(peer[clientFd[w]])
      BY <1>3 DEF Handler, HandlerStep, HandlerReturns, Pool!HandleRequestReturns, CloseClientFd,
                  Pool!CloseClientFd, Puts!Worker
    <2>2. peer[clientFd[w]] \in Sessions  BY <2>1, ServedPeer
    <2> QED  BY <2>1, <2>2
  <1>4. ASSUME NEW c \in Sessions, ClientLeaves(c) \/ StartPuts(c) \/ ClientStep(c) PROVE PutsP!Next
    BY <1>4 DEF ClientLeaves, StartPuts, ClientStep, Puts!User
  <1>5. ASSUME LoopStep \/ HandleSigint \/ UNCHANGED vars \/ \E fd \in Fds : Accept(fd)
        PROVE  UNCHANGED PutsP!vars
    BY <1>1, <1>5 DEF LoopStep, HandleSigint, Accept, vars
  <1>6. ASSUME NEW w \in Pool!Workers, PoolStep(w) \/ SpuriousWakeup(w) PROVE UNCHANGED PutsP!vars
    BY <1>1, <1>6 DEF PoolStep, SpuriousWakeup
  <1> QED  BY <1>2, <1>3, <1>4, <1>5, <1>6 DEF Next, MainThread

\* What three steps of the stop do to sessions, many at once: connections break, and
\* sessions nobody has read from are over.
Broken == /\ UNCHANGED <<file, s2c, cpc, source, cpos, outcome, total, woff, shouldClose,
                         connects, puts, breaks, abandoned>>
          /\ link' \in [Sessions -> {"up", "broken"}]
          /\ \A c \in Sessions : link'[c] = "up" => link[c] = "up"
          /\ spc' = [c \in Sessions |-> spc'[c]] /\ c2s' = [c \in Sessions |-> c2s'[c]]
          /\ \A c \in Sessions : \/ spc'[c] = spc[c] /\ c2s'[c] = c2s[c]
                                 \/ spc[c] = "idle" /\ spc'[c] = "gone" /\ c2s'[c] = <<>>
          /\ \A c \in Sessions : spc'[c] = "gone" /\ spc[c] # "gone" => link'[c] = "broken"

LEMMA StopBreaks ==
    ASSUME IInv, BeginShutdown \/ ShutdownActiveFds \/ DrainPendingFds
    PROVE  Broken
  <1>1. /\ link \in [Sessions -> {"up", "broken"}]
        /\ spc = [c \in Sessions |-> spc[c]] /\ c2s = [c \in Sessions |-> c2s[c]]
    BY DEF IInv, PutsP!SafeInv, PutsP!Typing, PutsP!TypeOK
  <1>2. CASE ShutdownActiveFds
    BY <1>1, <1>2 DEF ShutdownActiveFds, Broken, clientVars, bounds
  <1>3. ASSUME NEW dropped, Refuse(dropped), \A c \in Sessions : c \in dropped => spc[c] = "idle"
        PROVE  Broken
    BY <1>1, <1>3 DEF Refuse, Broken, clientVars, bounds
  <1>4. CASE DrainPendingFds
    <2>1. \A c \in Sessions : c \in PeersOf({fd \in Fds : Pool!InQueue(fd)}) => spc[c] = "idle"
      BY DEF IInv, Peers, PeersOf, Unread
    <2> QED  BY <1>3, <1>4, <2>1 DEF DrainPendingFds
  <1>5. CASE BeginShutdown
    <2>1. \A c \in Sessions : c \in {waiting[i] : i \in 1..Len(waiting)} => spc[c] = "idle"
      BY DEF IInv, Peers, InBacklog
    <2> QED  BY <1>3, <1>5, <2>1 DEF BeginShutdown
  <1> QED  BY <1>2, <1>4, <1>5

LEMMA BrokenTyping ==
    ASSUME PutsP!Typing, Broken PROVE PutsP!Typing'
  <1>1. /\ spc \in [Sessions -> PutsP!ServerPcs] /\ c2s \in [Sessions -> Seq(PutsP!Packets)]
    BY DEF PutsP!Typing, PutsP!TypeOK
  <1>2. spc' \in [Sessions -> PutsP!ServerPcs]  BY <1>1 DEF Broken, PutsP!ServerPcs
  <1>3. c2s' \in [Sessions -> Seq(PutsP!Packets)]
    <2>1. <<>> \in Seq(PutsP!Packets)  OBVIOUS
    <2>2. \A c \in Sessions : c2s'[c] \in Seq(PutsP!Packets)  BY <1>1, <2>1 DEF Broken
    <2> QED  BY <2>2 DEF Broken
  <1>4. PutsP!TypeOK'  BY <1>2, <1>3 DEF PutsP!Typing, PutsP!TypeOK, Broken
  <1>5. PutsP!Sized'  BY DEF PutsP!Typing, PutsP!Sized, Broken
  <1> QED  BY <1>4, <1>5 DEF PutsP!Typing

LEMMA BrokenSafe ==
    ASSUME PutsP!SafeInv, Broken PROVE PutsP!SafeInv'
  <1>1. PutsP!Typing'  BY BrokenTyping DEF PutsP!SafeInv
  <1>2. \A c \in Sessions : PutsP!Uploading(c)' => PutsP!Uploading(c)  BY DEF Broken, PutsP!Uploading
  <1>3. PutsP!Solo'  BY <1>2 DEF PutsP!SafeInv, PutsP!Solo
  <1>4. PutsP!Measured'  BY DEF PutsP!SafeInv, PutsP!Measured, Broken
  <1>5. PutsP!SentBlocks'
    <2>1. Len(<<>>) = 0  OBVIOUS
    <2> QED  BY <2>1 DEF PutsP!SafeInv, PutsP!SentBlocks, Broken
  <1>6. PutsP!HolesOnlyUnderUpload'
    BY DEF PutsP!SafeInv, PutsP!HolesOnlyUnderUpload, Broken
  <1> QED  BY <1>1, <1>3, <1>4, <1>5, <1>6 DEF PutsP!SafeInv

LEMMA BrokenPlaces ==
    ASSUME PutsP!PlaceInv, Broken PROVE PutsP!PlaceInv'
  <1>1. PutsP!Typing'  BY BrokenTyping DEF PutsP!PlaceInv
  <1>2. ASSUME PutsP!Placing PROVE PutsP!Placing'
    <2>1. PutsP!BlocksInPlace'  BY <1>2 DEF PutsP!Placing, PutsP!BlocksInPlace, Broken
    <2>2. ASSUME NEW c \in Sessions PROVE PutsP!Queued(c)'
      <3>1. CASE spc'[c] = spc[c] /\ c2s'[c] = c2s[c]
        BY <1>2, <3>1 DEF PutsP!Placing, PutsP!Queued, Broken
      <3>2. CASE spc'[c] = "gone"  BY <3>2 DEF PutsP!Queued
      <3> QED  BY <3>1, <3>2 DEF Broken
    <2>3. ASSUME NEW c \in Sessions, link'[c] = "up" PROVE PutsP!Phase(c)'
      <3>1. /\ spc'[c] = spc[c] /\ c2s'[c] = c2s[c] /\ link[c] = "up"
            /\ UNCHANGED <<s2c, cpc, source, cpos, total, woff, shouldClose>>
        BY <2>3 DEF Broken
      <3>2. PutsP!Phase(c)  BY <1>2 DEF PutsP!Placing
      <3> QED
        BY <3>1, <3>2 DEF PutsP!Phase, PutsP!IdlePhase, PutsP!RespPhase, PutsP!SendPhase, PutsP!ReplyPhase,
                          PutsP!Receives, PutsP!Closes
    <2>4. ASSUME NEW c \in Sessions, link'[c] # "up" PROVE PutsP!Phase(c)'  BY <2>4 DEF PutsP!Phase
    <2> QED  BY <2>1, <2>2, <2>3, <2>4 DEF PutsP!Placing
  <1> QED  BY <1>1, <1>2 DEF PutsP!PlaceInv, Broken

LEMMA NextPuts == IInv /\ [Next]_vars => PutsP!SafeInv' /\ PutsP!PlaceInv'
  <1> SUFFICES ASSUME IInv, [Next]_vars PROVE PutsP!SafeInv' /\ PutsP!PlaceInv'  OBVIOUS
  <1>1. CASE [PutsP!Next]_(PutsP!vars)
    <2>1. PutsP!SafeInv'  BY <1>1, Assumptions, PutsP!NextSafe DEF IInv
    <2>2. PutsP!PlaceInv'  BY <1>1, Assumptions, PutsP!NextPlace DEF IInv
    <2> QED  BY <2>1, <2>2
  <1>2. CASE BeginShutdown \/ ShutdownActiveFds \/ DrainPendingFds
    BY <1>2, StopBreaks, BrokenSafe, BrokenPlaces DEF IInv
  <1> QED  BY <1>1, <1>2, UploadMoves

--------------------------------------------------------------------------------
(* Theorems. *)

LEMMA InitIInv == Init => IInv
  <1> SUFFICES ASSUME Init PROVE IInv  OBVIOUS
  <1>1. PoolP!IInv  BY Assumptions, SamePool, PoolP!InitIInv DEF Init
  <1>2. PutsP!Init
    BY DEF Init, Puts!Init, PutsP!Init
  <1>3. PutsP!SafeInv /\ PutsP!PlaceInv  BY <1>2, Assumptions, PutsP!InitSafe, PutsP!InitPlace
  <1> QED  BY <1>1, <1>3, InitPeers DEF IInv

(* The inductive invariant holds: every step of the composition, be it one of the
   pool, of a handler or of a client, keeps the invariants of both components and
   the agreement of peer with their state. *)
THEOREM Invariance == Spec => []IInv
  <1>1. IInv /\ [Next]_vars => IInv'  BY NextPool, NextPuts, NextPeers DEF IInv
  <1> QED  BY <1>1, InitIInv, PTL DEF Spec

\* Composed with real sessions the pool still is ThreadPool: what handlers, clients and
\* the network do shows as the steps it allows for.
THEOREM PoolRefinement == Spec => Pool!Spec
  <1>1. Init => Pool!Init  BY DEF Init
  <1> QED  BY <1>1, PoolMoves, Invariance, PTL DEF Spec, Pool!Spec

\* No session is dropped half way, run by two workers or forgotten with its connection open,
\* from the backlog over the queue to the close after its handler.
THEOREM OnePlace == Spec => []SessionInOnePlace
  <1>1. IInv => SessionInOnePlace
    <2> SUFFICES ASSUME IInv, NEW c \in Sessions, spc[c] # "gone"
                 PROVE  LET inBacklog == {i \in 1..Len(waiting) : waiting[i] = c}
                            itsFds    == {fd \in Fds : peer[fd] = c}
                        IN  \/ spc[c] = "idle" /\ Cardinality(inBacklog) = 1 /\ itsFds = {}
                            \/ /\ inBacklog = {}
                               /\ \E fd \in Fds :
                                    /\ itsFds = {fd} /\ sock[fd] # "free"
                                    /\ link[c] = "up" => sock[fd] = "up"
                                    /\ LET keepers == {w \in Pool!Workers : clientFd[w] = fd}
                                       IN  \/ /\ spc[c] = "idle" /\ (connFd = fd \/ Pool!InQueue(fd))
                                              /\ keepers = {}
                                           \/ /\ \E w \in keepers : /\ keepers = {w}
                                                                    /\ pc[w] = "serving" <=> spc[c] # "closing"
                                              /\ connFd # fd /\ ~Pool!InQueue(fd)
      BY DEF SessionInOnePlace
    <2> DEFINE inBacklog == {i \in 1..Len(waiting) : waiting[i] = c}
               itsFds == {fd \in Fds : peer[fd] = c}
    <2>1. CASE InBacklog(c)
      <3>1. PICK i \in 1..Len(waiting) : waiting[i] = c  BY <2>1 DEF InBacklog
      <3>2. inBacklog = {i}  BY <3>1 DEF IInv, Peers
      <3>3. Cardinality(inBacklog) = 1  BY <3>2, FS_Singleton
      <3>4. spc[c] = "idle" /\ itsFds = {}  BY <2>1 DEF IInv, Peers
      <3> QED  BY <3>3, <3>4
    <2>2. CASE ~InBacklog(c)
      <3>1. PICK fd \in Fds : peer[fd] = c  BY <2>2 DEF IInv, Peers
      <3>2. inBacklog = {}  BY <2>2 DEF InBacklog
      <3>3. /\ itsFds = {fd} /\ sock[fd] # "free"
            /\ link[c] = "up" => sock[fd] = "up"
            /\ Unread(fd) => spc[c] = "idle"
        BY <3>1, ServerAssumption DEF IInv, Peers
      <3>0. /\ NoFd \notin Fds
            /\ \A v, w \in Pool!Workers : clientFd[v] = clientFd[w] /\ clientFd[v] # NoFd => v = w
            /\ sock[fd] # "free" <=> Unread(fd) \/ Pool!Held(fd)
            /\ Unread(fd) => ~Pool!Held(fd)
        BY PoolFacts DEF IInv, Unread
      <3> DEFINE keepers == {w \in Pool!Workers : clientFd[w] = fd}
      <3>4. CASE Unread(fd)
        <4>1. \A w \in Pool!Workers : clientFd[w] # fd  BY <3>4, <3>0 DEF Unread, Pool!Held
        <4>2. keepers = {}  BY <4>1
        <4>3. connFd = fd \/ Pool!InQueue(fd)  BY <3>4 DEF Unread
        <4> QED  BY <3>2, <3>3, <3>4, <4>2, <4>3
      <3>5. CASE ~Unread(fd)
        <4>1. PICK w \in Pool!Workers : clientFd[w] = fd
          BY <3>0, <3>3, <3>5 DEF Unread, Pool!Held
        <4>2. clientFd[w] # NoFd  BY <3>0, <4>1
        <4>3. keepers = {w}  BY <3>0, <4>1, <4>2
        <4>4. pc[w] = "serving" <=> spc[c] # "closing"  BY <3>1, <4>1 DEF IInv, Peers
        <4>5. connFd # fd /\ ~Pool!InQueue(fd)  BY <3>5 DEF Unread
        <4>6. w \in keepers  BY <4>3
        <4> QED  BY <3>2, <3>3, <4>3, <4>4, <4>5, <4>6
      <3> QED  BY <3>4, <3>5
    <2> QED  BY <2>1, <2>2
  <1> QED  BY <1>1, Invariance, PTL

\* However far uploads are when SIGINT arrives, what main leaves behind when it returns
\* can be resumed: every handler has cut its file before its worker was joined.
THEOREM StopKeeps == Spec => []StopKeepsResumePoint
  <1>1. IInv => StopKeepsResumePoint
    <2> SUFFICES ASSUME IInv, mainPc = "returned"
                 PROVE  /\ \A i \in 1..Len(file) : file[i] # Hole
                        /\ \A c \in Sessions : spc[c] = "gone"
      BY DEF StopKeepsResumePoint
    <2>1. queue = <<>> /\ connFd \notin Fds /\ \A w \in Pool!Workers : pc[w] = "done"
      BY PoolFacts DEF IInv, PoolP!IInv, PoolP!ShutdownPhase, PoolP!Workers, Pool!Workers
    <2>2. \A fd \in Fds : sock[fd] = "free"
      BY <2>1, PoolFacts DEF IInv, Pool!InQueue, Pool!Held
    <2>3. \A c \in Sessions : spc[c] = "gone"
      <3>1. Len(waiting) = 0  BY DEF IInv, Peers
      <3> QED  BY <2>2, <3>1, ServerAssumption DEF IInv, Peers, InBacklog
    <2> QED  BY <2>3 DEF IInv, PutsP!SafeInv, PutsP!HolesOnlyUnderUpload
  <1> QED  BY <1>1, Invariance, PTL

\* What Upload promises for its file survives the composition, stops included.
THEOREM PutsHold ==
    Spec => [](/\ Puts!ResumePointIsReal
               /\ Puts!AckedIsWhole
               /\ Puts!HolesOnlyUnderUpload
               /\ Puts!MappingInsideFile
               /\ Puts!BlocksInPlace)
  <1>1. ASSUME IInv
        PROVE  /\ Puts!ResumePointIsReal /\ Puts!AckedIsWhole /\ Puts!HolesOnlyUnderUpload
               /\ Puts!MappingInsideFile /\ Puts!BlocksInPlace
    <2>1. PutsP!SafeInv /\ PutsP!PlaceInv  BY <1>1 DEF IInv
    <2>2. ASSUME NEW s \in Sessions, spc[s] \in {"respond", "extend", "recv", "ack"}
          PROVE  \A i \in 1..woff[s] : Puts!Received(i)
      BY <2>1, <2>2, Assumptions, PutsP!ReceivedBelow DEF PutsP!Received, Puts!Received
    <2>3. Puts!ResumePointIsReal  BY <2>2 DEF Puts!ResumePointIsReal
    <2>4. Puts!AckedIsWhole  BY <2>1, <2>2 DEF PutsP!SafeInv, PutsP!Measured, Puts!AckedIsWhole
    <2>5. Puts!HolesOnlyUnderUpload
      BY <2>1 DEF PutsP!SafeInv, PutsP!HolesOnlyUnderUpload, Puts!HolesOnlyUnderUpload
    <2>6. Puts!MappingInsideFile
      BY <2>1 DEF PutsP!SafeInv, PutsP!Measured, PutsP!Typing, PutsP!TypeOK, Puts!MappingInsideFile
    <2>7. Puts!BlocksInPlace
      BY <2>1 DEF PutsP!PlaceInv, PutsP!Placing, PutsP!BlocksInPlace, Puts!BlocksInPlace
    <2> QED  BY <2>3, <2>4, <2>5, <2>6, <2>7
  <1> QED  BY <1>1, Invariance, PTL

================================================================================
