------------------------------ MODULE ThreadPool -------------------------------
(***************************************************************************)
(* The server process: the main thread of server.c with its epoll loop and *)
(* its self-pipe, the worker threads of worker.c, and the pool they share  *)
(* (thread_pool.c, queue.c).                                               *)
(*                                                                         *)
(* Every access to the queue, to active_fds and to exitFlag happens with   *)
(* pool.lock held and nothing inside such a region blocks except           *)
(* pthread_cond_wait, so each region is one action and a wait is two: one  *)
(* that goes to sleep, one that comes back for the lock.  What runs        *)
(* outside the lock (accept, handle_request, close) is an action of its    *)
(* own.                                                                    *)
(*                                                                         *)
(* handle_request is one long step here: a worker is "serving" until it    *)
(* returns.  A descriptor is identified by its number, which the kernel    *)
(* hands out again after close.                                            *)
(***************************************************************************)
EXTENDS Naturals, Sequences, FiniteSets

CONSTANTS
    Num,        \* pool->num, the number of worker threads
    Fds,        \* the descriptor numbers free for connections
    NoFd,       \* the -1 of an empty active_fds slot and of deQueue
    Backlog,    \* bound: connections waiting to be accepted
    MaxSignals  \* bound: SIGINTs delivered in one run

ASSUME PoolAssumption ==
    /\ Num \in Nat \ {0}
    /\ IsFiniteSet(Fds)
    /\ NoFd \notin Fds
    /\ Backlog \in Nat
    /\ MaxSignals \in 0..16   \* one read of buf[16] empties the pipe

VARIABLES
    sock,      \* kernel: each descriptor is "free", "up", or "eof" (recv fails)
    backlog,   \* kernel: connections waiting on listen_fd
    pipe,      \* kernel: bytes in the self-pipe
    signals,   \* SIGINTs delivered so far
    queue,     \* pool->queue
    active,    \* pool->active_fds
    exitFlag,  \* pool->exitFlag
    pc,        \* where each worker is
    clientFd,  \* each worker's local client_fd
    mainPc,    \* where the main thread is
    events,    \* the rest of the batch epoll_wait returned
    connFd     \* the main thread's local conn_fd

kernelVars == <<sock, backlog, pipe, signals>>
poolVars   == <<queue, active, exitFlag>>
workerVars == <<pc, clientFd>>
mainVars   == <<mainPc, events, connFd>>
vars       == <<kernelVars, poolVars, workerVars, mainVars>>

Workers == 1..Num
Slots   == 1..Num

WorkerPcs == {"loop", "waiting", "serving", "handled", "closing", "done"}
MainPcs   == {"epoll", "enqueue", "exitFlag", "shutdown", "drain", "join", "returned"}
Batches   == { <<>>, <<"listen">>, <<"pipe">>, <<"listen", "pipe">>, <<"pipe", "listen">> }

\* The first slot that holds old gets new; with no such slot nothing changes.
ReplaceFirst(slots, old, new) ==
    [i \in Slots |-> IF slots[i] = old /\ \A j \in 1..(i - 1) : slots[j] # old
                     THEN new ELSE slots[i]]

Registered(fd) == \E i \in Slots : active[i] = fd
InQueue(fd)    == \E i \in 1..Len(queue) : queue[i] = fd
Held(fd)       == \E w \in Workers : clientFd[w] = fd

\* Faults seeded to see the properties fail are named after the action they replace.
EnQueueAtHead(q, fd)    == <<fd>> \o q
AfterDeQueueKeepHead(q) == q

\* enQueue and deQueue on the list seen as the sequence of its nodes' fds.
EnQueue(q, fd) == Append(q, fd)
DeQueued(q)    == IF q = <<>> THEN NoFd ELSE Head(q)
AfterDeQueue(q) == IF q = <<>> THEN <<>> ELSE Tail(q)

Waiting == {w \in Workers : pc[w] = "waiting"}

\* The values pc can take after pthread_cond_signal, and after a broadcast.
CondSignal == IF Waiting = {} THEN {pc} ELSE {[pc EXCEPT ![w] = "loop"] : w \in Waiting}
CondBroadcast == [w \in Workers |-> IF pc[w] = "waiting" THEN "loop" ELSE pc[w]]

--------------------------------------------------------------------------------
\* init_thread_pool has created the threads, main has armed epoll.
Init == /\ sock = [fd \in Fds |-> "free"]
        /\ backlog = 0
        /\ pipe = 0
        /\ signals = 0
        /\ queue = <<>>
        /\ active = [i \in Slots |-> NoFd]
        /\ exitFlag = FALSE
        /\ pc = [w \in Workers |-> "loop"]
        /\ clientFd = [w \in Workers |-> NoFd]
        /\ mainPc = "epoll"
        /\ events = <<>>
        /\ connFd = NoFd

--------------------------------------------------------------------------------
(* The outside: clients and the operator. *)

\* A client completes its handshake and waits to be accepted.
ClientConnects == /\ mainPc \in {"epoll", "enqueue"}
                  /\ backlog < Backlog
                  /\ backlog' = backlog + 1
                  /\ UNCHANGED <<sock, pipe, signals, poolVars, workerVars, mainVars>>

\* A client closes its end, or its connection breaks.
ClientLeaves(fd) == /\ sock[fd] = "up"
                    /\ sock' = [sock EXCEPT ![fd] = "eof"]
                    /\ UNCHANGED <<backlog, pipe, signals, poolVars, workerVars, mainVars>>

\* handle_sigint: one byte into the self-pipe, on whichever thread runs it.
HandleSigint == /\ mainPc # "returned"
                /\ signals < MaxSignals
                /\ signals' = signals + 1
                /\ pipe' = pipe + 1
                /\ UNCHANGED <<sock, backlog, poolVars, workerVars, mainVars>>

--------------------------------------------------------------------------------
(* The main thread. *)

ReadyEvents == (IF backlog > 0 THEN {"listen"} ELSE {})
                   \cup (IF pipe > 0 THEN {"pipe"} ELSE {})

\* Level-triggered: every ready descriptor is in the batch, in any order.
EpollWait == /\ mainPc = "epoll"
             /\ events = <<>>
             /\ ReadyEvents # {}
             /\ events' \in {b \in Batches : {b[i] : i \in 1..Len(b)} = ReadyEvents}
             /\ UNCHANGED <<kernelVars, poolVars, workerVars, mainPc, connFd>>

HandlingEvent(e) == mainPc = "epoll" /\ events # <<>> /\ Head(events) = e

Accept(fd) == /\ HandlingEvent("listen")
              /\ backlog > 0
              /\ sock[fd] = "free"
              /\ sock' = [sock EXCEPT ![fd] = "up"]
              /\ backlog' = backlog - 1
              /\ connFd' = fd
              /\ events' = Tail(events)
              /\ mainPc' = "enqueue"
              /\ UNCHANGED <<pipe, signals, poolVars, workerVars>>

\* Fault: no continue after a failed accept, the -1 is enqueued.
AcceptFailsGoesOn == /\ HandlingEvent("listen")
                     /\ events' = Tail(events)
                     /\ mainPc' = "enqueue"
                     /\ UNCHANGED <<kernelVars, poolVars, workerVars, connFd>>

\* accept returns -1, for want of a descriptor or for any other reason: log and go on
\* with the batch.  The connection stays in the backlog.
AcceptFails == /\ HandlingEvent("listen")
               /\ events' = Tail(events)
               /\ UNCHANGED <<kernelVars, poolVars, workerVars, mainPc, connFd>>

\* Fault: the signal is sent only when the queue was empty.
EnqueueSignalsIfEmpty == /\ mainPc = "enqueue"
                         /\ queue' = EnQueue(queue, connFd)
                         /\ IF queue = <<>> THEN pc' \in CondSignal ELSE pc' = pc
                         /\ connFd' = NoFd
                         /\ mainPc' = "epoll"
                         /\ UNCHANGED <<kernelVars, active, exitFlag, clientFd, events>>

\* Fault: no signal at all.
EnqueueSilently == /\ mainPc = "enqueue"
                   /\ queue' = EnQueue(queue, connFd)
                   /\ connFd' = NoFd
                   /\ mainPc' = "epoll"
                   /\ UNCHANGED <<kernelVars, active, exitFlag, workerVars, events>>

Enqueue == /\ mainPc = "enqueue"
           /\ queue' = EnQueue(queue, connFd)
           /\ pc' \in CondSignal
           /\ connFd' = NoFd
           /\ mainPc' = "epoll"
           /\ UNCHANGED <<kernelVars, active, exitFlag, clientFd, events>>

\* Drain the pipe, close listen_fd: whoever still waits on it is refused.
BeginShutdown == /\ HandlingEvent("pipe")
                 /\ pipe' = 0
                 /\ backlog' = 0
                 /\ events' = <<>>
                 /\ mainPc' = "exitFlag"
                 /\ UNCHANGED <<sock, signals, poolVars, workerVars, connFd>>

\* Fault: exitFlag is set without the broadcast.
SetExitFlagSilently == /\ mainPc = "exitFlag"
                       /\ exitFlag' = TRUE
                       /\ mainPc' = "shutdown"
                       /\ UNCHANGED <<kernelVars, queue, active, workerVars, events, connFd>>

SetExitFlag == /\ mainPc = "exitFlag"
               /\ exitFlag' = TRUE
               /\ pc' = CondBroadcast
               /\ mainPc' = "shutdown"
               /\ UNCHANGED <<kernelVars, queue, active, clientFd, events, connFd>>

ShutdownActiveFds == /\ mainPc = "shutdown"
                     /\ sock' = [fd \in Fds |-> IF Registered(fd) /\ sock[fd] = "up"
                                                THEN "eof" ELSE sock[fd]]
                     /\ mainPc' = "drain"
                     /\ UNCHANGED <<backlog, pipe, signals, poolVars, workerVars, events, connFd>>

\* Fault: pending connections are popped and never closed.
DrainPendingFdsLeaks == /\ mainPc = "drain"
                        /\ queue' = <<>>
                        /\ mainPc' = "join"
                        /\ UNCHANGED <<kernelVars, active, exitFlag, workerVars, events, connFd>>

DrainPendingFds == /\ mainPc = "drain"
                   /\ sock' = [fd \in Fds |-> IF InQueue(fd) THEN "free" ELSE sock[fd]]
                   /\ queue' = <<>>
                   /\ mainPc' = "join"
                   /\ UNCHANGED <<backlog, pipe, signals, active, exitFlag, workerVars, events, connFd>>

\* Fault: main does not wait for the workers.
JoinWorkersAtOnce == /\ mainPc = "join"
                     /\ mainPc' = "returned"
                     /\ UNCHANGED <<kernelVars, poolVars, workerVars, events, connFd>>

JoinWorkers == /\ mainPc = "join"
               /\ \A w \in Workers : pc[w] = "done"
               /\ mainPc' = "returned"
               /\ UNCHANGED <<kernelVars, poolVars, workerVars, events, connFd>>

--------------------------------------------------------------------------------
(* A worker thread. *)

\* The condition of the while around pthread_cond_wait.
MustWait == queue = <<>> /\ ~exitFlag

Wait(w) == /\ pc[w] = "loop"
           /\ MustWait
           /\ pc' = [pc EXCEPT ![w] = "waiting"]
           /\ UNCHANGED <<kernelVars, poolVars, clientFd, mainVars>>

\* pthread_cond_wait may return without a signal.
SpuriousWakeup(w) == /\ pc[w] = "waiting"
                     /\ pc' = [pc EXCEPT ![w] = "loop"]
                     /\ UNCHANGED <<kernelVars, poolVars, clientFd, mainVars>>

Exit(w) == /\ pc[w] = "loop"
           /\ exitFlag
           /\ pc' = [pc EXCEPT ![w] = "done"]
           /\ UNCHANGED <<kernelVars, poolVars, clientFd, mainVars>>

\* Fault: a worker empties the queue before it looks at exitFlag.
TakeClientWhileExiting(w) == /\ pc[w] = "loop"
                             /\ queue # <<>>
                             /\ clientFd' = [clientFd EXCEPT ![w] = DeQueued(queue)]
                             /\ queue' = AfterDeQueue(queue)
                             /\ active' = ReplaceFirst(active, NoFd, DeQueued(queue))
                             /\ pc' = [pc EXCEPT ![w] = "serving"]
                             /\ UNCHANGED <<kernelVars, exitFlag, mainVars>>

TakeClient(w) == /\ pc[w] = "loop"
                 /\ ~MustWait
                 /\ ~exitFlag
                 /\ clientFd' = [clientFd EXCEPT ![w] = DeQueued(queue)]
                 /\ queue' = AfterDeQueue(queue)
                 /\ active' = ReplaceFirst(active, NoFd, DeQueued(queue))
                 /\ pc' = [pc EXCEPT ![w] = "serving"]
                 /\ UNCHANGED <<kernelVars, exitFlag, mainVars>>

\* Fault: the worker closes without unregister_active_fd.
HandleRequestReturnsToClose(w) == /\ pc[w] = "serving"
                                  /\ pc' = [pc EXCEPT ![w] = "closing"]
                                  /\ UNCHANGED <<kernelVars, poolVars, clientFd, mainVars>>

\* The session ends: recv fails, a reply cannot be sent, or should_close is set.
HandleRequestReturns(w) == /\ pc[w] = "serving"
                           /\ pc' = [pc EXCEPT ![w] = "handled"]
                           /\ UNCHANGED <<kernelVars, poolVars, clientFd, mainVars>>

\* Fault: the worker forgets its connection.
UnregisterActiveFdOnly(w) == /\ pc[w] = "handled"
                             /\ active' = ReplaceFirst(active, clientFd[w], NoFd)
                             /\ clientFd' = [clientFd EXCEPT ![w] = NoFd]
                             /\ pc' = [pc EXCEPT ![w] = "loop"]
                             /\ UNCHANGED <<kernelVars, queue, exitFlag, mainVars>>

UnregisterActiveFd(w) == /\ pc[w] = "handled"
                         /\ active' = ReplaceFirst(active, clientFd[w], NoFd)
                         /\ pc' = [pc EXCEPT ![w] = "closing"]
                         /\ UNCHANGED <<kernelVars, queue, exitFlag, clientFd, mainVars>>

CloseClientFd(w) == /\ pc[w] = "closing"
                    /\ sock' = [sock EXCEPT ![clientFd[w]] = "free"]
                    /\ clientFd' = [clientFd EXCEPT ![w] = NoFd]
                    /\ pc' = [pc EXCEPT ![w] = "loop"]
                    /\ UNCHANGED <<backlog, pipe, signals, poolVars, mainVars>>

--------------------------------------------------------------------------------
MainThread == \/ EpollWait
              \/ \E fd \in Fds : Accept(fd)
              \/ AcceptFails
              \/ Enqueue
              \/ BeginShutdown
              \/ SetExitFlag
              \/ ShutdownActiveFds
              \/ DrainPendingFds
              \/ JoinWorkers

\* What a worker does by itself; how long handle_request takes is the client's.
WorkerStep(w) == \/ Wait(w)
                 \/ Exit(w)
                 \/ TakeClient(w)
                 \/ UnregisterActiveFd(w)
                 \/ CloseClientFd(w)

WorkerThread(w) == WorkerStep(w) \/ HandleRequestReturns(w) \/ SpuriousWakeup(w)

Environment == \/ ClientConnects
               \/ \E fd \in Fds : ClientLeaves(fd)
               \/ HandleSigint

\* The process is gone: nothing happens any more.
Returned == mainPc = "returned" /\ UNCHANGED vars

Next == \/ MainThread
        \/ \E w \in Workers : WorkerThread(w)
        \/ Environment
        \/ Returned

Spec == Init /\ [][Next]_vars

\* handle_request on a broken connection ends: every recv and write of it fails.
SessionEndsOnEof(w) == clientFd[w] # NoFd /\ sock[clientFd[w]] = "eof" /\ HandleRequestReturns(w)

\* Threads are scheduled; clients, operators and idle sessions are not.
FairSpec == /\ Spec
            /\ WF_vars(MainThread)
            /\ \A w \in Workers : WF_vars(WorkerStep(w)) /\ WF_vars(SessionEndsOnEof(w))

--------------------------------------------------------------------------------
(* Properties. *)

TypeOK == /\ sock \in [Fds -> {"free", "up", "eof"}]
          /\ backlog \in 0..Backlog
          /\ pipe \in 0..MaxSignals
          /\ signals \in 0..MaxSignals
          /\ queue \in Seq(Fds)
          /\ active \in [Slots -> Fds \cup {NoFd}]
          /\ exitFlag \in BOOLEAN
          /\ pc \in [Workers -> WorkerPcs]
          /\ clientFd \in [Workers -> Fds \cup {NoFd}]
          /\ mainPc \in MainPcs
          /\ events \in Batches
          /\ connFd \in Fds \cup {NoFd}

\* A descriptor is open exactly while someone is responsible for closing it, and
\* that someone is one: the main thread between accept and enQueue, one node of the
\* queue, or one worker.  So no connection leaks, is closed twice, is served by two
\* workers, or is confused with a later one that got the same number.
FdOwnedOnce ==
    /\ \A i, j \in 1..Len(queue) : queue[i] = queue[j] => i = j
    /\ \A v, w \in Workers : clientFd[v] = clientFd[w] /\ clientFd[v] # NoFd => v = w
    /\ \A fd \in Fds : /\ sock[fd] # "free" <=> connFd = fd \/ InQueue(fd) \/ Held(fd)
                       /\ ~(InQueue(fd) /\ Held(fd))
                       /\ connFd = fd => ~InQueue(fd) /\ ~Held(fd)

Serves(w) == pc[w] \in {"serving", "handled"}

\* active_fds lists exactly the connections whose worker is between deQueue and
\* unregister_active_fd, each in one slot: shutdown_active_fds misses no session
\* and never touches a descriptor that is closed or belongs to a newer connection.
ActiveFdsExact ==
    /\ \A w \in Workers : Serves(w) => Registered(clientFd[w])
    /\ \A i \in Slots : active[i] # NoFd => \E w \in Workers : Serves(w) /\ clientFd[w] = active[i]
    /\ \A i, j \in Slots : active[i] = active[j] /\ active[i] # NoFd => i = j

\* While a worker sleeps on the condition variable, every queued connection has a
\* worker of its own that is awake and on its way to the queue.
NoLostWakeup ==
    Waiting # {} => Cardinality({w \in Workers : pc[w] = "loop"}) >= Len(queue)

\* Once the main thread has run shutdown_active_fds, no session is left that
\* could still block in recv: each is on a connection that has been shut down.
ShutdownReachesSessions ==
    mainPc \in {"drain", "join"} =>
        \A w \in Workers : pc[w] = "serving" => sock[clientFd[w]] = "eof"

\* When main returns after a SIGINT every accepted connection has been closed, no
\* worker is left that could touch the freed arrays, and nothing is registered.
CleanReturn ==
    mainPc = "returned" => /\ \A fd \in Fds : sock[fd] = "free"
                           /\ \A w \in Workers : pc[w] = "done"
                           /\ \A i \in Slots : active[i] = NoFd
                           /\ queue = <<>>

\* A SIGINT always ends the process, whatever the clients do meanwhile: no worker
\* stays in recv, no thread stays on the condition variable, the join returns.
ShutdownCompletes == (pipe > 0 /\ mainPc = "epoll") ~> (mainPc = "returned")

\* If every client leaves some time, every connection in the queue is taken (or
\* dropped by a shutdown): FIFO order and the wakeups leave none behind.
ClientsLeave == \A fd \in Fds : WF_vars(ClientLeaves(fd))
QueuedConnectionsLeaveQueue ==
    ClientsLeave => \A fd \in Fds : InQueue(fd) ~> ~InQueue(fd)

\* The pool keeps the promise of ConnectionService: a connection is pending from
\* accept until a worker takes it, and in service until that worker closes it.
CS == INSTANCE ConnectionService WITH
        Conns     <- Fds,
        Capacity  <- Num,
        pending   <- IF connFd = NoFd THEN queue ELSE Append(queue, connFd),
        inService <- {clientFd[w] : w \in Workers} \ {NoFd},
        stopping  <- exitFlag

ImplementsConnectionService == CS!CSSpec
================================================================================
