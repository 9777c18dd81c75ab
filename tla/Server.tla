-------------------------------- MODULE Server ---------------------------------
(***************************************************************************)
(* The server with real sessions.  ThreadPool takes handle_request for one *)
(* step that ends when its connection does; Upload lets a session be       *)
(* served as soon as it is connected.  Here a client waits in the backlog  *)
(* and in the queue until a worker takes its descriptor, sending meanwhile *)
(* what nobody reads; that worker runs Upload's handler and closes the     *)
(* connection two steps after the handler has returned; and SIGINT finds   *)
(* uploads in progress: shutdown_active_fds breaks their connections, the  *)
(* handlers clean up, and main joins the workers.                          *)
(*                                                                         *)
(* One upload runs at a time, as in Upload without "overlap": sessions     *)
(* that upload to different names do not meet in the file system.          *)
(***************************************************************************)
EXTENDS Naturals, Sequences, FiniteSets

CONSTANTS
    Num, Fds, NoFd, Backlog, MaxSignals,                    \* see ThreadPool
    Sessions, Versions, Size, Hole, MaxConnects, MaxPuts, MaxBreaks, Faults,  \* see Upload
    NoClient  \* nobody

VARIABLES
    sock, backlog, pipe, signals, queue, active, exitFlag,  \* see ThreadPool
    pc, clientFd, mainPc, events, connFd,
    file, link, c2s, s2c, cpc, source, cpos, outcome,       \* see Upload
    spc, total, woff, shouldClose, connects, puts, breaks, abandoned,
    waiting, \* the clients in the backlog, in order
    peer     \* the client at the other end of each descriptor, until it is closed

Pool == INSTANCE ThreadPool
Puts == INSTANCE Upload

\* A handler that kills the process or uploads that share a file are not composed here.
ASSUME ServerAssumption == /\ Pool!PoolAssumption
                           /\ Puts!UploadAssumption
                           /\ Faults = {}
                           /\ NoClient \notin Sessions

poolVars   == <<sock, backlog, pipe, signals, queue, active, exitFlag,
                pc, clientFd, mainPc, events, connFd>>
clientVars == <<cpc, source, cpos, outcome>>
bounds     == <<connects, puts, breaks, abandoned>>
putsVars   == <<file, link, c2s, s2c, clientVars, spc, total, woff, shouldClose, bounds>>
vars       == <<poolVars, putsVars, waiting, peer>>

Init == /\ Pool!Init
        /\ Puts!Init
        /\ waiting = <<>>
        /\ peer = [fd \in Fds |-> NoClient]

--------------------------------------------------------------------------------
(* The outside. *)

\* A client's handshake.  From here on it may send: the kernel keeps it for the worker.
ClientConnects(c) == /\ Pool!ClientConnects
                     /\ Puts!Connect(c)
                     /\ waiting' = Append(waiting, c)
                     /\ UNCHANGED peer

\* The end of a connection, as the worker's recv sees it.
PeerGone(c) == sock' = [fd \in Fds |-> IF peer[fd] = c /\ sock[fd] = "up" THEN "eof" ELSE sock[fd]]

ClientLeaves(c) == /\ Puts!Leave(c) \/ Puts!LinkBreaks(c)
                   /\ PeerGone(c)
                   /\ UNCHANGED <<backlog, pipe, signals, queue, active, exitFlag,
                                   pc, clientFd, mainPc, events, connFd, waiting, peer>>

StartPuts(c) == /\ \E v \in Versions : Puts!StartPuts(c, v)
                /\ UNCHANGED <<poolVars, waiting, peer>>

ClientStep(c) == Puts!ClientStep(c) /\ UNCHANGED <<poolVars, waiting, peer>>

HandleSigint == Pool!HandleSigint /\ UNCHANGED <<putsVars, waiting, peer>>

--------------------------------------------------------------------------------
(* The main thread. *)

\* Who has waited longest, be it still there or not.
Accept(fd) == /\ waiting # <<>>
              /\ Pool!Accept(fd)
              /\ peer' = [peer EXCEPT ![fd] = Head(waiting)]
              /\ waiting' = Tail(waiting)
              /\ UNCHANGED putsVars

\* The steps of the event loop that touch no session.
LoopStep == /\ \/ Pool!EpollWait \/ Pool!AcceptFails \/ Pool!Enqueue
               \/ Pool!SetExitFlag \/ Pool!JoinWorkers
            /\ UNCHANGED <<putsVars, waiting, peer>>

\* Connections the server closes before any worker has seen them; what they sent is lost.
Refuse(dropped) ==
    /\ link' = [c \in Sessions |-> IF c \in dropped THEN "broken" ELSE link[c]]
    /\ c2s' = [c \in Sessions |-> IF c \in dropped THEN <<>> ELSE c2s[c]]
    /\ spc' = [c \in Sessions |-> IF c \in dropped THEN "gone" ELSE spc[c]]
    /\ UNCHANGED <<file, s2c, clientVars, total, woff, shouldClose, bounds>>

\* close(listen_fd) resets whoever is in the backlog.
BeginShutdown == /\ Pool!BeginShutdown
                 /\ Refuse({waiting[i] : i \in 1..Len(waiting)})
                 /\ waiting' = <<>>
                 /\ UNCHANGED peer

PeersOf(fds) == {peer[fd] : fd \in fds}

\* shutdown() on every connection in service: both directions are dead at once.
ShutdownActiveFds ==
    /\ Pool!ShutdownActiveFds
    /\ LET reached == PeersOf({fd \in Fds : Pool!Registered(fd)})
       IN  link' = [c \in Sessions |-> IF c \in reached THEN "broken" ELSE link[c]]
    /\ UNCHANGED <<file, c2s, s2c, clientVars, spc, total, woff, shouldClose, bounds, waiting, peer>>

\* Fault: the descriptors of the queue are forgotten, not closed.
DrainPendingFdsForgets == /\ Pool!DrainPendingFdsLeaks
                          /\ UNCHANGED <<putsVars, waiting, peer>>

\* Clients in the queue lose their connection too.
DrainPendingFds ==
    /\ Pool!DrainPendingFds
    /\ Refuse(PeersOf({fd \in Fds : Pool!InQueue(fd)}))
    /\ peer' = [fd \in Fds |-> IF Pool!InQueue(fd) THEN NoClient ELSE peer[fd]]
    /\ UNCHANGED waiting

--------------------------------------------------------------------------------
(* The workers. *)

PoolStep(w) == /\ \/ Pool!Wait(w) \/ Pool!Exit(w) \/ Pool!TakeClient(w)
                  \/ Pool!UnregisterActiveFd(w)
               /\ UNCHANGED <<putsVars, waiting, peer>>

SpuriousWakeup(w) == Pool!SpuriousWakeup(w) /\ UNCHANGED <<putsVars, waiting, peer>>

\* One step of handle_request for the connection the worker has taken.
HandlerStep(w) == /\ pc[w] = "serving"
                  /\ LET c == peer[clientFd[w]]
                     IN  Puts!Worker(c) /\ spc'[c] # "closing"
                  /\ UNCHANGED <<poolVars, waiting, peer>>

\* Its last one: handle_request returns to thread_func, the connection is still open.
HandlerReturns(w) == /\ Pool!HandleRequestReturns(w)
                     /\ LET c == peer[clientFd[w]]
                        IN  Puts!Worker(c) /\ spc'[c] = "closing"
                     /\ UNCHANGED <<waiting, peer>>

CloseClientFd(w) == /\ Pool!CloseClientFd(w)
                    /\ Puts!CloseClientFd(peer[clientFd[w]])
                    /\ peer' = [peer EXCEPT ![clientFd[w]] = NoClient]
                    /\ UNCHANGED waiting

--------------------------------------------------------------------------------
MainThread == \/ \E fd \in Fds : Accept(fd)
              \/ LoopStep
              \/ BeginShutdown
              \/ ShutdownActiveFds
              \/ DrainPendingFds

Handler(w) == HandlerStep(w) \/ HandlerReturns(w)

Next == \/ MainThread
        \/ \E w \in Pool!Workers : PoolStep(w) \/ CloseClientFd(w) \/ SpuriousWakeup(w) \/ Handler(w)
        \/ \E c \in Sessions : ClientConnects(c) \/ ClientLeaves(c) \/ StartPuts(c) \/ ClientStep(c)
        \/ HandleSigint
        \/ mainPc = "returned" /\ UNCHANGED vars

Spec == Init /\ [][Next]_vars

\* Threads and client programs run; users, the operator and the network need not act.
\* Nothing is assumed about when handle_request returns.
FairSpec == /\ Spec
            /\ WF_vars(MainThread)
            /\ \A w \in Pool!Workers : WF_vars(PoolStep(w) \/ CloseClientFd(w)) /\ WF_vars(Handler(w))
            /\ \A c \in Sessions : WF_vars(ClientStep(c))

--------------------------------------------------------------------------------
(* Properties. *)

\* A session that is not over waits in the backlog, or belongs to one descriptor, which
\* is on its way to the queue, in it, or with one worker; what a handler has begun, or has
\* finished but not closed, is in the hands of such a worker.  No session is dropped half
\* way, run by two threads or forgotten with its connection open.
SessionInOnePlace ==
    \A c \in Sessions : spc[c] # "gone" =>
        LET inBacklog == {i \in 1..Len(waiting) : waiting[i] = c}
            itsFds    == {fd \in Fds : peer[fd] = c}
        IN  \/ spc[c] = "idle" /\ Cardinality(inBacklog) = 1 /\ itsFds = {}
            \/ /\ inBacklog = {}
               /\ \E fd \in Fds :
                    /\ itsFds = {fd} /\ sock[fd] # "free"
                    /\ link[c] = "up" => sock[fd] = "up"
                    /\ LET keepers == {w \in Pool!Workers : clientFd[w] = fd}
                       IN  \/ spc[c] = "idle" /\ (connFd = fd \/ Pool!InQueue(fd)) /\ keepers = {}
                           \/ /\ \E w \in keepers : keepers = {w} /\ (pc[w] = "serving" <=> spc[c] # "closing")
                              /\ connFd # fd /\ ~Pool!InQueue(fd)

\* An orderly stop, unlike a kill, leaves true resume points: when main returns after
\* SIGINT every interrupted upload has been cut to what was received, although its
\* connection was shut down under it and the file had its final size.
StopKeepsResumePoint ==
    mainPc = "returned" => /\ \A i \in 1..Len(file) : file[i] # Hole
                           /\ \A c \in Sessions : spc[c] = "gone"

\* After SIGINT no client waits for ever: neither those in service nor those that were
\* still in the queue or in the backlog, to whom nobody has ever answered.
StopEndsPuts ==
    (pipe > 0 /\ mainPc = "epoll") ~> \A c \in Sessions : cpc[c] \in {"idle", "down"}

\* The composed server is a behaviour of ThreadPool with all its fairness: that a
\* session on a dead connection ends, which ThreadPool assumes, follows from the
\* handlers; whatever ThreadPool shows under that assumption holds here.
ImplementsPool == Pool!FairSpec
================================================================================
