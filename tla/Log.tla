---------------------------------- MODULE Log ----------------------------------
(***************************************************************************)
(* The log of the server over its whole life: config.c reads what it shall *)
(* be, log.c writes it for the main thread and the workers, server.c opens *)
(* it before there are workers and closes it when they have been joined.   *)
(*                                                                         *)
(* A call of log_write is a message; time stamp, place and text of the     *)
(* line are left out.  A line fits the buffer of its stream, so it reaches *)
(* the file when the buffer is flushed and not before.  stdio locks a      *)
(* stream for one fprintf or one fflush, so these are atomic.              *)
(***************************************************************************)
EXTENDS Naturals, Sequences, SequencesExt

CONSTANTS
    Workers,    \* the threads of the pool
    Main,       \* the thread of main
    Configs,    \* what config.ini may hold: its lines, or NoFile
    NoFile,     \* config.ini cannot be opened
    Writable,   \* names of log files that can be opened
    UpperCase(_), \* a word in capital letters: what strcasecmp compares
    MaxCalls    \* bound: messages of each thread while the server runs

\* A line is cut at its "=" by strtok: the pieces that are not empty.
ASSUME LogAssumption ==
    /\ \A config \in Configs \ {NoFile} : config \in Seq(Seq(STRING))
    /\ Main \notin Workers /\ {"free", "destroyed"} \cap (Workers \cup {Main}) = {}
    /\ MaxCalls \in Nat

VARIABLES
    config,        \* config.ini
    mainPc,        \* where main is
    value,         \* its log_level and log_file
    level, stream, \* g_log_level, g_log_fp
    mutex,         \* g_log_mutex: "free", "destroyed" or who holds it
    fileOpen,      \* the log file is open
    buffer, out,   \* of each stream: what is buffered, what has been written
    pc, msg, fp,   \* of each thread in log_write: where it is, what it writes, its fp
    calls,         \* messages each thread has had for the log
    workers,       \* the threads of the pool that have started and not finished
    exitFlag,      \* pool.exitFlag
    alive,         \* nobody has killed the process
    returned       \* history: messages whose log_write has returned

configVars == <<config, value>>
logVars    == <<level, stream, mutex, fileOpen, buffer, out>>
callVars   == <<pc, msg, fp, calls>>
poolVars   == <<workers, exitFlag>>
vars       == <<configVars, mainPc, logVars, callVars, poolVars, alive, returned>>

Threads == Workers \cup {Main}
Streams == {"stdout", "file"}
DEBUG == 0
INFO  == 1
WARN  == 2
ERROR == 3
Levels == DEBUG..ERROR

--------------------------------------------------------------------------------
(* Configuration. *)

NotFound == "not found"

\* get_target: the first line with this key and a value decides.
GetTarget(key) ==
    LET hits == IF config = NoFile THEN <<>>
                ELSE SelectSeq(config, LAMBDA line : Len(line) >= 2 /\ line[1] = key)
    IN  IF hits = <<>> THEN NotFound ELSE Head(hits)[2]

ValueOrDefault(key, default) == IF GetTarget(key) = NotFound THEN default ELSE GetTarget(key)

\* A word that is no level means INFO.
LevelToInt(word) == CASE UpperCase(word) = "DEBUG" -> DEBUG
                      [] UpperCase(word) = "WARN"  -> WARN
                      [] UpperCase(word) = "ERROR" -> ERROR
                      [] OTHER                     -> INFO

--------------------------------------------------------------------------------
Init == /\ config \in Configs
        /\ mainPc = "readLevel"
        /\ value = [level |-> "", file |-> ""]
        /\ level = INFO /\ stream = "none" /\ mutex = "free" /\ fileOpen = FALSE
        /\ buffer = [s \in Streams |-> <<>>] /\ out = [s \in Streams |-> <<>>]
        /\ pc = [t \in Threads |-> "out"]
        /\ msg = [t \in Threads |-> <<>>]
        /\ fp = [t \in Threads |-> "none"]
        /\ calls = [t \in Threads |-> 0]
        /\ workers = {} /\ exitFlag = FALSE
        /\ alive = TRUE
        /\ returned = {}

(* log_write. *)

\* A message below g_log_level is dropped before the lock.
Call(t, l) == /\ pc[t] = "out" /\ alive
              /\ calls' = [calls EXCEPT ![t] = @ + 1]
              /\ IF l < level
                 THEN UNCHANGED <<pc, msg>>
                 ELSE /\ pc' = [pc EXCEPT ![t] = "lock"]
                      /\ msg' = [msg EXCEPT ![t] = <<t, calls[t]>>]
              /\ UNCHANGED <<logVars, fp, alive, returned>>

Lock(t) == /\ pc[t] = "lock" /\ alive
           /\ mutex \in {"free", "destroyed"}
           /\ mutex' = t
           /\ fp' = [fp EXCEPT ![t] = IF stream = "none" THEN "stdout" ELSE stream]
           /\ pc' = [pc EXCEPT ![t] = "print"]
           /\ UNCHANGED <<configVars, mainPc, level, stream, fileOpen, buffer, out, msg, calls, poolVars, alive, returned>>

WriteLine(t) == /\ pc[t] = "print" /\ alive
                /\ buffer' = [buffer EXCEPT ![fp[t]] = Append(@, msg[t])]
                /\ pc' = [pc EXCEPT ![t] = "flush"]
                /\ UNCHANGED <<configVars, mainPc, level, stream, mutex, fileOpen, out, msg, fp, calls, poolVars, alive, returned>>

Flushed(s) == /\ out' = [out EXCEPT ![s] = @ \o buffer[s]]
              /\ buffer' = [buffer EXCEPT ![s] = <<>>]

\* Fault: no fflush.
FlushNot(t) == /\ pc[t] = "flush" /\ alive
               /\ mutex' = "free"
               /\ pc' = [pc EXCEPT ![t] = "out"]
               /\ returned' = returned \cup {msg[t]}
               /\ UNCHANGED <<configVars, mainPc, level, stream, fileOpen, buffer, out, msg, fp, calls, poolVars, alive>>

\* fflush, unlock, return.
Flush(t) == /\ pc[t] = "flush" /\ alive
            /\ Flushed(fp[t])
            /\ mutex' = "free"
            /\ pc' = [pc EXCEPT ![t] = "out"]
            /\ returned' = returned \cup {msg[t]}
            /\ UNCHANGED <<configVars, mainPc, level, stream, fileOpen, msg, fp, calls, poolVars, alive>>

--------------------------------------------------------------------------------
(* main: start-up. *)

MainAt(here) == mainPc = here /\ pc[Main] = "out" /\ alive

\* load_value_or_default: get_target itself writes one message, to stdout.
ReadLevel == /\ MainAt("readLevel")
             /\ value' = [value EXCEPT !.level = ValueOrDefault("log", "INFO")]
             /\ Call(Main, IF GetTarget("log") = NotFound THEN WARN ELSE INFO)
             /\ mainPc' = "readFile"
             /\ UNCHANGED <<config, poolVars>>

ReadFile == /\ MainAt("readFile")
            /\ value' = [value EXCEPT !.file = ValueOrDefault("server_log", "../log/server.log")]
            /\ Call(Main, IF GetTarget("server_log") = NotFound THEN WARN ELSE INFO)
            /\ mainPc' = "initLog"
            /\ UNCHANGED <<config, poolVars>>

\* init_log: the level, and the file or else stdout.
InitLog == /\ MainAt("initLog") /\ mutex = "free"
           /\ level' = LevelToInt(value.level)
           /\ fileOpen' = (value.file \in Writable)
           /\ stream' = IF fileOpen' THEN "file" ELSE "stdout"
           /\ mainPc' = "start"
           /\ UNCHANGED <<configVars, mutex, buffer, out, callVars, poolVars, alive, returned>>

\* init_thread_pool, and "server started".
Start == /\ MainAt("start")
         /\ workers' = Workers
         /\ Call(Main, INFO)
         /\ mainPc' = "serve"
         /\ UNCHANGED <<configVars, exitFlag>>

(* The server runs. *)

\* accept, and what the loop has to report; three messages came before.
Accept(l) == /\ MainAt("serve")
             /\ calls[Main] < MaxCalls + 3
             /\ Call(Main, l)
             /\ UNCHANGED <<configVars, mainPc, poolVars>>

WorkerLogs(t, l) == /\ t \in workers /\ calls[t] < MaxCalls
                    /\ Call(t, l)
                    /\ UNCHANGED <<configVars, mainPc, poolVars>>

WorkerEnds(t) == /\ t \in workers /\ pc[t] = "out" /\ exitFlag /\ alive
                 /\ workers' = workers \ {t}
                 /\ UNCHANGED <<configVars, mainPc, logVars, callVars, exitFlag, alive, returned>>

(* main: shutdown. *)

Shutdown == /\ MainAt("serve")
            /\ Call(Main, INFO)
            /\ mainPc' = "stop"
            /\ UNCHANGED <<configVars, poolVars>>

StopPool == /\ MainAt("stop")
            /\ exitFlag' = TRUE
            /\ mainPc' = "stopFds"
            /\ UNCHANGED <<configVars, logVars, callVars, workers, alive, returned>>

\* shutdown_active_fds and drain_pending_fds report each connection, under the pool's lock.
StopFd == /\ MainAt("stopFds")
          /\ calls[Main] < MaxCalls + 5
          /\ Call(Main, INFO)
          /\ UNCHANGED <<configVars, mainPc, poolVars>>

FdsStopped == /\ MainAt("stopFds")
              /\ mainPc' = "join"
              /\ UNCHANGED <<configVars, logVars, callVars, poolVars, alive, returned>>

\* Fault: only idle threads are waited for.
JoinWorkersIdle == /\ MainAt("join")
                   /\ \E t \in Workers : t \notin workers
                   /\ mainPc' = "closeLog"
                   /\ UNCHANGED <<configVars, logVars, callVars, poolVars, alive, returned>>

JoinWorkers == /\ MainAt("join") /\ workers = {}
               /\ mainPc' = "closeLog"
               /\ UNCHANGED <<configVars, logVars, callVars, poolVars, alive, returned>>

\* close_log: fclose flushes; stdout is only left to itself.
CloseLog == /\ MainAt("closeLog") /\ mutex = "free"
            /\ IF stream = "file" THEN Flushed("file") ELSE UNCHANGED <<buffer, out>>
            /\ fileOpen' = FALSE
            /\ stream' = "stdout"
            /\ mainPc' = "destroy"
            /\ UNCHANGED <<configVars, level, mutex, callVars, poolVars, alive, returned>>

DestroyMutex == /\ MainAt("destroy")
                /\ mutex' = "destroyed"
                /\ mainPc' = "exited"
                /\ UNCHANGED <<configVars, level, stream, fileOpen, buffer, out, callVars, poolVars, alive, returned>>

\* The process is killed; what is in a buffer is lost.
Crash == /\ alive /\ mainPc # "exited"
         /\ alive' = FALSE
         /\ buffer' = [s \in Streams |-> <<>>]
         /\ UNCHANGED <<configVars, mainPc, level, stream, mutex, fileOpen, out, callVars, poolVars, returned>>

--------------------------------------------------------------------------------
LogWrite(t) == Lock(t) \/ WriteLine(t) \/ Flush(t)

Next == \/ \E t \in Threads : LogWrite(t)
        \/ \E l \in Levels : Accept(l) \/ \E t \in Workers : WorkerLogs(t, l)
        \/ \E t \in Workers : WorkerEnds(t)
        \/ ReadLevel \/ ReadFile \/ InitLog \/ Start
        \/ Shutdown \/ StopPool \/ StopFd \/ FdsStopped \/ JoinWorkers \/ CloseLog \/ DestroyMutex
        \/ Crash

Spec == Init /\ [][Next]_vars

--------------------------------------------------------------------------------
(* Properties. *)

\* main closes the log only when nobody uses it any more: no thread writes to a closed
\* file or is on its way to a mutex that has been destroyed.
LogOutlivesThreads ==
    /\ \A t \in Threads : pc[t] \in {"print", "flush"} /\ fp[t] = "file" => fileOpen
    /\ mutex = "destroyed" => \A t \in Threads : pc[t] = "out"

Written == out["stdout"] \o out["file"]

\* A message whose log_write has returned survives a crash, whatever config.ini says and
\* whether the file could be opened; it is written once, and the messages of one thread
\* are written in the order of their calls.
ReturnedIsKept ==
    /\ \A m \in returned : m \in Range(Written)
    /\ \A i, j \in 1..Len(Written) :
          i < j /\ Written[i][1] = Written[j][1] => Written[i][2] < Written[j][2]
================================================================================
