-------------------------------- MODULE Upload ---------------------------------
(***************************************************************************)
(* puts with its resume point: handle_puts of client_command_handle.c and  *)
(* handle_puts of handle.c, for several sessions that upload to one name.  *)
(*                                                                         *)
(* A file is a sequence of blocks of FILE_BLOCK_SIZE bytes, which is also  *)
(* the page of the mapping.  A block is <<v, i>>, the i-th block of the    *)
(* local file v, or Hole, the zeros ftruncate makes.  One packet carries   *)
(* one block.  Every system call on the shared file is a step of its own,  *)
(* so workers interleave between them.                                     *)
(*                                                                         *)
(* Faults names the mishaps that may happen besides broken connections,    *)
(* departing clients and local read errors, which always may:              *)
(*   "crash"      the server process is killed                             *)
(*   "fstat"      fstat fails                                              *)
(*   "ftruncate"  ftruncate to the final or to the received size fails     *)
(*   "mmap"       mmap fails                                               *)
(*   "overlap"    an upload starts while another of the same name runs     *)
(***************************************************************************)
EXTENDS Naturals, Sequences

CONSTANTS
    Sessions,     \* connection slots, each a client and the worker that serves it
    Versions,     \* local files that are uploaded under the one name
    Size,         \* Size[v]: blocks of local file v
    Hole,         \* a block of zeros nobody sent
    Faults,       \* which mishaps may happen
    MaxConnects,  \* bound: connections made in one run
    MaxPuts,      \* bound: puts commands given in one run
    MaxBreaks     \* bound: connections the network breaks

ASSUME UploadAssumption ==
    /\ Size \in [Versions -> Nat]
    /\ Hole \notin Versions \X Nat
    /\ Faults \subseteq {"crash", "fstat", "ftruncate", "mmap", "overlap"}
    /\ MaxConnects \in Nat /\ MaxPuts \in Nat /\ MaxBreaks \in Nat

VARIABLES
    file,        \* the file in SERVER_BASE_DIR, the empty sequence if there is none
    link,        \* each connection: "up" or "broken"
    c2s, s2c,    \* packets in flight, each direction first in first out
    cpc,         \* where each client is
    source,      \* the local file it uploads
    cpos,        \* its resume_offset
    outcome,     \* what its last puts told the user: "none", "done" or "failed"
    spc,         \* where each worker is
    total,       \* its total_size
    woff,        \* its write_offset
    shouldClose, \* its session->should_close
    connects, puts, breaks, \* how often each bounded thing has happened
    abandoned    \* history, for BlocksInPlace: a worker has gone back to handle_request
                 \* although its client had been told to send

netVars    == <<link, c2s, s2c>>
clientVars == <<cpc, source, cpos, outcome>>
serverVars == <<spc, total, woff, shouldClose>>
counters   == <<connects, puts, breaks>>
bounds     == <<counters, abandoned>>
vars       == <<file, netVars, clientVars, serverVars, bounds>>

ClientPcs == {"down", "idle", "waitResp", "sending", "waitReply"}
ServerPcs == {"gone", "idle", "stat", "reset", "respond", "extend", "recv", "truncate", "ack", "error",
              "closing"}

Sizes   == {Size[v] : v \in Versions}
Block(v, i) == <<v, i>>
Blocks  == {Hole} \cup UNION {{Block(v, i) : i \in 1..Size[v]} : v \in Versions}
Packets == [type : {"PUTS_REQ"}, size : Sizes]
               \cup [type : {"PUTS_RESP"}, offset : UNION {0..n : n \in Sizes}]
               \cup [type : {"FILE_DATA"}, block : Blocks]
               \cup [type : {"FILE_END", "ACK", "ERROR"}]

\* ftruncate to n blocks.
Resize(f, n) == [i \in 1..n |-> IF i <= Len(f) THEN f[i] ELSE Hole]

Init == /\ file = <<>>
        /\ link = [s \in Sessions |-> "broken"]
        /\ c2s = [s \in Sessions |-> <<>>]
        /\ s2c = [s \in Sessions |-> <<>>]
        /\ cpc = [s \in Sessions |-> "down"]
        /\ source \in [Sessions -> Versions]
        /\ cpos = [s \in Sessions |-> 0]
        /\ outcome = [s \in Sessions |-> "none"]
        /\ spc = [s \in Sessions |-> "gone"]
        /\ total = [s \in Sessions |-> 0]
        /\ woff = [s \in Sessions |-> 0]
        /\ shouldClose = [s \in Sessions |-> FALSE]
        /\ connects = 0 /\ puts = 0 /\ breaks = 0
        /\ abandoned = FALSE

\* What is sent into a broken connection reaches nobody.
ToServer(s, p) == c2s' = IF link[s] = "up" THEN [c2s EXCEPT ![s] = Append(@, p)] ELSE c2s
ToClient(s, p) == s2c' = IF link[s] = "up" THEN [s2c EXCEPT ![s] = Append(@, p)] ELSE s2c

ServerGets(s, type) == c2s[s] # <<>> /\ Head(c2s[s]).type = type
ClientGets(s, type) == s2c[s] # <<>> /\ Head(s2c[s]).type = type
PopServer(s) == c2s' = [c2s EXCEPT ![s] = Tail(@)]
PopClient(s) == s2c' = [s2c EXCEPT ![s] = Tail(@)]

--------------------------------------------------------------------------------
(* The client. *)

Connect(s) == /\ cpc[s] = "down" /\ spc[s] = "gone"
              /\ connects < MaxConnects
              /\ connects' = connects + 1
              /\ link' = [link EXCEPT ![s] = "up"]
              /\ c2s' = [c2s EXCEPT ![s] = <<>>]
              /\ s2c' = [s2c EXCEPT ![s] = <<>>]
              /\ cpc' = [cpc EXCEPT ![s] = "idle"]
              /\ spc' = [spc EXCEPT ![s] = "idle"]
              /\ shouldClose' = [shouldClose EXCEPT ![s] = FALSE]
              /\ UNCHANGED <<file, source, cpos, outcome, total, woff, puts, breaks, abandoned>>

\* Someone is in the middle of an upload in this session, or a worker is about to be.
Uploading(s) == cpc[s] \notin {"down", "idle"} \/ spc[s] \notin {"gone", "idle", "closing"} \/ c2s[s] # <<>>

\* A puts command: open, fstat, PUTS_REQ.  The client learns later that its connection is
\* dead, and may still find old packets in it.
StartPuts(s, v) ==
    /\ cpc[s] = "idle"
    /\ puts < MaxPuts
    /\ "overlap" \in Faults \/ \A t \in Sessions \ {s} : ~Uploading(t)
    /\ puts' = puts + 1
    /\ ToServer(s, [type |-> "PUTS_REQ", size |-> Size[v]])
    /\ source' = [source EXCEPT ![s] = v]
    /\ outcome' = [outcome EXCEPT ![s] = "none"]
    /\ cpc' = [cpc EXCEPT ![s] = "waitResp"]
    /\ UNCHANGED <<file, link, s2c, cpos, serverVars, connects, breaks, abandoned>>

\* handle_puts returns: the command loop goes on whatever the result.
Return(s, result) == /\ cpc' = [cpc EXCEPT ![s] = "idle"]
                     /\ outcome' = [outcome EXCEPT ![s] = result]
                     /\ UNCHANGED <<file, link, source, cpos, serverVars, bounds>>

\* Fault: the resume point of the server is ignored.
RecvPutsRespFromStart(s) ==
    /\ cpc[s] = "waitResp" /\ ClientGets(s, "PUTS_RESP")
    /\ cpos' = [cpos EXCEPT ![s] = 0]
    /\ PopClient(s)
    /\ cpc' = [cpc EXCEPT ![s] = "sending"]
    /\ UNCHANGED <<file, link, c2s, source, outcome, serverVars, bounds>>

RecvPutsResp(s) ==
    /\ cpc[s] = "waitResp" /\ ClientGets(s, "PUTS_RESP")
    /\ LET offset == Head(s2c[s]).offset
       IN  cpos' = [cpos EXCEPT ![s] = IF offset > Size[source[s]] THEN 0 ELSE offset]
    /\ PopClient(s)
    /\ cpc' = [cpc EXCEPT ![s] = "sending"]
    /\ UNCHANGED <<file, link, c2s, source, outcome, serverVars, bounds>>

\* CMD_ERROR, or a packet that is no answer to PUTS_REQ.
RecvRefusal(s) == /\ cpc[s] = "waitResp" /\ s2c[s] # <<>> /\ ~ClientGets(s, "PUTS_RESP")
                  /\ PopClient(s)
                  /\ Return(s, "failed")
                  /\ UNCHANGED c2s

\* Fault: the block before the one at the read position is sent.
SendFileDataOffByOne(s) ==
    /\ cpc[s] = "sending" /\ cpos[s] < Size[source[s]]
    /\ ToServer(s, [type |-> "FILE_DATA", block |-> Block(source[s], cpos[s])])
    /\ cpos' = [cpos EXCEPT ![s] = @ + 1]
    /\ UNCHANGED <<file, link, s2c, cpc, source, outcome, serverVars, bounds>>

SendFileData(s) == /\ cpc[s] = "sending" /\ cpos[s] < Size[source[s]]
                   /\ ToServer(s, [type |-> "FILE_DATA", block |-> Block(source[s], cpos[s] + 1)])
                   /\ cpos' = [cpos EXCEPT ![s] = @ + 1]
                   /\ UNCHANGED <<file, link, s2c, cpc, source, outcome, serverVars, bounds>>

\* read has nothing more: all is sent, or somebody has cut the local file short.
SendFileEnd(s) == /\ cpc[s] = "sending"
                  /\ ToServer(s, [type |-> "FILE_END"])
                  /\ cpc' = [cpc EXCEPT ![s] = "waitReply"]
                  /\ UNCHANGED <<file, link, s2c, source, cpos, outcome, serverVars, bounds>>

\* read returns -1: no FILE_END, the worker goes on waiting for the next block.
LocalReadFails(s) == /\ cpc[s] = "sending" /\ cpos[s] < Size[source[s]]
                     /\ Return(s, "failed")
                     /\ UNCHANGED <<c2s, s2c>>

\* recv_text_response returns 0 for ACK and for ERROR, and handle_puts reports success.
RecvReply(s) == /\ cpc[s] = "waitReply" /\ s2c[s] # <<>>
                /\ PopClient(s)
                /\ Return(s, IF ClientGets(s, "ACK") \/ ClientGets(s, "ERROR") THEN "done" ELSE "failed")
                /\ UNCHANGED c2s

\* A send or a recv of the client fails on a broken connection.
ClientIoFails(s) == /\ cpc[s] \in {"waitResp", "sending", "waitReply"} /\ link[s] = "broken"
                    /\ Return(s, "failed")
                    /\ UNCHANGED <<c2s, s2c>>

\* The user quits, or kills the client in the middle of a command.
Leave(s) == /\ cpc[s] # "down"
            /\ cpc' = [cpc EXCEPT ![s] = "down"]
            /\ link' = [link EXCEPT ![s] = "broken"]
            /\ UNCHANGED <<file, c2s, s2c, source, cpos, outcome, serverVars, bounds>>

LinkBreaks(s) == /\ link[s] = "up" /\ breaks < MaxBreaks
                 /\ breaks' = breaks + 1
                 /\ link' = [link EXCEPT ![s] = "broken"]
                 /\ UNCHANGED <<file, c2s, s2c, clientVars, serverVars, connects, puts, abandoned>>

--------------------------------------------------------------------------------
(* The worker. *)

\* handle_request returns; what the client sends from now on is read by nobody.
EndRequest(s) == spc' = [spc EXCEPT ![s] = "closing"]

\* thread_func closes the connection.
CloseClientFd(s) == /\ spc[s] = "closing"
                    /\ spc' = [spc EXCEPT ![s] = "gone"]
                    /\ link' = [link EXCEPT ![s] = "broken"]
                    /\ c2s' = [c2s EXCEPT ![s] = <<>>]
                    /\ UNCHANGED <<file, s2c, clientVars, total, woff, shouldClose, bounds>>

\* PUTS_REQ in handle_request: the path is resolved, open(O_RDWR | O_CREAT) succeeds.
RecvPutsReq(s) == /\ spc[s] = "idle" /\ ServerGets(s, "PUTS_REQ")
                  /\ total' = [total EXCEPT ![s] = Head(c2s[s]).size]
                  /\ PopServer(s)
                  /\ spc' = [spc EXCEPT ![s] = "stat"]
                  /\ UNCHANGED <<file, link, s2c, clientVars, woff, shouldClose, bounds>>

\* A malformed request, a path outside, or open fails.
RefusePuts(s) == /\ spc[s] = "idle" /\ ServerGets(s, "PUTS_REQ")
                 /\ PopServer(s)
                 /\ spc' = [spc EXCEPT ![s] = "error"]
                 /\ UNCHANGED <<file, link, s2c, clientVars, total, woff, shouldClose, bounds>>

\* Any other packet there: unknown command.
RecvUnknown(s) == /\ spc[s] = "idle" /\ c2s[s] # <<>> /\ ~ServerGets(s, "PUTS_REQ")
                  /\ PopServer(s)
                  /\ shouldClose' = [shouldClose EXCEPT ![s] = TRUE]
                  /\ spc' = [spc EXCEPT ![s] = "error"]
                  /\ UNCHANGED <<file, link, s2c, clientVars, total, woff, bounds>>

\* recv_packet fails in handle_request.
SessionEnds(s) == /\ spc[s] = "idle" /\ link[s] = "broken"
                  /\ EndRequest(s)
                  /\ UNCHANGED <<file, netVars, clientVars, total, woff, shouldClose, bounds>>

\* fstat: the size of the file is the resume point.
StatResumePoint(s) ==
    /\ spc[s] = "stat"
    /\ woff' = [woff EXCEPT ![s] = Len(file)]
    /\ spc' = [spc EXCEPT ![s] = IF Len(file) > total[s] THEN "reset" ELSE "respond"]
    /\ UNCHANGED <<file, netVars, clientVars, total, shouldClose, bounds>>

\* fstat fails: the upload starts at 0, over whatever the file holds.
StatFails(s) == /\ "fstat" \in Faults
                /\ spc[s] = "stat"
                /\ woff' = [woff EXCEPT ![s] = 0]
                /\ spc' = [spc EXCEPT ![s] = "respond"]
                /\ UNCHANGED <<file, netVars, clientVars, total, shouldClose, bounds>>

\* A file larger than the upload is emptied.
ResetLarger(s) == /\ spc[s] = "reset"
                  /\ file' = <<>>
                  /\ woff' = [woff EXCEPT ![s] = 0]
                  /\ spc' = [spc EXCEPT ![s] = "respond"]
                  /\ UNCHANGED <<netVars, clientVars, total, shouldClose, bounds>>

\* ftruncate to 0 fails.
ResetFails(s) == /\ spc[s] = "reset"
                 /\ spc' = [spc EXCEPT ![s] = "error"]
                 /\ UNCHANGED <<file, netVars, clientVars, total, woff, shouldClose, bounds>>

SendPutsResp(s) == /\ spc[s] = "respond"
                   /\ ToClient(s, [type |-> "PUTS_RESP", offset |-> woff[s]])
                   /\ spc' = [spc EXCEPT ![s] = IF total[s] > 0 THEN "extend" ELSE "recv"]
                   /\ UNCHANGED <<file, link, c2s, clientVars, total, woff, shouldClose, bounds>>

\* A send of the worker fails: PUTS_RESP, ACK or ERROR.  The session is over.
SendFails(s) == /\ spc[s] \in {"respond", "ack", "error"} /\ link[s] = "broken"
                /\ EndRequest(s)
                /\ UNCHANGED <<file, netVars, clientVars, total, woff, shouldClose, bounds>>

\* Fault: mmap without the ftruncate.
ExtendNot(s) == /\ spc[s] = "extend"
                /\ spc' = [spc EXCEPT ![s] = "recv"]
                /\ UNCHANGED <<file, netVars, clientVars, total, woff, shouldClose, bounds>>

\* ftruncate to the final size, then mmap.
Extend(s) == /\ spc[s] = "extend"
             /\ file' = Resize(file, total[s])
             /\ spc' = [spc EXCEPT ![s] = "recv"]
             /\ UNCHANGED <<netVars, clientVars, total, woff, shouldClose, bounds>>

\* ftruncate fails: the client has its PUTS_RESP and sends, the worker leaves with CMD_ERROR.
ExtendFails(s) == /\ "ftruncate" \in Faults
                  /\ spc[s] = "extend"
                  /\ abandoned' = TRUE
                  /\ spc' = [spc EXCEPT ![s] = "error"]
                  /\ UNCHANGED <<file, netVars, clientVars, total, woff, shouldClose, counters>>

\* The same when mmap fails, but the file has its final size.
MmapFails(s) == /\ "mmap" \in Faults
                /\ spc[s] = "extend"
                /\ file' = Resize(file, total[s])
                /\ abandoned' = TRUE
                /\ spc' = [spc EXCEPT ![s] = "error"]
                /\ UNCHANGED <<netVars, clientVars, total, woff, shouldClose, counters>>

\* memcpy into the mapping; the page must lie inside the file.
RecvFileData(s) == /\ spc[s] = "recv" /\ ServerGets(s, "FILE_DATA")
                   /\ woff[s] + 1 <= total[s] /\ woff[s] + 1 <= Len(file)
                   /\ file' = [file EXCEPT ![woff[s] + 1] = Head(c2s[s]).block]
                   /\ woff' = [woff EXCEPT ![s] = @ + 1]
                   /\ PopServer(s)
                   /\ UNCHANGED <<link, s2c, clientVars, spc, total, shouldClose, bounds>>

\* Fault: FILE_END is success, whatever has arrived.
RecvFileEndIsSuccess(s) == /\ spc[s] = "recv" /\ ServerGets(s, "FILE_END")
                           /\ PopServer(s)
                           /\ spc' = [spc EXCEPT ![s] = "ack"]
                           /\ UNCHANGED <<file, link, s2c, clientVars, total, woff, shouldClose, bounds>>

RecvFileEnd(s) == /\ spc[s] = "recv" /\ ServerGets(s, "FILE_END")
                  /\ PopServer(s)
                  /\ spc' = [spc EXCEPT ![s] = IF woff[s] = total[s] THEN "ack" ELSE "truncate"]
                  /\ UNCHANGED <<file, link, s2c, clientVars, total, woff, shouldClose, bounds>>

\* A packet of another type, or a block too many: should_close, leave the loop.
RecvOutOfPlace(s) == /\ spc[s] = "recv" /\ c2s[s] # <<>> /\ ~ServerGets(s, "FILE_END")
                     /\ ~ServerGets(s, "FILE_DATA") \/ woff[s] + 1 > total[s]
                     /\ PopServer(s)
                     /\ shouldClose' = [shouldClose EXCEPT ![s] = TRUE]
                     /\ spc' = [spc EXCEPT ![s] = "truncate"]
                     /\ UNCHANGED <<file, link, s2c, clientVars, total, woff, bounds>>

\* Fault: a failed recv leaves handle_puts without the truncation.
RecvFailsAtOnce(s) == /\ spc[s] = "recv" /\ link[s] = "broken"
                      /\ shouldClose' = [shouldClose EXCEPT ![s] = TRUE]
                      /\ spc' = [spc EXCEPT ![s] = "error"]
                      /\ UNCHANGED <<file, netVars, clientVars, total, woff, bounds>>

\* Fault: a failed recv is tried again.
RecvFailsRetries(s) == spc[s] = "recv" /\ link[s] = "broken" /\ UNCHANGED vars

\* recv_follow_packet fails.
RecvFails(s) == /\ spc[s] = "recv" /\ link[s] = "broken"
                /\ shouldClose' = [shouldClose EXCEPT ![s] = TRUE]
                /\ spc' = [spc EXCEPT ![s] = "truncate"]
                /\ UNCHANGED <<file, netVars, clientVars, total, woff, bounds>>

\* Fault: the truncation keeps the preallocated size.
TruncateToTotal(s) == /\ spc[s] = "truncate"
                      /\ file' = Resize(file, total[s])
                      /\ spc' = [spc EXCEPT ![s] = "error"]
                      /\ UNCHANGED <<netVars, clientVars, total, woff, shouldClose, bounds>>

\* Fault: the interrupted upload is never answered.
TruncateSilently(s) == /\ spc[s] = "truncate"
                       /\ file' = Resize(file, woff[s])
                       /\ spc' = [spc EXCEPT ![s] = "idle"]
                       /\ UNCHANGED <<netVars, clientVars, total, woff, shouldClose, bounds>>

\* The upload was interrupted: cut the file to what was received.
TruncateToReceived(s) == /\ spc[s] = "truncate"
                         /\ file' = Resize(file, woff[s])
                         /\ spc' = [spc EXCEPT ![s] = "error"]
                         /\ UNCHANGED <<netVars, clientVars, total, woff, shouldClose, bounds>>

\* The result of that ftruncate is not looked at.
TruncateFails(s) == /\ "ftruncate" \in Faults
                    /\ spc[s] = "truncate"
                    /\ spc' = [spc EXCEPT ![s] = "error"]
                    /\ UNCHANGED <<file, netVars, clientVars, total, woff, shouldClose, bounds>>

SendAck(s) == /\ spc[s] = "ack"
              /\ ToClient(s, [type |-> "ACK"])
              /\ spc' = [spc EXCEPT ![s] = "idle"]
              /\ UNCHANGED <<file, link, c2s, clientVars, total, woff, shouldClose, bounds>>

SendError(s) == /\ spc[s] = "error"
                /\ ToClient(s, [type |-> "ERROR"])
                /\ IF shouldClose[s] THEN EndRequest(s) ELSE spc' = [spc EXCEPT ![s] = "idle"]
                /\ UNCHANGED <<file, link, c2s, clientVars, total, woff, shouldClose, bounds>>

\* The whole process ends: every session with it, the file stays as it is.
ServerDies == /\ spc' = [s \in Sessions |-> "gone"]
              /\ link' = [s \in Sessions |-> "broken"]
              /\ c2s' = [s \in Sessions |-> <<>>]
              /\ UNCHANGED <<file, s2c, clientVars, total, woff, shouldClose, bounds>>

ServerCrash == /\ "crash" \in Faults
               /\ \E s \in Sessions : spc[s] # "gone"
               /\ ServerDies

\* A store to a mapped page beyond the end of the file raises SIGBUS.
Sigbus(s) == /\ spc[s] = "recv" /\ ServerGets(s, "FILE_DATA")
             /\ woff[s] + 1 <= total[s] /\ woff[s] + 1 > Len(file)
             /\ ServerDies

--------------------------------------------------------------------------------
ClientStep(s) == \/ RecvPutsResp(s)
                 \/ RecvRefusal(s)
                 \/ SendFileData(s)
                 \/ SendFileEnd(s)
                 \/ LocalReadFails(s)
                 \/ RecvReply(s)
                 \/ ClientIoFails(s)

User(s) == \/ Connect(s)
           \/ \E v \in Versions : StartPuts(s, v)
           \/ Leave(s)

Worker(s) == \/ RecvPutsReq(s)
             \/ RefusePuts(s)
             \/ RecvUnknown(s)
             \/ SessionEnds(s)
             \/ StatResumePoint(s)
             \/ StatFails(s)
             \/ ResetLarger(s)
             \/ ResetFails(s)
             \/ SendPutsResp(s)
             \/ SendFails(s)
             \/ Extend(s)
             \/ ExtendFails(s)
             \/ MmapFails(s)
             \/ RecvFileData(s)
             \/ RecvFileEnd(s)
             \/ RecvOutOfPlace(s)
             \/ RecvFails(s)
             \/ TruncateToReceived(s)
             \/ TruncateFails(s)
             \/ SendAck(s)
             \/ SendError(s)
             \/ CloseClientFd(s)
             \/ Sigbus(s)

Next == \/ \E s \in Sessions : ClientStep(s) \/ User(s) \/ Worker(s) \/ LinkBreaks(s)
        \/ ServerCrash

Spec == Init /\ [][Next]_vars

\* Clients and workers that can go on do; users, breaks and crashes just happen.
FairSpec == Spec /\ \A s \in Sessions : WF_vars(ClientStep(s)) /\ WF_vars(Worker(s))

--------------------------------------------------------------------------------
(* Properties. *)

TypeOK == /\ file \in Seq(Blocks)
          /\ link \in [Sessions -> {"up", "broken"}]
          /\ c2s \in [Sessions -> Seq(Packets)] /\ s2c \in [Sessions -> Seq(Packets)]
          /\ cpc \in [Sessions -> ClientPcs]
          /\ source \in [Sessions -> Versions]
          /\ cpos \in [Sessions -> Nat]
          /\ outcome \in [Sessions -> {"none", "done", "failed"}]
          /\ spc \in [Sessions -> ServerPcs]
          /\ total \in [Sessions -> Nat] /\ woff \in [Sessions -> Nat]
          /\ shouldClose \in [Sessions -> BOOLEAN]
          /\ connects \in 0..MaxConnects /\ puts \in 0..MaxPuts /\ breaks \in 0..MaxBreaks
          /\ abandoned \in BOOLEAN

Received(i) == i <= Len(file) /\ file[i] # Hole

\* The resume point the server hands out counts only blocks it really received:
\* a resumed upload never skips a part of the file that was never sent.
ResumePointIsReal ==
    \A s \in Sessions : spc[s] \in {"respond", "extend", "recv"} => \A i \in 1..woff[s] : Received(i)

\* When the server acknowledges an upload the file has its full size and no holes.
AckedIsWhole ==
    \A s \in Sessions : spc[s] = "ack" => Len(file) = total[s] /\ \A i \in 1..total[s] : Received(i)

\* The zeros ftruncate preallocates exist only above the write_offset of an upload in
\* progress; however it ends, they are gone when its worker is back in handle_request.
HolesOnlyUnderUpload ==
    \A i \in 1..Len(file) : file[i] = Hole =>
        \E s \in Sessions : spc[s] \in {"recv", "truncate"} /\ woff[s] < i

\* Every block lies where it lay in the local file: client and worker count alike,
\* across resumes, broken connections and whatever another session does to the file.
\* (When the ftruncate or the mmap after PUTS_RESP fails the worker is back in
\* handle_request while the client still sends; they may stay out of step by an answer,
\* until a worker takes blocks that were sent for an earlier resume point.)
BlocksInPlace == abandoned \/ \A i \in 1..Len(file) : file[i] # Hole => file[i][2] = i

\* The mapping lies inside the file for as long as the worker writes through it.
MappingInsideFile ==
    \A s \in Sessions : spc[s] = "recv" /\ woff[s] < total[s] => Len(file) >= total[s]

\* The client reports success only for an upload the server has acknowledged.
TruthfulSuccess ==
    [][\A s \in Sessions : outcome'[s] = "done" /\ outcome[s] # "done" => ClientGets(s, "ACK")]_vars

\* Every puts command comes to an end: client and worker never wait for each other.
PutsEnds == \A s \in Sessions :
    cpc[s] \in {"waitResp", "sending", "waitReply"} ~> cpc[s] \in {"idle", "down"}
================================================================================
