------------------------------- MODULE Download --------------------------------
(***************************************************************************)
(* gets with its resume point: handle_gets of client_command_handle.c and  *)
(* handle_gets of handle.c, for one client and the worker that serves it,  *)
(* while other sessions upload to and remove the same name.                *)
(*                                                                         *)
(* An uploading session is module Upload seen from the disk: its open, the *)
(* three ftruncate, the stores of its blocks and every way out of its      *)
(* handle_puts.  A removed file lives on for who has it open, so files are *)
(* inodes and the name is a pointer.  Nothing keeps the sessions apart.    *)
(*                                                                         *)
(* A block is <<v, i>> or Hole, as in Upload; one packet carries one block.*)
(*                                                                         *)
(* Faults names the mishaps that may happen besides broken connections,    *)
(* departing clients and refused requests, which always may:               *)
(*   "crash"      the server process is killed                             *)
(*   "disk"       the client cannot open, position or write its local file *)
(*   "mmap"       mmap fails in an upload                                  *)
(*   "ftruncate"  the second or the third ftruncate of an upload fails     *)
(***************************************************************************)
EXTENDS Naturals, Sequences

CONSTANTS
    Uploaders,   \* the other sessions, each uploading one file at a time
    Versions,    \* files that are uploaded under the one name
    Size,        \* Size[v]: blocks of file v
    Hole,        \* a block of zeros nobody sent
    Inodes,      \* bound: files ever created under the name
    NoInode,     \* the name does not exist
    Faults,      \* which mishaps may happen
    MaxConnects, \* bound: connections made in one run
    MaxCommands, \* bound: commands the user gives
    MaxUploads   \* bound: uploads by the other sessions

ASSUME DownloadAssumption ==
    /\ Versions # {} /\ Size \in [Versions -> Nat]
    /\ Hole \notin Versions \X Nat
    /\ NoInode \notin Inodes
    /\ Faults \subseteq {"crash", "disk", "mmap", "ftruncate"}
    /\ MaxConnects \in Nat /\ MaxCommands \in Nat /\ MaxUploads \in Nat

VARIABLES
    disk,        \* content of each inode
    named,       \* the inode the name stands for
    upload,      \* the upload of each other session: its pc, inode, version, write_offset
    link,        \* the connection: "up" or "broken"
    c2s, s2c,    \* packets in flight, each direction first in first out
    cpc,         \* where the client is
    local,       \* its local file
    serverSize,  \* its server_size, kept when the download was complete
    outcome,     \* "done" if its last gets told the user so, else "none"
    spc,         \* where the worker is
    fd,          \* the inode of its file_fd
    total,       \* its total_size
    soff,        \* its send_offset
    connects, commands, uploads, \* how often each bounded thing has happened
    exposed,     \* history: an upload met a download or another upload of the same file, or
                 \* it ended without taking its preallocated blocks back
    astray       \* history: an upload ended while its client went on sending blocks

diskVars   == <<disk, named, upload>>
netVars    == <<link, c2s, s2c>>
clientVars == <<cpc, local, serverSize, outcome>>
serverVars == <<spc, fd, total, soff>>
counters   == <<connects, commands, uploads>>
history    == <<exposed, astray>>
bounds     == <<counters, history>>
vars       == <<diskVars, netVars, clientVars, serverVars, bounds>>

ClientPcs == {"down", "idle", "waitText", "waitResp", "recv"}
ServerPcs == {"gone", "idle", "respond", "resume", "sending"}
UploadPcs == {"off", "reset", "extend", "write"}

Sizes     == {Size[v] : v \in Versions}
Block(v, i) == <<v, i>>
Blocks    == {Hole} \cup UNION {{Block(v, i) : i \in 1..Size[v]} : v \in Versions}
Requests  == [type : {"GETS_REQ", "PWD"}] \cup [type : {"RESUME_POS"}, offset : Nat]
Responses == [type : {"GETS_RESP"}, size : {0} \cup UNION {1..n : n \in Sizes}]
                 \cup [type : {"FILE_DATA"}, block : Blocks]
                 \cup [type : {"FILE_END", "ACK", "ERROR"}]

UploadRecords == [pc : UploadPcs, inode : Inodes \cup {NoInode}, version : Versions, woff : Nat]
NoUpload == [pc |-> "off", inode |-> NoInode, version |-> CHOOSE v \in Versions : TRUE, woff |-> 0]

\* ftruncate to n blocks.
Resize(f, n) == [i \in 1..n |-> IF i <= Len(f) THEN f[i] ELSE Hole]

Init == /\ disk = [i \in Inodes |-> <<>>]
        /\ named = NoInode
        /\ upload = [u \in Uploaders |-> NoUpload]
        /\ link = "broken"
        /\ c2s = <<>> /\ s2c = <<>>
        /\ cpc = "down"
        /\ local = <<>>
        /\ serverSize = 0
        /\ outcome = "none"
        /\ spc = "gone"
        /\ fd = NoInode
        /\ total = 0
        /\ soff = 0
        /\ connects = 0 /\ commands = 0 /\ uploads = 0
        /\ exposed = FALSE /\ astray = FALSE

\* What is sent into a broken connection reaches nobody.
ToServer(p) == c2s' = IF link = "up" THEN Append(c2s, p) ELSE c2s
ToClient(p) == s2c' = IF link = "up" THEN Append(s2c, p) ELSE s2c

ServerGets(type) == c2s # <<>> /\ Head(c2s).type = type
ClientGets(type) == s2c # <<>> /\ Head(s2c).type = type

Uploading(u) == upload[u].pc # "off"

\* A download is under way, or its request is.
Downloading == \/ cpc \in {"waitResp", "recv"} \/ spc \in {"respond", "resume", "sending"}
               \/ \E j \in 1..Len(c2s) : c2s[j].type # "PWD"

--------------------------------------------------------------------------------
(* The client. *)

Connect == /\ cpc = "down" /\ spc = "gone"
           /\ connects < MaxConnects
           /\ connects' = connects + 1
           /\ link' = "up"
           /\ c2s' = <<>> /\ s2c' = <<>>
           /\ cpc' = "idle"
           /\ spc' = "idle"
           /\ UNCHANGED <<diskVars, local, serverSize, outcome, fd, total, soff, commands, uploads, history>>

\* A gets command, on a dead connection too: what was sent before may still be read.
StartGets == /\ cpc = "idle"
             /\ commands < MaxCommands
             /\ commands' = commands + 1
             /\ ToServer([type |-> "GETS_REQ"])
             /\ cpc' = "waitResp"
             /\ serverSize' = 0
             /\ outcome' = "none"
             /\ exposed' = (exposed \/ \E u \in Uploaders : Uploading(u))
             /\ UNCHANGED <<diskVars, link, s2c, local, serverVars, connects, uploads, astray>>

\* A command without a file stream; pwd stands for all of them.
StartSimple == /\ cpc = "idle"
               /\ commands < MaxCommands
               /\ commands' = commands + 1
               /\ ToServer([type |-> "PWD"])
               /\ cpc' = "waitText"
               /\ UNCHANGED <<diskVars, link, s2c, local, serverSize, outcome, serverVars, connects, uploads, history>>

\* recv_text_response: one packet, whatever it is.
RecvText == /\ cpc = "waitText" /\ s2c # <<>>
            /\ s2c' = Tail(s2c)
            /\ cpc' = "idle"
            /\ UNCHANGED <<diskVars, link, c2s, local, serverSize, outcome, serverVars, bounds>>

\* handle_gets returns: the command loop goes on whatever the result.
Return(result) == /\ cpc' = "idle"
                  /\ outcome' = result
                  /\ serverSize' = IF result = "done" THEN serverSize ELSE 0

\* Fault: a local file larger than the server's is not emptied.
RecvGetsRespKeepsLarger ==
    /\ cpc = "waitResp" /\ ClientGets("GETS_RESP")
    /\ serverSize' = Head(s2c).size
    /\ s2c' = Tail(s2c)
    /\ ToServer([type |-> "RESUME_POS", offset |-> Len(local)])
    /\ cpc' = "recv"
    /\ UNCHANGED <<diskVars, link, local, outcome, serverVars, bounds>>

\* GETS_RESP: open, fstat, empty a local file that is too large, tell the resume point.
RecvGetsResp ==
    /\ cpc = "waitResp" /\ ClientGets("GETS_RESP")
    /\ serverSize' = Head(s2c).size
    /\ local' = IF Len(local) > serverSize' THEN <<>> ELSE local
    /\ s2c' = Tail(s2c)
    /\ ToServer([type |-> "RESUME_POS", offset |-> Len(local')])
    /\ cpc' = "recv"
    /\ UNCHANGED <<diskVars, link, outcome, serverVars, bounds>>

\* open, ftruncate or lseek fails: no RESUME_POS, the worker goes on waiting for it.
LocalOpenFails == /\ "disk" \in Faults
                  /\ cpc = "waitResp" /\ ClientGets("GETS_RESP")
                  /\ s2c' = Tail(s2c)
                  /\ Return("none")
                  /\ UNCHANGED <<diskVars, link, c2s, local, serverVars, bounds>>

\* CMD_ERROR, or a packet that is no answer to GETS_REQ.
RecvRefusal == /\ cpc = "waitResp" /\ s2c # <<>> /\ ~ClientGets("GETS_RESP")
               /\ s2c' = Tail(s2c)
               /\ Return("none")
               /\ UNCHANGED <<diskVars, link, c2s, local, serverVars, bounds>>

RecvFileData == /\ cpc = "recv" /\ ClientGets("FILE_DATA")
                /\ local' = Append(local, Head(s2c).block)
                /\ s2c' = Tail(s2c)
                /\ UNCHANGED <<diskVars, link, c2s, cpc, serverSize, outcome, serverVars, bounds>>

\* write_n fails: the rest of the stream stays in the connection.
LocalWriteFails == /\ "disk" \in Faults
                   /\ cpc = "recv" /\ ClientGets("FILE_DATA")
                   /\ s2c' = Tail(s2c)
                   /\ Return("none")
                   /\ UNCHANGED <<diskVars, link, c2s, local, serverVars, bounds>>

\* FILE_END ends the download; CMD_ERROR and anything else fail it.
RecvEnd == /\ cpc = "recv" /\ s2c # <<>> /\ ~ClientGets("FILE_DATA")
           /\ s2c' = Tail(s2c)
           /\ Return(IF ClientGets("FILE_END") THEN "done" ELSE "none")
           /\ UNCHANGED <<diskVars, link, c2s, local, serverVars, bounds>>

\* A send or a recv of the client fails on a broken connection.
ClientIoFails == /\ cpc \in {"waitText", "waitResp", "recv"} /\ link = "broken"
                 /\ IF cpc = "waitText" THEN cpc' = "idle" /\ UNCHANGED <<serverSize, outcome>>
                    ELSE Return("none")
                 /\ UNCHANGED <<diskVars, netVars, local, serverVars, bounds>>

\* The user quits, or kills the client in the middle of a command.
Leave == /\ cpc # "down"
         /\ cpc' = "down"
         /\ link' = "broken"
         /\ s2c' = <<>>
         /\ serverSize' = 0 /\ outcome' = "none"
         /\ UNCHANGED <<diskVars, c2s, local, serverVars, bounds>>

LinkBreaks == /\ link = "up"
              /\ link' = "broken"
              /\ UNCHANGED <<diskVars, c2s, s2c, clientVars, serverVars, bounds>>

--------------------------------------------------------------------------------
(* The worker. *)

\* handle_gets returns: its file is closed, its variables are gone.
GetsOver == fd' = NoInode /\ total' = 0 /\ soff' = 0

\* handle_request returns and the worker closes the connection; nothing is answered.
CloseSession == /\ spc' = "gone"
                /\ link' = "broken"
                /\ c2s' = <<>>
                /\ GetsOver
                /\ UNCHANGED <<diskVars, s2c, clientVars, bounds>>

\* Fault: the result of open is not looked at.
RecvGetsReqUnchecked ==
    /\ spc = "idle" /\ ServerGets("GETS_REQ")
    /\ c2s' = Tail(c2s)
    /\ fd' = named
    /\ total' = IF named = NoInode THEN total ELSE Len(disk[named])
    /\ spc' = "respond"
    /\ UNCHANGED <<diskVars, link, s2c, clientVars, soff, bounds>>

\* GETS_REQ in handle_request: open and fstat.
RecvGetsReq == /\ spc = "idle" /\ ServerGets("GETS_REQ")
               /\ named # NoInode
               /\ c2s' = Tail(c2s)
               /\ fd' = named
               /\ total' = Len(disk[named])
               /\ spc' = "respond"
               /\ UNCHANGED <<diskVars, link, s2c, clientVars, soff, bounds>>

\* GETS_REQ when open or fstat fails, for a name that does not exist or for another reason,
\* and every command without a file stream.
Reply == /\ spc = "idle" /\ c2s # <<>> /\ ~ServerGets("RESUME_POS")
         /\ c2s' = Tail(c2s)
         /\ ToClient([type |-> IF ServerGets("PWD") THEN "ACK" ELSE "ERROR"])
         /\ UNCHANGED <<diskVars, link, clientVars, serverVars, bounds>>

SendGetsResp == /\ spc = "respond"
                /\ ToClient([type |-> "GETS_RESP", size |-> total])
                /\ spc' = "resume"
                /\ UNCHANGED <<diskVars, link, c2s, clientVars, fd, total, soff, bounds>>

\* Fault: >= for > in the check of the offset.
RecvResumePosAtEnd ==
    /\ spc = "resume" /\ ServerGets("RESUME_POS")
    /\ LET offset == Head(c2s).offset
       IN  soff' = IF offset >= total THEN 0 ELSE offset
    /\ c2s' = Tail(c2s)
    /\ spc' = "sending"
    /\ UNCHANGED <<diskVars, link, s2c, clientVars, fd, total, bounds>>

\* RESUME_POS; an offset behind the end of the file means: from the start.
RecvResumePos ==
    /\ spc = "resume" /\ ServerGets("RESUME_POS")
    /\ LET offset == Head(c2s).offset
       IN  soff' = IF offset > total THEN 0 ELSE offset
    /\ c2s' = Tail(c2s)
    /\ spc' = "sending"
    /\ UNCHANGED <<diskVars, link, s2c, clientVars, fd, total, bounds>>

\* Another packet in its place: should_close, and not a word to the client.
RecvNoResumePos == /\ spc = "resume" /\ c2s # <<>> /\ ~ServerGets("RESUME_POS")
                   /\ CloseSession

\* send_file_data_packet: the header, then the block as it is on the disk now.
SendFileData == /\ spc = "sending" /\ soff < total
                /\ soff < Len(disk[fd])
                /\ ToClient([type |-> "FILE_DATA", block |-> disk[fd][soff + 1]])
                /\ soff' = soff + 1
                /\ UNCHANGED <<diskVars, link, c2s, clientVars, spc, fd, total, bounds>>

\* Fault: sendfile's 0 is taken for the regular end of the file.
SendfileRunsDryEnds ==
    /\ spc = "sending" /\ soff < total
    /\ soff >= Len(disk[fd])
    /\ ToClient([type |-> "FILE_END"])
    /\ spc' = "idle"
    /\ GetsOver
    /\ UNCHANGED <<diskVars, link, c2s, clientVars, bounds>>

\* sendfile returns 0: the file has become shorter, the packet never gets its payload.
SendfileRunsDry == /\ spc = "sending" /\ soff < total
                   /\ soff >= Len(disk[fd])
                   /\ CloseSession

SendFileEnd == /\ spc = "sending" /\ soff >= total
               /\ ToClient([type |-> "FILE_END"])
               /\ spc' = "idle"
               /\ GetsOver
               /\ UNCHANGED <<diskVars, link, c2s, clientVars, bounds>>

\* A send or recv of the worker fails on a broken connection.
WorkerIoFails == /\ spc # "gone" /\ link = "broken"
                 /\ CloseSession

--------------------------------------------------------------------------------
(* The other sessions: handle_puts as the disk sees it, and handle_rm. *)

\* What a worker does when its file needs no emptying (any more).
NextPc(v) == IF Size[v] > 0 THEN "extend" ELSE "write"

\* open(O_RDWR | O_CREAT) and fstat; a failing fstat leaves the resume point 0.
UploadOpens(u, v, i) ==
    /\ ~Uploading(u) /\ uploads < MaxUploads
    /\ IF named # NoInode THEN i = named
       ELSE disk[i] = <<>> /\ i # fd /\ \A t \in Uploaders : upload[t].inode # i
    /\ named' = i
    /\ uploads' = uploads + 1
    /\ \E woff \in {0, Len(disk[i])} :
           upload' = [upload EXCEPT ![u] = [pc |-> IF woff > Size[v] THEN "reset" ELSE NextPc(v),
                                            inode |-> i, version |-> v, woff |-> woff]]
    /\ exposed' = (\/ exposed
                   \/ Downloading
                   \/ \E t \in Uploaders : Uploading(t) /\ upload[t].inode = i)
    /\ UNCHANGED <<disk, netVars, clientVars, serverVars, connects, commands, astray>>

\* What u's upload has of its file becomes f.
Content(u) == disk[upload[u].inode]
Changes(u, f) == disk' = [disk EXCEPT ![upload[u].inode] = f]

\* handle_puts returns.
UploadOver(u) == upload' = [upload EXCEPT ![u] = NoUpload]

UploadResets(u) == /\ upload[u].pc = "reset"
                   /\ Changes(u, <<>>)
                   /\ upload' = [upload EXCEPT ![u].woff = 0, ![u].pc = NextPc(upload[u].version)]
                   /\ UNCHANGED <<named, netVars, clientVars, serverVars, bounds>>

\* The first ftruncate fails, or PUTS_RESP cannot be sent: nothing has changed.
UploadGivesUp(u) == /\ upload[u].pc \in {"reset", "extend"}
                    /\ UploadOver(u)
                    /\ UNCHANGED <<disk, named, netVars, clientVars, serverVars, bounds>>

\* ftruncate to the final size, then mmap.
UploadExtends(u) == /\ upload[u].pc = "extend"
                    /\ Changes(u, Resize(Content(u), Size[upload[u].version]))
                    /\ upload' = [upload EXCEPT ![u].pc = "write"]
                    /\ UNCHANGED <<named, netVars, clientVars, serverVars, bounds>>

\* The second ftruncate fails: an answer the client does not expect between its blocks.
UploadExtendFails(u) == /\ "ftruncate" \in Faults
                        /\ upload[u].pc = "extend"
                        /\ UploadOver(u)
                        /\ astray' = TRUE
                        /\ UNCHANGED <<disk, named, netVars, clientVars, serverVars, counters, exposed>>

\* mmap fails: so too, and the file keeps the size ftruncate gave it.
UploadMmapFails(u) == /\ "mmap" \in Faults
                      /\ upload[u].pc = "extend"
                      /\ Changes(u, Resize(Content(u), Size[upload[u].version]))
                      /\ UploadOver(u)
                      /\ exposed' = TRUE /\ astray' = TRUE
                      /\ UNCHANGED <<named, netVars, clientVars, serverVars, counters>>

\* memcpy of a block: the next one of the version (Upload!BlocksInPlace), or any one when
\* client and worker of an upload no longer go together.
UploadWrites(u) ==
    /\ upload[u].pc = "write" /\ upload[u].woff < Size[upload[u].version]
    /\ upload[u].woff + 1 <= Len(Content(u))
    /\ \E b \in IF astray THEN Blocks \ {Hole} ELSE {Block(upload[u].version, upload[u].woff + 1)} :
           Changes(u, [Content(u) EXCEPT ![upload[u].woff + 1] = b])
    /\ upload' = [upload EXCEPT ![u].woff = @ + 1]
    /\ UNCHANGED <<named, netVars, clientVars, serverVars, bounds>>

\* FILE_END after the last block: the file stays as it is.
UploadCompletes(u) == /\ upload[u].pc = "write" /\ upload[u].woff = Size[upload[u].version]
                      /\ UploadOver(u)
                      /\ UNCHANGED <<disk, named, netVars, clientVars, serverVars, bounds>>

\* Fault: an interrupted upload leaves the preallocated size.
UploadStopsAsIs(u) == /\ upload[u].pc = "write"
                      /\ UploadOver(u)
                      /\ UNCHANGED <<disk, named, netVars, clientVars, serverVars, bounds>>

\* An interrupted upload: the file ends at what was received.
UploadStops(u) == /\ upload[u].pc = "write"
                  /\ Changes(u, Resize(Content(u), upload[u].woff))
                  /\ UploadOver(u)
                  /\ UNCHANGED <<named, netVars, clientVars, serverVars, bounds>>

\* So too, but the third ftruncate fails; its result is not looked at.
UploadStopFails(u) == /\ "ftruncate" \in Faults
                      /\ upload[u].pc = "write"
                      /\ UploadOver(u)
                      /\ exposed' = TRUE
                      /\ UNCHANGED <<disk, named, netVars, clientVars, serverVars, counters, astray>>

\* handle_rm: the name goes, the file stays for who has it open.
Remove == /\ named # NoInode
          /\ named' = NoInode
          /\ UNCHANGED <<disk, upload, netVars, clientVars, serverVars, bounds>>

--------------------------------------------------------------------------------
\* The whole server process ends, the disk stays as it is.
ServerDies == /\ spc' = "gone"
              /\ link' = "broken"
              /\ c2s' = <<>>
              /\ GetsOver
              /\ upload' = [u \in Uploaders |-> NoUpload]
              /\ exposed' = (exposed \/ \E u \in Uploaders : upload[u].pc = "write")
              /\ UNCHANGED <<disk, named, s2c, clientVars, counters, astray>>

ServerCrash == /\ "crash" \in Faults
               /\ spc # "gone" \/ \E u \in Uploaders : Uploading(u)
               /\ ServerDies

\* A store to a mapped page beyond the end of the file raises SIGBUS.
Sigbus(u) == /\ upload[u].pc = "write" /\ upload[u].woff < Size[upload[u].version]
             /\ upload[u].woff + 1 > Len(Content(u))
             /\ ServerDies

ClientStep == \/ RecvText
              \/ RecvGetsResp
              \/ LocalOpenFails
              \/ RecvRefusal
              \/ RecvFileData
              \/ LocalWriteFails
              \/ RecvEnd
              \/ ClientIoFails

User == Connect \/ StartGets \/ StartSimple \/ Leave

Worker == \/ RecvGetsReq
          \/ Reply
          \/ SendGetsResp
          \/ RecvResumePos
          \/ RecvNoResumePos
          \/ SendFileData
          \/ SendfileRunsDry
          \/ SendFileEnd
          \/ WorkerIoFails

Upload(u) == \/ \E v \in Versions, i \in Inodes : UploadOpens(u, v, i)
             \/ UploadResets(u)
             \/ UploadGivesUp(u)
             \/ UploadExtends(u)
             \/ UploadExtendFails(u)
             \/ UploadMmapFails(u)
             \/ UploadWrites(u)
             \/ UploadCompletes(u)
             \/ UploadStops(u)
             \/ UploadStopFails(u)

Next == \/ ClientStep \/ User \/ LinkBreaks \/ Worker
        \/ \E u \in Uploaders : Upload(u) \/ Sigbus(u)
        \/ Remove
        \/ ServerCrash

Spec == Init /\ [][Next]_vars

--------------------------------------------------------------------------------
(* Properties. *)

TypeOK == /\ disk \in [Inodes -> Seq(Blocks)]
          /\ named \in Inodes \cup {NoInode}
          /\ upload \in [Uploaders -> UploadRecords]
          /\ link \in {"up", "broken"}
          /\ c2s \in Seq(Requests) /\ s2c \in Seq(Responses)
          /\ cpc \in ClientPcs
          /\ local \in Seq(Blocks)
          /\ serverSize \in Nat
          /\ outcome \in {"none", "done"}
          /\ spc \in ServerPcs
          /\ fd \in Inodes \cup {NoInode}
          /\ spc \in {"respond", "resume", "sending"} => fd # NoInode
          /\ total \in Nat /\ soff \in Nat
          /\ exposed \in BOOLEAN /\ astray \in BOOLEAN
          /\ connects \in 0..MaxConnects /\ commands \in 0..MaxCommands /\ uploads \in 0..MaxUploads

\* handle_gets on both sides counts alike: what the worker has sent is what the client
\* has written and what is still in the connection, whatever the resume point was.
OffsetsAgree ==
    spc = "sending" /\ cpc = "recv" /\ link = "up" => soff = Len(local) + Len(s2c)

\* Every block the client has written lies where it lay in an uploaded file, over
\* resumed downloads, replaced, removed and truncated files, unless an upload was told of
\* its failure between PUTS_RESP and its blocks (handle.c:646-667), after which Upload
\* does not promise the place of the blocks on the server either.
LocalInPlace == astray \/ \A i \in 1..Len(local) : local[i] # Hole => local[i][2] = i

\* A download reported complete has exactly the size GETS_RESP announced, although
\* the file may have been cut, extended or removed since fstat.
DoneIsWhole == outcome = "done" /\ cpc \in {"idle", "waitText"} => Len(local) = serverSize

\* A download reported complete holds no zeros that no client ever uploaded.  There are
\* these exceptions and no other (exposed): at any time before, an upload was going on
\* during a download, or two of the file at once; or an upload ended and left its
\* preallocated zeros, because the server was killed in its receive loop, mmap failed
\* (handle.c:664) or the ftruncate that was to take them back did (handle.c:734).
DoneIsReal == \/ exposed
              \/ outcome = "done" => \A i \in 1..Len(local) : local[i] # Hole
================================================================================
