----------------------------- MODULE DownloadProofs -----------------------------
(***************************************************************************)
(* The safety properties of Download for any files, any number of uploads, *)
(* connections and commands, and every fault.                              *)
(***************************************************************************)
EXTENDS Download, TLAPS

\* The lengths a file may have: those of the uploaded files and what is cut from them.
Lengths == {0} \cup UNION {1..n : n \in Sizes}

\* What another session knows of its file at each point of its upload.
Uploads == \A u \in Uploaders :
    /\ Uploading(u) => upload[u].inode \in Inodes
    /\ upload[u].pc \in {"extend", "write"} => upload[u].woff <= Size[upload[u].version]

Measured == /\ \A i \in Inodes : Len(disk[i]) \in Lengths
            /\ spc \in {"respond", "resume", "sending"} => total \in Lengths

Typing == TypeOK /\ Uploads /\ Measured

--------------------------------------------------------------------------------
(* Lengths and packets. *)

LEMMA LengthFacts ==
    /\ Lengths \subseteq Nat /\ 0 \in Lengths
    /\ \A v \in Versions : Size[v] \in Nat /\ \A n \in Nat : n <= Size[v] => n \in Lengths
  <1>1. Sizes \subseteq Nat /\ \A v \in Versions : Size[v] \in Nat /\ Size[v] \in Sizes
    BY DownloadAssumption DEF Sizes
  <1>2. ASSUME NEW v \in Versions, NEW n \in Nat, n <= Size[v] PROVE n \in Lengths
    <2>1. CASE n = 0  BY <2>1 DEF Lengths
    <2>2. CASE n # 0
      <3>1. n \in 1..Size[v]  BY <1>1, <1>2, <2>2
      <3> QED  BY <1>1, <3>1 DEF Lengths
    <2> QED  BY <2>1, <2>2
  <1>3. Lengths \subseteq Nat  BY <1>1 DEF Lengths
  <1> QED  BY <1>1, <1>2, <1>3 DEF Lengths

LEMMA RequestFacts ==
    /\ [type |-> "GETS_REQ"] \in Requests /\ [type |-> "PWD"] \in Requests
    /\ \A o \in Nat : [type |-> "RESUME_POS", offset |-> o] \in Requests
    /\ \A p \in Requests : p.type = "RESUME_POS" => p.offset \in Nat
  <1>1. ASSUME NEW p \in Requests, p.type = "RESUME_POS" PROVE p.offset \in Nat
    <2>1. CASE p \in [type : {"GETS_REQ", "PWD"}]  BY <1>1, <2>1
    <2>2. CASE p \in [type : {"RESUME_POS"}, offset : Nat]  BY <2>2
    <2> QED  BY <2>1, <2>2 DEF Requests
  <1> QED  BY <1>1 DEF Requests

LEMMA ResponseFacts ==
    /\ \A n \in Lengths : [type |-> "GETS_RESP", size |-> n] \in Responses
    /\ \A b \in Blocks : [type |-> "FILE_DATA", block |-> b] \in Responses
    /\ \A t \in {"FILE_END", "ACK", "ERROR"} : [type |-> t] \in Responses
    /\ \A p \in Responses : /\ p.type = "GETS_RESP" => p.size \in Nat
                            /\ p.type = "FILE_DATA" => p.block \in Blocks
  <1>1. ASSUME NEW p \in Responses
        PROVE  (p.type = "GETS_RESP" => p.size \in Nat) /\ (p.type = "FILE_DATA" => p.block \in Blocks)
    <2>1. CASE p \in [type : {"GETS_RESP"}, size : Lengths]  BY <2>1, LengthFacts
    <2>2. CASE p \in [type : {"FILE_DATA"}, block : Blocks]  BY <2>2
    <2>3. CASE p \in [type : {"FILE_END", "ACK", "ERROR"}]  BY <2>3
    <2> QED  BY <2>1, <2>2, <2>3 DEF Responses, Lengths
  <1> QED  BY <1>1 DEF Responses, Lengths

LEMMA ResizeFacts ==
    ASSUME NEW f \in Seq(Blocks), NEW n \in Nat
    PROVE  /\ Resize(f, n) \in Seq(Blocks) /\ Len(Resize(f, n)) = n
           /\ \A i \in 1..n : Resize(f, n)[i] = IF i <= Len(f) THEN f[i] ELSE Hole
  <1>1. Hole \in Blocks  BY DEF Blocks
  <1>2. \A i \in 1..n : (IF i <= Len(f) THEN f[i] ELSE Hole) \in Blocks  BY <1>1
  <1>3. DEFINE r == [i \in 1..n |-> IF i <= Len(f) THEN f[i] ELSE Hole]
  <1>4. r \in [1..n -> Blocks]  BY <1>2
  <1>5. r \in Seq(Blocks) /\ Len(r) = n  BY <1>4
  <1> QED  BY <1>5 DEF Resize

\* What sending and receiving do to a queue.
LEMMA QueueFacts ==
    ASSUME NEW T, NEW q \in Seq(T)
    PROVE  /\ Len(q) \in Nat
           /\ \A p \in T : /\ Append(q, p) \in Seq(T) /\ Len(Append(q, p)) = Len(q) + 1
                           /\ Append(q, p)[Len(q) + 1] = p
                           /\ \A j \in 1..Len(q) : Append(q, p)[j] = q[j]
           /\ q # <<>> => /\ Head(q) \in T /\ Head(q) = q[1] /\ Len(q) >= 1
                          /\ Tail(q) \in Seq(T) /\ Len(Tail(q)) = Len(q) - 1
                          /\ \A j \in 1..Len(Tail(q)) : Tail(q)[j] = q[j + 1] /\ j + 1 \in 1..Len(q)
  OBVIOUS

--------------------------------------------------------------------------------
(* Types. *)

\* A session that is not uploading.
LEMMA NoUploadTypes == NoUpload \in UploadRecords /\ NoUpload.pc = "off" /\ NoUpload.inode = NoInode
  <1>1. (CHOOSE v \in Versions : TRUE) \in Versions  BY DownloadAssumption
  <1> QED  BY <1>1 DEF NoUpload, UploadPcs, UploadRecords

LEMMA InitTyping == Init => Typing
  <1> SUFFICES ASSUME Init PROVE Typing  OBVIOUS
  <1>1. <<>> \in Seq(Blocks) /\ <<>> \in Seq(Requests) /\ <<>> \in Seq(Responses) /\ Len(<<>>) = 0
    OBVIOUS
  <1>2. disk \in [Inodes -> Seq(Blocks)] /\ \A i \in Inodes : disk[i] = <<>>  BY <1>1 DEF Init
  <1>3. c2s \in Seq(Requests) /\ s2c \in Seq(Responses) /\ local \in Seq(Blocks)  BY <1>1 DEF Init
  <1>4. upload \in [Uploaders -> UploadRecords]  BY NoUploadTypes DEF Init
  <1>5. connects \in 0..MaxConnects /\ commands \in 0..MaxCommands /\ uploads \in 0..MaxUploads
    BY DownloadAssumption DEF Init
  <1>6. exposed \in BOOLEAN /\ astray \in BOOLEAN  BY DEF Init
  <1>7. TypeOK  BY <1>2, <1>3, <1>4, <1>5, <1>6 DEF Init, TypeOK, ClientPcs, ServerPcs
  <1>8. Uploads  BY NoUploadTypes DEF Init, Uploads, Uploading
  <1>9. Measured  BY <1>1, <1>2, LengthFacts DEF Init, Measured
  <1> QED  BY <1>7, <1>8, <1>9 DEF Typing

LEMMA ClientTyping ==
    ASSUME Typing, ClientStep \/ User \/ LinkBreaks
    PROVE  Typing'
  <1>1. /\ c2s \in Seq(Requests) /\ s2c \in Seq(Responses) /\ local \in Seq(Blocks) /\ Len(local) \in Nat
        /\ link \in {"up", "broken"} /\ cpc \in ClientPcs /\ serverSize \in Nat
        /\ outcome \in {"none", "done"}
        /\ connects \in 0..MaxConnects /\ commands \in 0..MaxCommands
        /\ <<>> \in Seq(Blocks) /\ <<>> \in Seq(Requests) /\ <<>> \in Seq(Responses)
    BY DEF Typing, TypeOK
  <1>2. exposed \in BOOLEAN /\ astray \in BOOLEAN  BY DEF Typing, TypeOK
  <1>3. /\ s2c # <<>> => Tail(s2c) \in Seq(Responses) /\ Head(s2c) \in Responses
        /\ \A p \in Requests : ToServer(p) => c2s' \in Seq(Requests)
    <2>1. \A p \in Requests : Append(c2s, p) \in Seq(Requests)  BY <1>1, QueueFacts
    <2>2. s2c # <<>> => Tail(s2c) \in Seq(Responses) /\ Head(s2c) \in Responses  BY <1>1, QueueFacts
    <2> QED  BY <1>1, <2>1, <2>2 DEF ToServer
  \* The disk and the other sessions are not touched, nor the worker.
  <1>4. ASSUME UNCHANGED <<diskVars, fd, total, soff, uploads, astray>>, spc' = spc \/ spc' = "idle",
               link' \in {"up", "broken"}, c2s' \in Seq(Requests), s2c' \in Seq(Responses),
               cpc' \in ClientPcs, local' \in Seq(Blocks), serverSize' \in Nat,
               outcome' \in {"none", "done"}, exposed' \in BOOLEAN,
               connects' \in 0..MaxConnects, commands' \in 0..MaxCommands
        PROVE  Typing'
    <2>1. spc' \in ServerPcs  BY <1>4 DEF Typing, TypeOK, ServerPcs
    <2>2. TypeOK'  BY <1>4, <2>1 DEF Typing, TypeOK, diskVars
    <2>3. Uploads'  BY <1>4 DEF Typing, Uploads, Uploading, diskVars
    <2>4. Measured'  BY <1>4 DEF Typing, Measured, diskVars
    <2> QED  BY <2>2, <2>3, <2>4 DEF Typing
  <1>5. CASE RecvText \/ RecvRefusal \/ RecvEnd
    <2>1. s2c' \in Seq(Responses) /\ UNCHANGED <<diskVars, serverVars, link, c2s, local, bounds>>
      BY <1>3, <1>5 DEF RecvText, RecvRefusal, RecvEnd
    <2>2. cpc' = "idle" /\ outcome' \in {"none", "done"} /\ serverSize' \in Nat
      BY <1>1, <1>5 DEF RecvText, RecvRefusal, RecvEnd, Return
    <2> QED  BY <1>1, <1>2, <1>4, <2>1, <2>2 DEF serverVars, bounds, counters, history, ClientPcs
  <1>6. CASE RecvGetsResp
    <2>1. s2c # <<>> /\ Head(s2c).type = "GETS_RESP"  BY <1>6 DEF RecvGetsResp, ClientGets
    <2>2. serverSize' \in Nat /\ s2c' \in Seq(Responses)
      BY <1>3, <1>6, <2>1, ResponseFacts DEF RecvGetsResp
    <2>3. local' \in Seq(Blocks)  BY <1>1, <1>6 DEF RecvGetsResp
    <2>4. c2s' \in Seq(Requests)
      <3>1. Len(local') \in Nat  BY <2>3
      <3> QED  BY <1>3, <1>6, <3>1, RequestFacts DEF RecvGetsResp
    <2> QED  BY <1>1, <1>2, <1>4, <1>6, <2>2, <2>3, <2>4 DEF RecvGetsResp, serverVars, bounds, counters, history, ClientPcs
  <1>7. CASE LocalOpenFails \/ LocalWriteFails
    <2>1. s2c # <<>> /\ s2c' = Tail(s2c) /\ cpc' = "idle" /\ outcome' = "none" /\ serverSize' = 0
      BY <1>7 DEF LocalOpenFails, LocalWriteFails, ClientGets, Return
    <2> QED  BY <1>1, <1>2, <1>3, <1>4, <1>7, <2>1
             DEF LocalOpenFails, LocalWriteFails, serverVars, bounds, counters, history, ClientPcs
  <1>8. CASE RecvFileData
    <2>1. s2c # <<>> /\ Head(s2c).block \in Blocks
      BY <1>3, <1>8, ResponseFacts DEF RecvFileData, ClientGets
    <2>2. local' \in Seq(Blocks)  BY <1>1, <1>8, <2>1, QueueFacts DEF RecvFileData
    <2> QED  BY <1>1, <1>2, <1>3, <1>4, <1>8, <2>1, <2>2 DEF RecvFileData, serverVars, bounds, counters, history
  <1>9. CASE ClientIoFails
    <2>1. cpc' = "idle" /\ outcome' \in {"none", "done"} /\ serverSize' \in Nat
      BY <1>1, <1>9 DEF ClientIoFails, Return
    <2> QED  BY <1>1, <1>2, <1>4, <1>9, <2>1 DEF ClientIoFails, netVars, serverVars, bounds, counters, history, ClientPcs
  <1>10. CASE Connect
    <2>1. connects' \in 0..MaxConnects  BY <1>1, <1>10, DownloadAssumption DEF Connect
    <2> QED  BY <1>1, <1>2, <1>4, <1>10, <2>1 DEF Connect, ClientPcs, history
  <1>11. CASE StartGets \/ StartSimple
    <2>1. commands' \in 0..MaxCommands  BY <1>1, <1>11, DownloadAssumption DEF StartGets, StartSimple
    <2>2. c2s' \in Seq(Requests)  BY <1>3, <1>11, RequestFacts DEF StartGets, StartSimple
    <2>3. cpc' \in ClientPcs /\ outcome' \in {"none", "done"}
      BY <1>1, <1>11 DEF StartGets, StartSimple, ClientPcs
    <2>4. exposed' \in BOOLEAN
      <3>1. CASE StartGets  BY <3>1 DEF StartGets
      <3>2. CASE StartSimple  BY <1>2, <3>2 DEF StartSimple, history
      <3> QED  BY <1>11, <3>1, <3>2
    <2>5. /\ serverSize' \in Nat
          /\ UNCHANGED <<diskVars, serverVars, uploads, link, s2c, local, connects, astray>>
      BY <1>1, <1>11 DEF StartGets, StartSimple, history
    <2> QED  BY <1>1, <1>4, <2>1, <2>2, <2>3, <2>4, <2>5 DEF serverVars
  <1>12. CASE Leave \/ LinkBreaks
    <2>1. /\ cpc' \in ClientPcs /\ link' = "broken"
          /\ serverSize' \in Nat /\ outcome' \in {"none", "done"}
      BY <1>1, <1>12 DEF Leave, LinkBreaks, clientVars, ClientPcs
    <2>2. s2c' \in Seq(Responses) /\ UNCHANGED <<diskVars, c2s, local, serverVars, bounds>>
      <3>1. <<>> \in Seq(Responses)  OBVIOUS
      <3> QED  BY <1>1, <1>12, <3>1 DEF Leave, LinkBreaks, clientVars, Typing, TypeOK
    <2> QED  BY <1>1, <1>2, <1>4, <2>1, <2>2 DEF serverVars, bounds, counters, history
  <1> QED
    BY <1>5, <1>6, <1>7, <1>8, <1>9, <1>10, <1>11, <1>12 DEF ClientStep, User

LEMMA WorkerTyping ==
    ASSUME Typing, Worker
    PROVE  Typing'
  <1>1. /\ c2s \in Seq(Requests) /\ s2c \in Seq(Responses) /\ disk \in [Inodes -> Seq(Blocks)]
        /\ link \in {"up", "broken"} /\ total \in Nat /\ soff \in Nat
        /\ spc \in ServerPcs /\ fd \in Inodes \cup {NoInode} /\ named \in Inodes \cup {NoInode}
        /\ <<>> \in Seq(Requests)
        /\ spc \in {"respond", "resume", "sending"} => fd \in Inodes /\ total \in Lengths
    BY DEF Typing, TypeOK, Measured
  <1>2. /\ c2s # <<>> => Tail(c2s) \in Seq(Requests) /\ Head(c2s) \in Requests
        /\ \A p \in Responses : ToClient(p) => s2c' \in Seq(Responses)
    <2>1. \A p \in Responses : Append(s2c, p) \in Seq(Responses)  BY <1>1, QueueFacts
    <2>2. c2s # <<>> => Tail(c2s) \in Seq(Requests) /\ Head(c2s) \in Requests  BY <1>1, QueueFacts
    <2> QED  BY <1>1, <2>1, <2>2 DEF ToClient
  \* The disk, the other session and the client are not touched.
  <1>3. ASSUME UNCHANGED <<diskVars, clientVars, bounds>>, link' \in {"up", "broken"},
               c2s' \in Seq(Requests), s2c' \in Seq(Responses),
               spc' \in ServerPcs, fd' \in Inodes \cup {NoInode}, total' \in Nat, soff' \in Nat,
               spc' \in {"respond", "resume", "sending"} => fd' # NoInode /\ total' \in Lengths
        PROVE  Typing'
    <2>1. TypeOK'  BY <1>3 DEF Typing, TypeOK, diskVars, clientVars, bounds, counters, history
    <2>2. Uploads'  BY <1>3 DEF Typing, Uploads, Uploading, diskVars
    <2>3. Measured'  BY <1>3 DEF Typing, Measured, diskVars
    <2> QED  BY <2>1, <2>2, <2>3 DEF Typing
  <1>4. CASE RecvGetsReq
    <2>1. named \in Inodes /\ Len(disk[named]) \in Lengths
      BY <1>1, <1>4 DEF RecvGetsReq, Typing, Measured
    <2>2. c2s' \in Seq(Requests)  BY <1>2, <1>4 DEF RecvGetsReq, ServerGets
    <2>3. /\ fd' = named /\ total' = Len(disk[named]) /\ spc' = "respond" /\ named # NoInode
          /\ UNCHANGED <<diskVars, clientVars, bounds, link, s2c, soff>>
      BY <1>4 DEF RecvGetsReq
    <2> QED  BY <1>1, <1>3, <2>1, <2>2, <2>3, LengthFacts DEF ServerPcs
  <1>5. CASE Reply
    <2>1. [type |-> IF ServerGets("PWD") THEN "ACK" ELSE "ERROR"] \in Responses  BY ResponseFacts
    <2>2. c2s' \in Seq(Requests) /\ s2c' \in Seq(Responses)  BY <1>2, <1>5, <2>1 DEF Reply
    <2>3. UNCHANGED <<diskVars, clientVars, bounds, link, spc, fd, total, soff>>
      BY <1>5 DEF Reply, serverVars
    <2>4. spc = "idle"  BY <1>5 DEF Reply
    <2> QED  BY <1>1, <1>3, <2>2, <2>3, <2>4
  <1>6. CASE SendGetsResp
    <2>1. total \in Lengths /\ fd # NoInode  BY <1>1, <1>6, DownloadAssumption DEF SendGetsResp
    <2>2. s2c' \in Seq(Responses)  BY <1>2, <1>6, <2>1, ResponseFacts DEF SendGetsResp
    <2> QED  BY <1>1, <1>3, <1>6, <2>1, <2>2 DEF SendGetsResp, ServerPcs
  <1>7. CASE RecvResumePos
    <2>1. c2s # <<>> /\ Head(c2s).type = "RESUME_POS" /\ spc = "resume"  BY <1>7 DEF RecvResumePos, ServerGets
    <2>2. soff' \in Nat  BY <1>2, <1>7, <2>1, RequestFacts DEF RecvResumePos
    <2>3. fd # NoInode /\ total \in Lengths  BY <1>1, <2>1, DownloadAssumption
    <2> QED  BY <1>1, <1>2, <1>3, <1>7, <2>1, <2>2, <2>3 DEF RecvResumePos, ServerPcs
  <1>8. CASE RecvNoResumePos \/ SendfileRunsDry \/ WorkerIoFails
    <2>1. /\ spc' = "gone" /\ link' = "broken" /\ c2s' = <<>> /\ fd' = NoInode /\ total' = 0 /\ soff' = 0
          /\ UNCHANGED <<diskVars, s2c, clientVars, bounds>>
      BY <1>8 DEF RecvNoResumePos, SendfileRunsDry, WorkerIoFails, CloseSession, GetsOver
    <2> QED  BY <1>1, <1>3, <2>1 DEF ServerPcs
  <1>9. CASE SendFileData
    <2>1. spc = "sending" /\ fd \in Inodes /\ total \in Lengths  BY <1>1, <1>9 DEF SendFileData
    <2>2. soff + 1 \in 1..Len(disk[fd])  BY <1>1, <1>9, <2>1 DEF SendFileData
    <2>3. disk[fd][soff + 1] \in Blocks
      <3>1. disk[fd] \in Seq(Blocks)  BY <1>1, <2>1
      <3> QED  BY <2>2, <3>1
    <2>4. s2c' \in Seq(Responses)  BY <1>2, <1>9, <2>3, ResponseFacts DEF SendFileData
    <2> QED  BY <1>1, <1>3, <1>9, <2>1, <2>4, DownloadAssumption DEF SendFileData
  <1>10. CASE SendFileEnd
    <2>1. s2c' \in Seq(Responses)  BY <1>2, <1>10, ResponseFacts DEF SendFileEnd
    <2> QED  BY <1>1, <1>3, <1>10, <2>1 DEF SendFileEnd, GetsOver, ServerPcs
  <1> QED
    BY <1>4, <1>5, <1>6, <1>7, <1>8, <1>9, <1>10 DEF Worker

\* The other sessions make files of their blocks, of the lengths they should have.
LEMMA UploadTyping ==
    ASSUME Typing, NEW u \in Uploaders, Upload(u)
    PROVE  Typing'
  <1>1. /\ disk \in [Inodes -> Seq(Blocks)] /\ \A i \in Inodes : disk[i] \in Seq(Blocks) /\ Len(disk[i]) \in Nat
        /\ named \in Inodes \cup {NoInode}
        /\ upload \in [Uploaders -> UploadRecords]
        /\ upload[u].pc \in UploadPcs /\ upload[u].version \in Versions /\ upload[u].woff \in Nat
        /\ upload[u] \in UploadRecords
        /\ Size[upload[u].version] \in Nat /\ \A n \in Nat : n <= Size[upload[u].version] => n \in Lengths
        /\ \A i \in Inodes : Len(disk[i]) \in Lengths
        /\ Uploading(u) => upload[u].inode \in Inodes
    BY LengthFacts DEF Typing, TypeOK, Uploads, Measured, UploadRecords
  <1>2. /\ exposed \in BOOLEAN /\ astray \in BOOLEAN
        /\ uploads \in 0..MaxUploads
    BY DEF Typing, TypeOK
  \* The upload becomes r, and with it no other.
  <1>3. ASSUME NEW r \in UploadRecords, upload' = [upload EXCEPT ![u] = r],
               r.pc # "off" => r.inode \in Inodes, r.pc \in {"extend", "write"} => r.woff <= Size[r.version],
               UNCHANGED <<netVars, clientVars, serverVars, connects, commands>>, uploads' \in 0..MaxUploads,
               exposed' \in BOOLEAN, astray' \in BOOLEAN,
               disk' \in [Inodes -> Seq(Blocks)], named' \in Inodes \cup {NoInode},
               \A i \in Inodes : Len(disk'[i]) \in Lengths
        PROVE  Typing'
    <2>1. upload' \in [Uploaders -> UploadRecords]  BY <1>1, <1>3
    <2>2. TypeOK'  BY <1>3, <2>1 DEF Typing, TypeOK, netVars, clientVars, serverVars
    <2>3. Measured'  BY <1>3 DEF Typing, Measured, serverVars
    <2>4. Uploads'
      <3>1. \A t \in Uploaders : upload'[t] = IF t = u THEN r ELSE upload[t]  BY <1>1, <1>3
      <3> QED  BY <1>3, <3>1 DEF Typing, Uploads, Uploading
    <2> QED  BY <2>2, <2>3, <2>4 DEF Typing
  \* The file becomes f.
  <1>4. ASSUME NEW f \in Seq(Blocks), Changes(u, f), Uploading(u), Len(f) \in Lengths
        PROVE  disk' \in [Inodes -> Seq(Blocks)] /\ \A i \in Inodes : Len(disk'[i]) \in Lengths
    <2>1. upload[u].inode \in Inodes /\ disk' = [disk EXCEPT ![upload[u].inode] = f]  BY <1>1, <1>4 DEF Changes
    <2> QED  BY <1>1, <1>4, <2>1
  <1>5. ASSUME NEW n \in Nat, n \in Lengths, Changes(u, Resize(Content(u), n)), Uploading(u)
        PROVE  disk' \in [Inodes -> Seq(Blocks)] /\ \A i \in Inodes : Len(disk'[i]) \in Lengths
    <2>1. PICK f \in Seq(Blocks) : f = Resize(Content(u), n) /\ Len(f) = n
      BY <1>1, <1>5, ResizeFacts DEF Content
    <2> QED  BY <1>4, <1>5, <2>1
  <1>6. ASSUME UploadOver(u), UNCHANGED <<named, netVars, clientVars, serverVars, counters>>,
               exposed' \in BOOLEAN, astray' \in BOOLEAN,
               disk' \in [Inodes -> Seq(Blocks)], \A i \in Inodes : Len(disk'[i]) \in Lengths
        PROVE  Typing'
    BY <1>1, <1>2, <1>3, <1>6, NoUploadTypes DEF UploadOver, counters
  <1>7. ASSUME NEW v \in Versions, NEW i \in Inodes, UploadOpens(u, v, i) PROVE Typing'
    <2>1. PICK woff \in {0, Len(disk[i])} :
             upload' = [upload EXCEPT ![u] = [pc |-> IF woff > Size[v] THEN "reset" ELSE NextPc(v),
                                              inode |-> i, version |-> v, woff |-> woff]]
      BY <1>7 DEF UploadOpens
    <2>2. PICK r : r = [pc |-> IF woff > Size[v] THEN "reset" ELSE NextPc(v),
                        inode |-> i, version |-> v, woff |-> woff]
      OBVIOUS
    <2>3. woff \in Nat /\ Size[v] \in Nat /\ NextPc(v) \in {"extend", "write"}  BY <1>1, LengthFacts DEF NextPc
    <2>4. r \in UploadRecords  BY <2>2, <2>3 DEF UploadRecords, UploadPcs
    <2>5. r.inode \in Inodes /\ (r.pc \in {"extend", "write"} => r.woff <= Size[r.version])
      BY <2>2, <2>3
    <2>6. /\ disk' = disk /\ named' = i /\ uploads' = uploads + 1 /\ uploads < MaxUploads
          /\ exposed' \in BOOLEAN /\ UNCHANGED astray
          /\ UNCHANGED <<netVars, clientVars, serverVars, connects, commands>>
      BY <1>7 DEF UploadOpens
    <2>7. uploads' \in 0..MaxUploads  BY <1>2, <2>6, DownloadAssumption
    <2> QED  BY <1>1, <1>2, <1>3, <2>1, <2>2, <2>4, <2>5, <2>6, <2>7
  <1>8. CASE UploadResets(u)
    <2>1. PICK r : r = [upload[u] EXCEPT !.woff = 0, !.pc = NextPc(upload[u].version)]  OBVIOUS
    <2>2. /\ Uploading(u) /\ Changes(u, <<>>) /\ upload' = [upload EXCEPT ![u] = r]
          /\ UNCHANGED <<named, netVars, clientVars, serverVars, bounds>>
      BY <1>1, <1>8, <2>1 DEF UploadResets, Uploading
    <2>3. NextPc(upload[u].version) \in {"extend", "write"}  BY DEF NextPc
    <2>4. /\ r \in UploadRecords /\ r.inode = upload[u].inode /\ r.woff = 0 /\ r.version = upload[u].version
      BY <1>1, <2>1, <2>3 DEF UploadRecords, UploadPcs
    <2>5. <<>> \in Seq(Blocks) /\ Len(<<>>) = 0  OBVIOUS
    <2>6. disk' \in [Inodes -> Seq(Blocks)] /\ \A i \in Inodes : Len(disk'[i]) \in Lengths
      BY <1>4, <2>2, <2>5, LengthFacts
    <2>7. r.inode \in Inodes /\ r.woff <= Size[r.version]  BY <1>1, <2>2, <2>4
    <2>8. /\ uploads' \in 0..MaxUploads /\ exposed' \in BOOLEAN /\ astray' \in BOOLEAN
          /\ UNCHANGED <<named, netVars, clientVars, serverVars, connects, commands>>
      BY <1>2, <2>2 DEF bounds, counters, history
    <2> QED  BY <1>1, <1>3, <2>2, <2>4, <2>6, <2>7, <2>8
  <1>9. CASE UploadExtends(u)
    <2>1. PICK r : r = [upload[u] EXCEPT !.pc = "write"]  OBVIOUS
    <2>2. /\ Uploading(u) /\ upload[u].pc = "extend" /\ upload' = [upload EXCEPT ![u] = r]
          /\ Changes(u, Resize(Content(u), Size[upload[u].version]))
          /\ UNCHANGED <<named, netVars, clientVars, serverVars, bounds>>
      BY <1>1, <1>9, <2>1 DEF UploadExtends, Uploading
    <2>3. /\ r \in UploadRecords /\ r.inode = upload[u].inode /\ r.version = upload[u].version
          /\ r.woff = upload[u].woff
      BY <1>1, <2>1 DEF UploadRecords, UploadPcs
    <2>4. disk' \in [Inodes -> Seq(Blocks)] /\ \A i \in Inodes : Len(disk'[i]) \in Lengths
      BY <1>1, <1>5, <2>2
    <2>5. upload[u].woff <= Size[upload[u].version]  BY <2>2 DEF Typing, Uploads
    <2> QED  BY <1>1, <1>2, <1>3, <2>2, <2>3, <2>4, <2>5 DEF bounds, counters, history
  <1>10. CASE UploadWrites(u)
    <2>1. PICK b \in IF astray THEN Blocks \ {Hole} ELSE {Block(upload[u].version, upload[u].woff + 1)} :
             Changes(u, [Content(u) EXCEPT ![upload[u].woff + 1] = b])
      BY <1>10 DEF UploadWrites
    <2>2. PICK r : r = [upload[u] EXCEPT !.woff = upload[u].woff + 1]  OBVIOUS
    <2>3. /\ Uploading(u) /\ upload[u].pc = "write" /\ upload[u].woff < Size[upload[u].version]
          /\ upload[u].woff + 1 <= Len(Content(u)) /\ upload' = [upload EXCEPT ![u] = r]
          /\ UNCHANGED <<named, netVars, clientVars, serverVars, bounds>>
      BY <1>1, <1>10, <2>2 DEF UploadWrites, Uploading
    <2>4. /\ r \in UploadRecords /\ r.inode = upload[u].inode /\ r.version = upload[u].version
          /\ r.woff = upload[u].woff + 1
      <3>1. upload[u].woff + 1 \in Nat  BY <1>1
      <3> QED  BY <1>1, <2>2, <3>1 DEF UploadRecords
    <2>5. b \in Blocks
      <3>1. upload[u].woff + 1 \in 1..Size[upload[u].version]  BY <1>1, <2>3
      <3>2. \A v \in Versions : \A i \in 1..Size[v] : Block(v, i) \in Blocks  BY DEF Blocks
      <3> QED  BY <1>1, <2>1, <3>1, <3>2
    <2>6. PICK g \in Seq(Blocks) : g = Content(u) /\ Len(g) \in Lengths  BY <1>1, <2>3 DEF Content
    <2>7. PICK f \in Seq(Blocks) : f = [g EXCEPT ![upload[u].woff + 1] = b] /\ Len(f) = Len(g)
      <3>1. PICK n \in 1..Len(g) : n = upload[u].woff + 1  BY <1>1, <2>3, <2>6
      <3>2. PICK f : f = [g EXCEPT ![n] = b]  OBVIOUS
      <3>3. f \in Seq(Blocks) /\ Len(f) = Len(g)  BY <2>5, <2>6, <3>1, <3>2
      <3> QED  BY <3>1, <3>2, <3>3
    <2>8. disk' \in [Inodes -> Seq(Blocks)] /\ \A i \in Inodes : Len(disk'[i]) \in Lengths
      BY <1>4, <2>1, <2>3, <2>6, <2>7
    <2>9. r.woff <= Size[r.version]  BY <1>1, <2>3, <2>4
    <2> QED  BY <1>1, <1>2, <1>3, <2>3, <2>4, <2>8, <2>9 DEF bounds, counters, history
  <1>11. CASE UploadGivesUp(u) \/ UploadExtendFails(u) \/ UploadCompletes(u) \/ UploadStopFails(u)
    <2>1. /\ UploadOver(u) /\ UNCHANGED <<disk, named, netVars, clientVars, serverVars, counters>>
          /\ exposed' \in BOOLEAN /\ astray' \in BOOLEAN
      BY <1>2, <1>11 DEF UploadGivesUp, UploadExtendFails, UploadCompletes, UploadStopFails, bounds, history
    <2> QED  BY <1>1, <1>6, <2>1
  <1>12. CASE UploadMmapFails(u)
    <2>1. /\ Uploading(u) /\ UploadOver(u) /\ Changes(u, Resize(Content(u), Size[upload[u].version]))
          /\ UNCHANGED <<named, netVars, clientVars, serverVars, counters>>
          /\ exposed' \in BOOLEAN /\ astray' \in BOOLEAN
      BY <1>2, <1>12 DEF UploadMmapFails, Uploading
    <2> QED  BY <1>1, <1>5, <1>6, <2>1
  <1>13. CASE UploadStops(u)
    <2>1. /\ Uploading(u) /\ UploadOver(u) /\ Changes(u, Resize(Content(u), upload[u].woff))
          /\ upload[u].pc = "write" /\ UNCHANGED <<named, netVars, clientVars, serverVars, bounds>>
      BY <1>13 DEF UploadStops, Uploading
    <2>2. upload[u].woff \in Lengths  BY <1>1, <2>1 DEF Typing, Uploads
    <2> QED  BY <1>1, <1>2, <1>5, <1>6, <2>1, <2>2 DEF bounds, history
  <1> QED  BY <1>7, <1>8, <1>9, <1>10, <1>11, <1>12, <1>13 DEF Upload

LEMMA RemoveTyping ==
    ASSUME Typing, Remove
    PROVE  Typing'
  <1>1. named' = NoInode /\ UNCHANGED <<disk, upload, netVars, clientVars, serverVars, bounds>>
    BY DEF Remove
  <1>2. TypeOK'  BY <1>1 DEF Typing, TypeOK, netVars, clientVars, serverVars, bounds, counters, history
  <1>3. Uploads' /\ Measured'  BY <1>1 DEF Typing, Uploads, Uploading, Measured, serverVars
  <1> QED  BY <1>2, <1>3 DEF Typing

LEMMA DeathTyping ==
    ASSUME Typing, ServerDies
    PROVE  Typing'
  <1>1. /\ spc' = "gone" /\ link' = "broken" /\ c2s' = <<>> /\ upload' = [u \in Uploaders |-> NoUpload]
        /\ exposed' \in BOOLEAN
        /\ fd' = NoInode /\ total' = 0 /\ soff' = 0
        /\ UNCHANGED <<disk, named, s2c, clientVars, counters, astray>>
    BY DEF ServerDies, GetsOver
  <1>2. <<>> \in Seq(Requests) /\ "gone" \in ServerPcs  BY DEF ServerPcs
  <1>3. upload' \in [Uploaders -> UploadRecords]  BY <1>1, NoUploadTypes
  <1>4. TypeOK'  BY <1>1, <1>2, <1>3 DEF Typing, TypeOK, clientVars, counters
  <1>5. Measured'  BY <1>1 DEF Typing, Measured
  <1>6. Uploads'  BY <1>1, NoUploadTypes DEF Uploads, Uploading
  <1> QED  BY <1>4, <1>5, <1>6 DEF Typing

LEMMA NextTyping == Typing /\ [Next]_vars => Typing'
  <1> SUFFICES ASSUME Typing, [Next]_vars PROVE Typing'  OBVIOUS
  <1>1. CASE UNCHANGED vars
    BY <1>1 DEF vars, diskVars, netVars, clientVars, serverVars, bounds, counters, history,
                Typing, TypeOK, Uploads, Uploading, Measured
  <1>2. CASE \E u \in Uploaders : Upload(u)  BY <1>2, UploadTyping
  <1>3. CASE ServerCrash \/ \E u \in Uploaders : Sigbus(u)
    <2>1. ServerDies  BY <1>3 DEF ServerCrash, Sigbus
    <2> QED  BY <2>1, DeathTyping
  <1> QED  BY <1>1, <1>2, <1>3, ClientTyping, WorkerTyping, RemoveTyping DEF Next

\* Types, under every fault: what the worker announces and sends is a length and a block
\* of a file that somebody has uploaded, whatever happens to the file meanwhile.
THEOREM TypeCorrect == Spec => []TypeOK
  <1>1. Typing => TypeOK  BY DEF Typing
  <1> QED  BY <1>1, InitTyping, NextTyping, PTL DEF Spec

--------------------------------------------------------------------------------
(* Where blocks lie, and who speaks next. *)

\* As long as no upload has gone astray.
InPlace(f) == \A k \in 1..Len(f) : f[k] # Hole => astray \/ f[k][2] = k

\* GETS_RESP is the last thing the worker sends before it waits for RESUME_POS.
Offers == \A j \in 1..Len(s2c) : s2c[j].type = "GETS_RESP" =>
              j = Len(s2c) /\ (link = "up" => spc = "resume" /\ s2c[j].size = total)

\* RESUME_POS is the last thing the client sends before it waits for blocks.
Positions == link = "up" => \A j \in 1..Len(c2s) : c2s[j].type = "RESUME_POS" =>
                                j = Len(c2s) /\ cpc = "recv" /\ spc = "resume"

\* The worker has not seen the client's RESUME_POS, sends blocks, or has sent all.
Resuming == /\ spc = "resume" /\ Len(s2c) = 0 /\ Len(c2s) >= 1 /\ Len(local) <= total /\ serverSize = total
            /\ c2s[Len(c2s)] = [type |-> "RESUME_POS", offset |-> Len(local)]
Streaming == /\ spc = "sending" /\ Len(c2s) = 0
             /\ soff = Len(local) + Len(s2c) /\ soff <= total /\ serverSize = total
Ended == spc = "idle" /\ Len(c2s) = 0

\* What is still to come follows what the client has, and FILE_END follows everything.
Coming == \A j \in 1..Len(s2c) :
              /\ s2c[j].type = "FILE_DATA" /\ s2c[j].block # Hole => astray \/ s2c[j].block[2] = Len(local) + j
              /\ s2c[j].type = "FILE_END" => Len(local) + j = serverSize + 1

Receiving == cpc = "recv" => Coming /\ (link = "up" => Resuming \/ Streaming \/ Ended)

Done == outcome = "done" => cpc \notin {"waitResp", "recv"} /\ Len(local) = serverSize

Conversation == InPlace(local) /\ Offers /\ Positions /\ Receiving /\ Done

OnDisk == \A i \in Inodes : InPlace(disk[i])

StreamInv == Typing /\ OnDisk /\ Conversation

LEMMA InitStream == Init => StreamInv
  <1> SUFFICES ASSUME Init PROVE StreamInv  OBVIOUS
  <1>1. Len(local) = 0 /\ Len(s2c) = 0 /\ \A i \in Inodes : Len(disk[i]) = 0  BY DEF Init
  <1>2. InPlace(local) /\ OnDisk  BY <1>1 DEF InPlace, OnDisk
  <1>3. Offers /\ Positions /\ Receiving /\ Done  BY <1>1 DEF Init, Offers, Positions, Receiving, Done
  <1> QED  BY <1>2, <1>3, InitTyping DEF StreamInv, Conversation

\* Uploads put each block where it belongs.
LEMMA UploadPlaces ==
    ASSUME Typing, OnDisk, NEW u \in Uploaders, Upload(u)
    PROVE  OnDisk' /\ (astray => astray')
  <1>0. astray => astray'
    BY DEF Upload, UploadOpens, UploadResets, UploadGivesUp, UploadExtends, UploadExtendFails, UploadMmapFails,
           UploadWrites, UploadCompletes, UploadStops, UploadStopFails, bounds, history
  <1>1. /\ \A i \in Inodes : disk[i] \in Seq(Blocks) /\ Len(disk[i]) \in Nat
        /\ disk \in [Inodes -> Seq(Blocks)]
        /\ upload[u].version \in Versions /\ upload[u].woff \in Nat /\ Size[upload[u].version] \in Nat
        /\ Uploading(u) => upload[u].inode \in Inodes
    BY LengthFacts DEF Typing, TypeOK, Uploads, UploadRecords
  <1>2. ASSUME NEW f, Changes(u, f), Uploading(u), ~astray, InPlace(f)
        PROVE  OnDisk'
    <2>1. ASSUME NEW i \in Inodes, NEW k \in 1..Len(disk'[i]), disk'[i][k] # Hole
          PROVE  disk'[i][k][2] = k
      <3>1. CASE i = upload[u].inode
        <4>1. disk'[i] = f  BY <1>1, <1>2, <3>1 DEF Changes
        <4> QED  BY <1>2, <2>1, <4>1 DEF InPlace
      <3>2. CASE i # upload[u].inode
        <4>1. disk'[i] = disk[i]  BY <1>1, <1>2, <3>2 DEF Changes
        <4> QED  BY <1>2, <2>1, <4>1 DEF OnDisk, InPlace
      <3> QED  BY <3>1, <3>2
    <2> QED  BY <2>1 DEF OnDisk, InPlace
  <1>3. ASSUME NEW n \in Nat, Uploading(u) PROVE InPlace(Resize(Content(u), n))
    <2>1. PICK i \in Inodes : i = upload[u].inode  BY <1>1, <1>3
    <2>2. PICK f : f = Resize(disk[i], n)  OBVIOUS
    <2>3. Len(f) = n /\ \A k \in 1..n : f[k] = IF k <= Len(disk[i]) THEN disk[i][k] ELSE Hole
      BY <1>1, <2>2, ResizeFacts
    <2>4. ASSUME NEW k \in 1..n, f[k] # Hole PROVE astray \/ f[k][2] = k
      <3>1. k \in 1..Len(disk[i]) /\ f[k] = disk[i][k]  BY <1>1, <2>3, <2>4
      <3> QED  BY <2>4, <3>1 DEF OnDisk, InPlace
    <2> QED  BY <2>1, <2>2, <2>3, <2>4 DEF InPlace, Content
  <1>4. CASE disk' = disk  BY <1>0, <1>4 DEF OnDisk, InPlace
  <1>5. CASE astray  BY <1>0, <1>5 DEF OnDisk, InPlace
  <1>6. CASE UploadResets(u) /\ ~astray
    <2>1. InPlace(<<>>)  BY DEF InPlace
    <2> QED  BY <1>0, <1>2, <1>6, <2>1 DEF UploadResets, Uploading
  <1>7. CASE (UploadExtends(u) \/ UploadMmapFails(u) \/ UploadStops(u)) /\ ~astray
    <2>1. PICK n \in Nat : Changes(u, Resize(Content(u), n))
      BY <1>1, <1>7 DEF UploadExtends, UploadMmapFails, UploadStops
    <2>2. Uploading(u)  BY <1>7 DEF UploadExtends, UploadMmapFails, UploadStops, Uploading
    <2> QED  BY <1>0, <1>2, <1>3, <1>7, <2>1, <2>2
  <1>8. CASE UploadWrites(u) /\ ~astray
    <2>1. PICK b : b = Block(upload[u].version, upload[u].woff + 1)  OBVIOUS
    <2>2. PICK g \in Seq(Blocks) : g = Content(u) /\ upload[u].inode \in Inodes
      BY <1>1, <1>8 DEF UploadWrites, Uploading, Content
    <2>3. PICK f : f = [g EXCEPT ![upload[u].woff + 1] = b]  OBVIOUS
    <2>4. Changes(u, f) /\ Uploading(u)  BY <1>8, <2>1, <2>2, <2>3 DEF UploadWrites, Uploading
    <2>5. InPlace(g)  BY <2>2 DEF OnDisk, Content
    <2>6. upload[u].woff + 1 \in 1..Len(g)  BY <1>1, <1>8, <2>2 DEF UploadWrites
    <2>7. b[2] = upload[u].woff + 1  BY <2>1 DEF Block
    <2>8. Len(f) = Len(g) /\ \A k \in 1..Len(g) : f[k] = IF k = upload[u].woff + 1 THEN b ELSE g[k]
      BY <2>2, <2>3, <2>6
    <2>9. InPlace(f)
      <3>1. ASSUME NEW k \in 1..Len(g), f[k] # Hole PROVE astray \/ f[k][2] = k
        <4>1. CASE k = upload[u].woff + 1  BY <2>7, <2>8, <4>1
        <4>2. CASE k # upload[u].woff + 1  BY <2>5, <2>8, <3>1, <4>2 DEF InPlace
        <4> QED  BY <4>1, <4>2
      <3> QED  BY <2>8, <3>1 DEF InPlace
    <2> QED  BY <1>0, <1>2, <1>8, <2>4, <2>9
  <1>9. CASE \/ \E v \in Versions, i \in Inodes : UploadOpens(u, v, i)
             \/ UploadGivesUp(u) \/ UploadExtendFails(u) \/ UploadCompletes(u) \/ UploadStopFails(u)
    <2>1. disk' = disk
      BY <1>9 DEF UploadOpens, UploadGivesUp, UploadExtendFails, UploadCompletes, UploadStopFails
    <2> QED  BY <1>0, <1>4, <2>1
  <1> QED
    BY <1>5, <1>6, <1>7, <1>8, <1>9 DEF Upload

\* The connection is dead, the client as before or out of its command.
LEMMA CutOff ==
    ASSUME Conversation, link' = "broken", cpc' = cpc \/ cpc' \in {"idle", "down"},
           s2c' = s2c \/ s2c' = <<>>, serverSize' = serverSize \/ cpc' # "recv",
           UNCHANGED <<local, astray>>, Done'
    PROVE  Conversation'
  <1>1. InPlace(local)'  BY DEF Conversation, InPlace
  <1>0. s2c' = s2c \/ Len(s2c') = 0  OBVIOUS
  <1>2. Offers' /\ Positions'  BY <1>0 DEF Conversation, Offers, Positions
  <1>3. Coming /\ serverSize' = serverSize => Coming'  BY <1>0 DEF Coming
  <1>4. Receiving'  BY <1>3 DEF Conversation, Receiving
  <1> QED  BY <1>1, <1>2, <1>4 DEF Conversation

\* The client takes a packet.
LEMMA Taken ==
    ASSUME Typing, Offers, s2c # <<>>, s2c' = Tail(s2c), UNCHANGED <<link, spc, total>>
    PROVE  /\ Offers'
           /\ Len(s2c) \in Nat /\ Len(s2c) >= 1 /\ Head(s2c) = s2c[1] /\ Len(s2c') = Len(s2c) - 1
           /\ \A j \in 1..Len(s2c') : s2c'[j] = s2c[j + 1] /\ j + 1 \in 1..Len(s2c)
           /\ Head(s2c).type = "GETS_RESP" =>
                 Len(s2c') = 0 /\ (link = "up" => spc = "resume" /\ Head(s2c).size = total)
  <1>1. s2c \in Seq(Responses)  BY DEF Typing, TypeOK
  <1>2. /\ Len(s2c) \in Nat /\ Len(s2c) >= 1 /\ Head(s2c) = s2c[1] /\ Len(s2c') = Len(s2c) - 1
        /\ \A j \in 1..Len(s2c') : s2c'[j] = s2c[j + 1] /\ j + 1 \in 1..Len(s2c)
    BY <1>1, QueueFacts
  <1>3. Offers'
    <2>1. ASSUME NEW j \in 1..Len(s2c'), s2c'[j].type = "GETS_RESP"
          PROVE  j = Len(s2c') /\ (link = "up" => spc = "resume" /\ s2c'[j].size = total)
      <3>1. j + 1 = Len(s2c) /\ (link = "up" => spc = "resume" /\ s2c[j + 1].size = total)
        BY <1>2, <2>1 DEF Offers
      <3>2. PICK n \in Nat : n = Len(s2c)  BY <1>2
      <3>3. j \in Nat  BY <2>1
      <3>5. Len(s2c') = n - 1 /\ j + 1 = n  BY <1>2, <3>1, <3>2
      <3>4. j = Len(s2c')  BY <3>3, <3>5
      <3> QED  BY <1>2, <3>1, <3>4
    <2> QED  BY <2>1 DEF Offers
  <1>4. 1 \in 1..Len(s2c)  BY <1>2
  <1>5. Head(s2c).type = "GETS_RESP" =>
           Len(s2c') = 0 /\ (link = "up" => spc = "resume" /\ Head(s2c).size = total)
    <2>1. ASSUME Head(s2c).type = "GETS_RESP" PROVE 1 = Len(s2c) /\ (link = "up" => spc = "resume" /\ Head(s2c).size = total)
      BY <1>2, <1>4, <2>1 DEF Offers
    <2>2. 1 = Len(s2c) => Len(s2c') = 0  BY <1>2
    <2> QED  BY <2>1, <2>2
  <1> QED  BY <1>2, <1>3, <1>5

LEMMA ClientConverses ==
    ASSUME Typing, Conversation, ClientStep \/ User \/ LinkBreaks
    PROVE  Conversation'
  <1>0. astray' = astray
    BY DEF ClientStep, RecvText, RecvGetsResp, LocalOpenFails, RecvRefusal, RecvFileData, LocalWriteFails, RecvEnd,
           ClientIoFails, User, Connect, StartGets, StartSimple, Leave, LinkBreaks, bounds, history
  <1>1. /\ c2s \in Seq(Requests) /\ s2c \in Seq(Responses) /\ local \in Seq(Blocks)
        /\ Len(c2s) \in Nat /\ Len(s2c) \in Nat /\ Len(local) \in Nat /\ serverSize \in Nat /\ total \in Nat
        /\ soff \in Nat /\ link \in {"up", "broken"}
        /\ InPlace(local) /\ Offers /\ Positions /\ Receiving /\ Done
    BY DEF Typing, TypeOK, Conversation
  <1>2. ASSUME cpc # "recv", link = "up", NEW j \in 1..Len(c2s) PROVE c2s[j].type # "RESUME_POS"
    BY <1>1, <1>2 DEF Positions
  \* It takes a packet and is back at the prompt.
  <1>3. ASSUME s2c # <<>>, s2c' = Tail(s2c), UNCHANGED <<link, spc, total, c2s, local>>, cpc' = "idle", Done'
        PROVE  Conversation'
    <2>1. Offers' /\ Len(s2c) # 0  BY <1>1, <1>3, Taken
    <2>2. Positions'
      <3>1. ASSUME link = "up", NEW j \in 1..Len(c2s), c2s[j].type = "RESUME_POS" PROVE FALSE
        BY <1>1, <1>2, <2>1, <3>1 DEF Positions, Receiving, Resuming, Streaming, Ended
      <3> QED  BY <1>3, <3>1 DEF Positions
    <2>3. Receiving'  BY <1>3 DEF Receiving
    <2>4. InPlace(local)'  BY <1>0, <1>1, <1>3 DEF InPlace
    <2> QED  BY <1>3, <2>1, <2>2, <2>3, <2>4 DEF Conversation
  <1>4. CASE RecvText
    <2>1. Done'  BY <1>1, <1>4 DEF RecvText, Done
    <2> QED  BY <1>3, <1>4, <2>1 DEF RecvText, serverVars
  <1>5. CASE RecvRefusal
    <2>1. Done'  BY <1>5 DEF RecvRefusal, Return, Done
    <2> QED  BY <1>3, <1>5, <2>1 DEF RecvRefusal, Return, serverVars
  <1>6. CASE LocalOpenFails \/ LocalWriteFails
    <2>1. Done'  BY <1>6 DEF LocalOpenFails, LocalWriteFails, Return, Done
    <2> QED  BY <1>3, <1>6, <2>1 DEF LocalOpenFails, LocalWriteFails, ClientGets, Return, serverVars
  <1>7. CASE RecvEnd
    <2>1. /\ cpc = "recv" /\ s2c # <<>> /\ s2c' = Tail(s2c) /\ cpc' = "idle"
          /\ outcome' = (IF ClientGets("FILE_END") THEN "done" ELSE "none")
          /\ UNCHANGED <<link, spc, total, c2s, local>>
          /\ ClientGets("FILE_END") => serverSize' = serverSize
      BY <1>7 DEF RecvEnd, Return, serverVars
    <2>2. Done'
      <3>1. CASE ClientGets("FILE_END")
        <4>1. 1 \in 1..Len(s2c) /\ s2c[1].type = "FILE_END"
          BY <1>1, <2>1, <3>1, Taken DEF ClientGets
        <4>2. Len(local) + 1 = serverSize + 1  BY <1>0, <1>1, <2>1, <4>1 DEF Receiving, Coming
        <4>3. Len(local) = serverSize  BY <1>1, <4>2
        <4> QED  BY <2>1, <4>3 DEF Done
      <3>2. CASE ~ClientGets("FILE_END")  BY <2>1, <3>2 DEF Done
      <3> QED  BY <3>1, <3>2
    <2> QED  BY <1>3, <2>1, <2>2
  <1>8. CASE RecvGetsResp
    <2>1. PICK p : p = [type |-> "RESUME_POS", offset |-> Len(local')]  OBVIOUS
    <2>2. /\ cpc = "waitResp" /\ cpc' = "recv" /\ s2c # <<>> /\ s2c' = Tail(s2c)
          /\ Head(s2c).type = "GETS_RESP" /\ serverSize' = Head(s2c).size
          /\ local' = (IF Len(local) > serverSize' THEN <<>> ELSE local) /\ ToServer(p)
          /\ UNCHANGED <<link, spc, total, outcome>>
      BY <1>8, <2>1 DEF RecvGetsResp, ClientGets, serverVars
    <2>3. /\ Offers' /\ Len(s2c') = 0
          /\ link = "up" => spc = "resume" /\ serverSize' = total
      BY <1>1, <2>2, Taken
    <2>4. InPlace(local)' /\ Len(local') \in Nat /\ Len(local') <= serverSize'
      <3>1. serverSize' \in Nat
        <4>1. Head(s2c) \in Responses  BY <1>1, <2>2, QueueFacts
        <4> QED  BY <2>2, <4>1, ResponseFacts
      <3>2. CASE Len(local) > serverSize'
        <4>1. Len(local') = 0  BY <2>2, <3>2
        <4> QED  BY <1>0, <3>1, <4>1 DEF InPlace
      <3>3. CASE ~(Len(local) > serverSize')
        <4>1. local' = local  BY <2>2, <3>3
        <4> QED  BY <1>0, <1>1, <3>1, <3>3, <4>1 DEF InPlace
      <3> QED  BY <3>2, <3>3
    <2>5. link = "up" =>
             /\ Len(c2s') = Len(c2s) + 1 /\ c2s'[Len(c2s')] = p
             /\ \A j \in 1..Len(c2s') : j # Len(c2s') => j \in 1..Len(c2s) /\ c2s'[j] = c2s[j]
      <3>1. p \in Requests  BY <2>1, <2>4, RequestFacts
      <3>2. link = "up" => c2s' = Append(c2s, p)  BY <2>2 DEF ToServer
      <3>3. PICK q : q = Append(c2s, p)  OBVIOUS
      <3>4. Len(q) = Len(c2s) + 1 /\ q[Len(c2s) + 1] = p /\ \A j \in 1..Len(c2s) : q[j] = c2s[j]
        BY <1>1, <3>1, <3>3, QueueFacts
      <3>5. \A j \in 1..Len(q) : j # Len(q) => j \in 1..Len(c2s)  BY <1>1, <3>4
      <3> QED  BY <1>1, <3>2, <3>3, <3>4, <3>5
    <2>6. Positions'
      <3>1. ASSUME link = "up", NEW j \in 1..Len(c2s'), c2s'[j].type = "RESUME_POS" PROVE j = Len(c2s')
        <4>1. j # Len(c2s') => j \in 1..Len(c2s) /\ c2s[j].type = "RESUME_POS"  BY <2>5, <3>1
        <4> QED  BY <1>2, <2>2, <3>1, <4>1
      <3> QED  BY <2>2, <2>3, <3>1 DEF Positions
    <2>7. Receiving'
      <3>1. Coming'  BY <1>0, <2>3 DEF Coming
      <3>2. link = "up" => Resuming'
        <4>1. link = "up" => Len(c2s') >= 1  BY <1>1, <2>5
        <4> QED  BY <2>1, <2>2, <2>3, <2>4, <2>5, <4>1 DEF Resuming
      <3> QED  BY <2>2, <3>1, <3>2 DEF Receiving
    <2>8. Done'  BY <1>1, <2>2 DEF Done
    <2> QED  BY <2>3, <2>4, <2>6, <2>7, <2>8 DEF Conversation
  <1>9. CASE RecvFileData
    <2>1. PICK b : b = Head(s2c).block  OBVIOUS
    <2>2. /\ cpc = "recv" /\ s2c # <<>> /\ s2c' = Tail(s2c) /\ Head(s2c).type = "FILE_DATA"
          /\ local' = Append(local, b)
          /\ UNCHANGED <<link, spc, total, soff, c2s, cpc, serverSize, outcome>>
      BY <1>9, <2>1 DEF RecvFileData, ClientGets, serverVars
    <2>3. /\ Offers' /\ Len(s2c) >= 1 /\ Head(s2c) = s2c[1] /\ Len(s2c') = Len(s2c) - 1
          /\ \A j \in 1..Len(s2c') : s2c'[j] = s2c[j + 1] /\ j + 1 \in 1..Len(s2c)
      BY <1>1, <2>2, Taken
    <2>4. /\ Len(local') = Len(local) + 1 /\ local'[Len(local) + 1] = b
          /\ \A j \in 1..Len(local) : local'[j] = local[j]
      <3>1. b \in Blocks
        <4>1. Head(s2c) \in Responses  BY <1>1, <2>2, QueueFacts
        <4> QED  BY <2>1, <2>2, <4>1, ResponseFacts
      <3> QED  BY <1>1, <2>2, <3>1, QueueFacts
    <2>5. Coming  BY <1>1, <2>2 DEF Receiving
    <2>6. b # Hole => astray \/ b[2] = Len(local) + 1
      <3>1. 1 \in 1..Len(s2c)  BY <1>1, <2>3
      <3> QED  BY <1>0, <2>1, <2>2, <2>3, <2>5, <3>1 DEF Coming
    <2>7. InPlace(local)'
      <3>1. PICK f : f = local'  OBVIOUS
      <3>2. ASSUME NEW k \in 1..Len(f), f[k] # Hole PROVE astray \/ f[k][2] = k
        <4>1. k \in 1..Len(local) \/ k = Len(local) + 1  BY <1>1, <2>4, <3>1
        <4>2. CASE k = Len(local) + 1  BY <2>4, <2>6, <3>1, <3>2, <4>2
        <4>3. CASE k \in 1..Len(local)  BY <1>0, <1>1, <2>4, <3>1, <3>2, <4>3 DEF InPlace
        <4> QED  BY <4>1, <4>2, <4>3
      <3> QED  BY <1>0, <3>1, <3>2 DEF InPlace
    <2>8. Coming'
      <3>1. ASSUME NEW j \in 1..Len(s2c')
            PROVE  /\ s2c'[j].type = "FILE_DATA" /\ s2c'[j].block # Hole => astray \/ s2c'[j].block[2] = Len(local') + j
                   /\ s2c'[j].type = "FILE_END" => Len(local') + j = serverSize + 1
        <4>1. s2c'[j] = s2c[j + 1] /\ j + 1 \in 1..Len(s2c) /\ j \in Nat  BY <2>3
        <4>2. Len(local') + j = Len(local) + (j + 1)  BY <1>1, <2>4, <4>1
        <4> QED  BY <1>0, <2>5, <4>1, <4>2 DEF Coming
      <3> QED  BY <1>0, <2>2, <3>1 DEF Coming
    <2>9. Receiving'
      <3>1. ASSUME link = "up" PROVE Resuming' \/ Streaming' \/ Ended'
        <4>1. Streaming \/ Ended  BY <1>1, <2>2, <2>3, <3>1 DEF Receiving, Resuming
        <4>2. CASE Streaming
          <5>1. Len(local) + Len(s2c) = Len(local') + Len(s2c')  BY <1>1, <2>3, <2>4
          <5> QED  BY <2>2, <4>2, <5>1 DEF Streaming
        <4>3. CASE Ended  BY <2>2, <4>3 DEF Ended
        <4> QED  BY <4>1, <4>2, <4>3
      <3> QED  BY <2>2, <2>8, <3>1 DEF Receiving
    <2>10. Positions'  BY <1>1, <2>2 DEF Positions
    <2>11. Done'  BY <1>1, <2>2 DEF Done
    <2> QED  BY <2>3, <2>7, <2>9, <2>10, <2>11 DEF Conversation
  <1>10. CASE ClientIoFails
    <2>1. Done' /\ cpc' = "idle"  BY <1>1, <1>10 DEF ClientIoFails, Return, Done
    <2> QED  BY <1>0, <1>10, <2>1, CutOff DEF ClientIoFails, netVars
  <1>11. CASE Leave \/ LinkBreaks
    <2>1. Done'  BY <1>1, <1>11 DEF Leave, LinkBreaks, clientVars, Done
    <2> QED  BY <1>0, <1>11, <2>1, CutOff DEF Leave, LinkBreaks, clientVars
  <1>12. CASE Connect
    <2>1. /\ cpc' = "idle" /\ Len(c2s') = 0 /\ Len(s2c') = 0 /\ UNCHANGED <<local, serverSize, outcome>>
      BY <1>12 DEF Connect
    <2>2. Offers' /\ Positions' /\ Receiving' /\ Done'
      BY <1>1, <2>1 DEF Offers, Positions, Receiving, Done
    <2>3. InPlace(local)'  BY <1>0, <1>1, <2>1 DEF InPlace
    <2> QED  BY <2>2, <2>3 DEF Conversation
  <1>13. CASE StartGets \/ StartSimple
    <2>1. PICK p \in Requests : ToServer(p) /\ p.type # "RESUME_POS"
      BY <1>13, RequestFacts DEF StartGets, StartSimple
    <2>2. /\ cpc = "idle" /\ cpc' \in {"waitResp", "waitText"}
          /\ UNCHANGED <<link, s2c, local, spc, total>>
          /\ outcome' = "none" \/ (UNCHANGED <<outcome, serverSize>> /\ cpc' = "waitText")
      BY <1>13 DEF StartGets, StartSimple, serverVars
    <2>3. Positions'
      <3>0. CASE link # "up"  BY <2>2, <3>0 DEF Positions
      <3>1. PICK q : q = Append(c2s, p)  OBVIOUS
      <3>2. link = "up" => c2s' = q  BY <2>1, <2>2, <3>1 DEF ToServer
      <3>3. Len(q) = Len(c2s) + 1 /\ q[Len(c2s) + 1] = p /\ \A j \in 1..Len(c2s) : q[j] = c2s[j]
        BY <1>1, <2>1, <3>1, QueueFacts
      <3>4. ASSUME link = "up", NEW j \in 1..Len(q) PROVE q[j].type # "RESUME_POS"
        <4>1. j \in 1..Len(c2s) \/ j = Len(c2s) + 1  BY <1>1, <3>3
        <4> QED  BY <1>2, <2>1, <2>2, <3>3, <3>4, <4>1
      <3> QED  BY <2>2, <3>0, <3>2, <3>4 DEF Positions
    <2>4. Offers' /\ Receiving' /\ Done'  BY <1>1, <2>2 DEF Offers, Receiving, Done
    <2>5. InPlace(local)'  BY <1>0, <1>1, <2>2 DEF InPlace
    <2> QED  BY <2>3, <2>4, <2>5 DEF Conversation
  <1> QED
    BY <1>4, <1>5, <1>6, <1>7, <1>8, <1>9, <1>10, <1>11, <1>12, <1>13 DEF ClientStep, User

LEMMA WorkerConverses ==
    ASSUME Typing, OnDisk, Conversation, Worker
    PROVE  Conversation'
  <1>0. astray' = astray
    BY DEF Worker, RecvGetsReq, Reply, SendGetsResp, RecvResumePos, RecvNoResumePos, SendFileData,
           SendfileRunsDry, SendFileEnd, WorkerIoFails, CloseSession, bounds, history
  <1>1. /\ c2s \in Seq(Requests) /\ s2c \in Seq(Responses) /\ local \in Seq(Blocks)
        /\ Len(c2s) \in Nat /\ Len(s2c) \in Nat /\ Len(local) \in Nat /\ serverSize \in Nat /\ total \in Nat
        /\ soff \in Nat /\ link \in {"up", "broken"}
        /\ InPlace(local) /\ Offers /\ Positions /\ Receiving /\ Done
    BY DEF Typing, TypeOK, Conversation
  <1>2. UNCHANGED clientVars
    BY DEF Worker, RecvGetsReq, Reply, SendGetsResp, RecvResumePos, RecvNoResumePos, SendFileData,
           SendfileRunsDry, SendFileEnd, WorkerIoFails, CloseSession
  <1>3. UNCHANGED <<cpc, local, serverSize, outcome>> /\ InPlace(local)' /\ Done'
    <2>1. UNCHANGED <<cpc, local, serverSize, outcome>>  BY <1>2 DEF clientVars
    <2> QED  BY <1>0, <1>1, <2>1 DEF InPlace, Done
  <1>4. CASE RecvNoResumePos \/ SendfileRunsDry \/ WorkerIoFails
    <2>1. link' = "broken" /\ s2c' = s2c
      BY <1>4 DEF RecvNoResumePos, SendfileRunsDry, WorkerIoFails, CloseSession
    <2> QED  BY <1>0, <1>3, <2>1, CutOff
  \* On a broken connection nothing arrives.
  <1>5. ASSUME ~(RecvNoResumePos \/ SendfileRunsDry \/ WorkerIoFails), link = "broken" PROVE Conversation'
    <2>1. link' = "broken" /\ s2c' = s2c
      BY <1>5 DEF Worker, RecvGetsReq, Reply, SendGetsResp, RecvResumePos, SendFileData, SendFileEnd, ToClient
    <2> QED  BY <1>0, <1>3, <2>1, CutOff
  \* On a live one the worker sends p.
  <1>6. ASSUME NEW p \in Responses, ToClient(p), link = "up"
        PROVE  /\ Len(s2c') = Len(s2c) + 1 /\ s2c'[Len(s2c) + 1] = p
               /\ \A j \in 1..Len(s2c) : s2c'[j] = s2c[j]
               /\ \A j \in 1..Len(s2c') : j \in 1..Len(s2c) \/ j = Len(s2c) + 1
    <2>1. PICK q : q = Append(s2c, p)  OBVIOUS
    <2>2. s2c' = q  BY <1>6, <2>1 DEF ToClient
    <2>3. Len(q) = Len(s2c) + 1 /\ q[Len(s2c) + 1] = p /\ \A j \in 1..Len(s2c) : q[j] = s2c[j]
      BY <1>1, <1>6, <2>1, QueueFacts
    <2>4. \A j \in 1..Len(q) : j \in 1..Len(s2c) \/ j = Len(s2c) + 1  BY <1>1, <2>3
    <2> QED  BY <2>2, <2>3, <2>4
  \* A block or FILE_END follows what was sent before.
  <1>7. ASSUME NEW p \in Responses, ToClient(p), link = "up", cpc = "recv",
               p.type = "FILE_DATA" /\ p.block # Hole => astray \/ p.block[2] = Len(local) + (Len(s2c) + 1),
               p.type = "FILE_END" => Len(local) + (Len(s2c) + 1) = serverSize + 1
        PROVE  Coming'
    <2>1. Coming  BY <1>1, <1>7 DEF Receiving
    <2>2. ASSUME NEW j \in 1..Len(s2c')
          PROVE  /\ s2c'[j].type = "FILE_DATA" /\ s2c'[j].block # Hole => astray \/ s2c'[j].block[2] = Len(local) + j
                 /\ s2c'[j].type = "FILE_END" => Len(local) + j = serverSize + 1
      <3>1. CASE j \in 1..Len(s2c)
        <4>1. s2c'[j] = s2c[j]  BY <1>6, <1>7, <3>1
        <4> QED  BY <1>0, <2>1, <3>1, <4>1 DEF Coming
      <3>2. CASE j = Len(s2c) + 1
        <4>1. s2c'[j] = p  BY <1>6, <1>7, <3>2
        <4> QED  BY <1>7, <3>2, <4>1
      <3> QED  BY <1>6, <1>7, <3>1, <3>2
    <2> QED  BY <1>0, <1>3, <2>2 DEF Coming
  \* A packet that is no GETS_RESP, when there is none under way.
  <1>8. ASSUME NEW p \in Responses, ToClient(p), link = "up", p.type # "GETS_RESP", spc # "resume"
        PROVE  Offers'
    <2>1. ASSUME NEW j \in 1..Len(s2c') PROVE s2c'[j].type # "GETS_RESP"
      <3>1. CASE j \in 1..Len(s2c)
        <4>1. s2c'[j] = s2c[j]  BY <1>6, <1>8, <3>1
        <4> QED  BY <1>1, <1>8, <3>1, <4>1 DEF Offers
      <3>2. CASE j = Len(s2c) + 1  BY <1>6, <1>8, <3>2
      <3> QED  BY <1>6, <1>8, <3>1, <3>2
    <2> QED  BY <2>1 DEF Offers
  <1>9. ASSUME spc # "resume", link = "up", NEW j \in 1..Len(c2s) PROVE c2s[j].type # "RESUME_POS"
    BY <1>1, <1>9 DEF Positions
  \* The worker takes a command.
  <1>10. ASSUME spc = "idle", c2s # <<>>, c2s' = Tail(c2s), link = "up", link' = link, Offers'
         PROVE  Conversation'
    <2>1. Len(c2s) >= 1  BY <1>1, <1>10, QueueFacts
    <2>2. cpc # "recv"  BY <1>1, <1>10, <2>1 DEF Receiving, Resuming, Streaming, Ended
    <2>3. \A j \in 1..Len(c2s') : c2s'[j] = c2s[j + 1] /\ j + 1 \in 1..Len(c2s)
      BY <1>1, <1>10, QueueFacts
    <2>4. Positions'  BY <1>9, <1>10, <2>3 DEF Positions
    <2>5. Receiving'  BY <1>3, <2>2 DEF Receiving
    <2> QED  BY <1>3, <1>10, <2>4, <2>5 DEF Conversation
  <1>11. CASE RecvGetsReq /\ link = "up"
    <2>1. spc = "idle" /\ c2s # <<>> /\ c2s' = Tail(c2s) /\ link' = link /\ s2c' = s2c
      BY <1>11 DEF RecvGetsReq, ServerGets
    <2>2. Offers'  BY <1>1, <1>11, <2>1 DEF Offers
    <2> QED  BY <1>10, <1>11, <2>1, <2>2
  <1>12. CASE Reply /\ link = "up"
    <2>1. PICK p \in Responses : ToClient(p) /\ p.type # "GETS_RESP"
      <3>1. PICK p : p = [type |-> IF ServerGets("PWD") THEN "ACK" ELSE "ERROR"]  OBVIOUS
      <3>2. ToClient(p)  BY <1>12, <3>1 DEF Reply
      <3>3. p \in Responses /\ p.type # "GETS_RESP"  BY <3>1, ResponseFacts
      <3> QED  BY <3>2, <3>3
    <2>2. spc = "idle" /\ c2s # <<>> /\ c2s' = Tail(c2s) /\ link' = link
      BY <1>12 DEF Reply
    <2> QED  BY <1>8, <1>10, <1>12, <2>1, <2>2
  <1>13. CASE SendGetsResp /\ link = "up"
    <2>1. PICK p : p = [type |-> "GETS_RESP", size |-> total]  OBVIOUS
    <2>2. /\ spc = "respond" /\ spc' = "resume" /\ ToClient(p)
          /\ UNCHANGED <<link, c2s, total>>
      BY <1>13, <2>1 DEF SendGetsResp
    <2>3. p \in Responses /\ p.type = "GETS_RESP" /\ p.size = total
      BY <2>1, <2>2, ResponseFacts DEF Typing, Measured
    <2>4. cpc # "recv"  BY <1>1, <1>13, <2>2 DEF Receiving, Resuming, Streaming, Ended
    <2>5. Offers'
      <3>1. ASSUME NEW j \in 1..Len(s2c'), s2c'[j].type = "GETS_RESP"
            PROVE  j = Len(s2c') /\ s2c'[j].size = total'
        <4>1. CASE j \in 1..Len(s2c)
          <5>1. s2c[j].type = "GETS_RESP"  BY <1>6, <1>13, <2>2, <2>3, <3>1, <4>1
          <5> QED  BY <1>1, <1>13, <2>2, <4>1, <5>1 DEF Offers
        <4>2. CASE j = Len(s2c) + 1  BY <1>6, <1>13, <2>2, <2>3, <4>2
        <4> QED  BY <1>6, <1>13, <2>2, <2>3, <4>1, <4>2
      <3> QED  BY <2>2, <3>1 DEF Offers
    <2>6. Positions'  BY <1>9, <1>13, <2>2 DEF Positions
    <2>7. Receiving'  BY <1>3, <2>4 DEF Receiving
    <2> QED  BY <1>3, <2>5, <2>6, <2>7 DEF Conversation
  <1>14. CASE RecvResumePos /\ link = "up"
    <2>1. /\ spc = "resume" /\ spc' = "sending" /\ c2s # <<>> /\ Head(c2s).type = "RESUME_POS"
          /\ c2s' = Tail(c2s) /\ soff' = (IF Head(c2s).offset > total THEN 0 ELSE Head(c2s).offset)
          /\ UNCHANGED <<link, s2c, total>>
      BY <1>14 DEF RecvResumePos, ServerGets
    <2>2. Len(c2s) >= 1 /\ Head(c2s) = c2s[1] /\ Len(c2s') = Len(c2s) - 1 /\ 1 \in 1..Len(c2s)
      BY <1>1, <2>1, QueueFacts
    <2>3. Len(c2s) = 1 /\ cpc = "recv"  BY <1>1, <1>14, <2>1, <2>2 DEF Positions
    <2>4. Len(c2s') = 0  BY <2>2, <2>3
    <2>5. Resuming  BY <1>1, <1>14, <2>1, <2>3 DEF Receiving, Streaming, Ended
    <2>6. soff' = Len(local)  BY <1>1, <2>1, <2>2, <2>3, <2>5 DEF Resuming
    <2>7. Streaming'  BY <1>1, <1>3, <2>1, <2>4, <2>5, <2>6 DEF Streaming, Resuming
    <2>8. Coming'  BY <1>0, <2>1, <2>5 DEF Coming, Resuming
    <2>9. Offers'  BY <2>1, <2>5 DEF Offers, Resuming
    <2>10. Positions'  BY <2>4 DEF Positions
    <2>11. Receiving'  BY <2>7, <2>8 DEF Receiving
    <2> QED  BY <1>3, <2>9, <2>10, <2>11 DEF Conversation
  <1>15. CASE SendFileData /\ link = "up"
    <2>1. PICK b : b = disk[fd][soff + 1]  OBVIOUS
    <2>2. PICK p : p = [type |-> "FILE_DATA", block |-> b]  OBVIOUS
    <2>3. /\ spc = "sending" /\ soff < total /\ soff < Len(disk[fd]) /\ ToClient(p) /\ soff' = soff + 1
          /\ UNCHANGED <<link, c2s, spc, total>>
      BY <1>15, <2>1, <2>2 DEF SendFileData
    <2>4. fd \in Inodes /\ disk[fd] \in Seq(Blocks)
      BY <2>3 DEF Typing, TypeOK
    <2>5. soff + 1 \in 1..Len(disk[fd])  BY <1>1, <2>3, <2>4
    <2>6. b \in Blocks /\ (b # Hole => astray \/ b[2] = soff + 1)
      <3>1. b \in Blocks  BY <2>1, <2>4, <2>5
      <3>2. InPlace(disk[fd])  BY <2>4 DEF OnDisk
      <3> QED  BY <1>0, <2>1, <2>5, <3>1, <3>2 DEF InPlace
    <2>7. p \in Responses /\ p.type = "FILE_DATA" /\ p.block = b  BY <2>2, <2>6, ResponseFacts
    <2>8. Offers'  BY <1>8, <1>15, <2>3, <2>7
    <2>9. Positions'  BY <1>9, <1>15, <2>3 DEF Positions
    <2>10. ASSUME cpc = "recv" PROVE Coming' /\ Streaming'
      <3>1. Streaming  BY <1>1, <1>15, <2>3, <2>10 DEF Receiving, Resuming, Ended
      <3>2. soff + 1 = Len(local) + (Len(s2c) + 1)  BY <1>1, <3>1 DEF Streaming
      <3>3. Coming'  BY <1>7, <1>15, <2>3, <2>6, <2>7, <2>10, <3>2
      <3>4. Len(s2c') = Len(s2c) + 1  BY <1>6, <1>15, <2>3, <2>7
      <3>5. soff' = Len(local) + Len(s2c') /\ soff' <= total  BY <1>1, <2>3, <3>2, <3>4
      <3> QED  BY <1>3, <2>3, <3>1, <3>3, <3>5 DEF Streaming
    <2>11. Receiving'  BY <1>3, <2>10 DEF Receiving
    <2> QED  BY <1>3, <2>8, <2>9, <2>11 DEF Conversation
  <1>16. CASE SendFileEnd /\ link = "up"
    <2>1. PICK p : p = [type |-> "FILE_END"]  OBVIOUS
    <2>2. /\ spc = "sending" /\ soff >= total /\ ToClient(p) /\ spc' = "idle"
          /\ UNCHANGED <<link, c2s>>
      BY <1>16, <2>1 DEF SendFileEnd
    <2>3. p \in Responses /\ p.type = "FILE_END"  BY <2>1, ResponseFacts
    <2>4. Offers'  BY <1>8, <1>16, <2>2, <2>3
    <2>5. Positions'  BY <1>9, <1>16, <2>2 DEF Positions
    <2>6. ASSUME cpc = "recv" PROVE Coming' /\ Ended'
      <3>1. Streaming  BY <1>1, <1>16, <2>2, <2>6 DEF Receiving, Resuming, Ended
      <3>2. Len(local) + (Len(s2c) + 1) = serverSize + 1  BY <1>1, <2>2, <3>1 DEF Streaming
      <3>3. Coming'  BY <1>7, <1>16, <2>2, <2>3, <2>6, <3>2
      <3> QED  BY <2>2, <3>1, <3>3 DEF Streaming, Ended
    <2>7. Receiving'  BY <1>3, <2>6 DEF Receiving
    <2> QED  BY <1>3, <2>4, <2>5, <2>7 DEF Conversation
  <1> QED
    BY <1>1, <1>4, <1>5, <1>11, <1>12, <1>13, <1>14, <1>15, <1>16 DEF Worker

LEMMA NextStream == StreamInv /\ [Next]_vars => StreamInv'
  <1> SUFFICES ASSUME StreamInv, [Next]_vars PROVE StreamInv'  OBVIOUS
  <1>1. Typing /\ OnDisk /\ Conversation /\ Typing'  BY NextTyping DEF StreamInv
  <1>2. ASSUME UNCHANGED <<netVars, clientVars, serverVars>>, astray => astray' PROVE Conversation'
    BY <1>1, <1>2 DEF netVars, clientVars, serverVars, Conversation, InPlace, Offers, Positions, Receiving,
                      Coming, Resuming, Streaming, Ended, Done
  <1>3. ASSUME UNCHANGED disk, astray => astray' PROVE OnDisk'
    BY <1>1, <1>3 DEF OnDisk, InPlace
  <1>4. CASE UNCHANGED vars
    BY <1>1, <1>2, <1>3, <1>4 DEF vars, diskVars, bounds, history, StreamInv
  <1>5. CASE ClientStep \/ User \/ LinkBreaks
    <2>1. UNCHANGED <<disk, astray>>
      BY <1>5 DEF ClientStep, RecvText, RecvGetsResp, LocalOpenFails, RecvRefusal, RecvFileData,
                  LocalWriteFails, RecvEnd, ClientIoFails, User, Connect, StartGets, StartSimple, Leave,
                  LinkBreaks, diskVars, bounds, history
    <2> QED  BY <1>1, <1>3, <1>5, <2>1, ClientConverses DEF StreamInv
  <1>6. CASE Worker
    <2>1. UNCHANGED <<disk, astray>>
      BY <1>6 DEF Worker, RecvGetsReq, Reply, SendGetsResp, RecvResumePos, RecvNoResumePos, SendFileData,
                  SendfileRunsDry, SendFileEnd, WorkerIoFails, CloseSession, diskVars, bounds, history
    <2> QED  BY <1>1, <1>3, <1>6, <2>1, WorkerConverses DEF StreamInv
  <1>7. ASSUME NEW u \in Uploaders, Upload(u) PROVE StreamInv'
    <2>1. UNCHANGED <<netVars, clientVars, serverVars>>
      BY <1>7 DEF Upload, UploadOpens, UploadResets, UploadGivesUp, UploadExtends, UploadExtendFails,
                  UploadMmapFails, UploadWrites, UploadCompletes, UploadStops, UploadStopFails
    <2>2. OnDisk' /\ (astray => astray')  BY <1>1, <1>7, UploadPlaces
    <2> QED  BY <1>1, <1>2, <2>1, <2>2 DEF StreamInv
  <1>8. CASE Remove
    <2>1. UNCHANGED <<disk, astray, netVars, clientVars, serverVars>>  BY <1>8 DEF Remove, bounds, history
    <2> QED  BY <1>1, <1>2, <1>3, <2>1 DEF StreamInv
  <1>9. CASE ServerCrash \/ \E u \in Uploaders : Sigbus(u)
    <2>1. ServerDies  BY <1>9 DEF ServerCrash, Sigbus
    <2>2. link' = "broken" /\ UNCHANGED <<disk, s2c, clientVars, astray>>  BY <2>1 DEF ServerDies
    <2>3. UNCHANGED <<cpc, local, serverSize, outcome>>  BY <2>2 DEF clientVars
    <2>4. Done'  BY <1>1, <2>3 DEF Conversation, Done
    <2> QED  BY <1>1, <1>3, <2>2, <2>3, <2>4, CutOff DEF StreamInv
  <1> QED  BY <1>4, <1>5, <1>6, <1>7, <1>8, <1>9 DEF Next

\* handle_gets on both sides counts alike, under every fault and whatever uploads do to
\* the file: a resumed download goes on exactly behind what the client holds.
THEOREM OffsetsMatch == Spec => []OffsetsAgree
  <1>1. StreamInv => OffsetsAgree
    BY DEF StreamInv, Conversation, Receiving, Resuming, Streaming, Ended, OffsetsAgree
  <1> QED  BY <1>1, InitStream, NextStream, PTL DEF Spec

\* Every block the client writes with write_n lies where it lay in an uploaded file.
THEOREM LocalPlaces == Spec => []LocalInPlace
  <1>1. StreamInv => LocalInPlace  BY DEF StreamInv, Conversation, InPlace, LocalInPlace
  <1> QED  BY <1>1, InitStream, NextStream, PTL DEF Spec

\* A download that ends with FILE_END has the size GETS_RESP announced.
THEOREM DoneWhole == Spec => []DoneIsWhole
  <1>1. StreamInv => DoneIsWhole  BY DEF StreamInv, Conversation, Done, DoneIsWhole
  <1> QED  BY <1>1, InitStream, NextStream, PTL DEF Spec

--------------------------------------------------------------------------------
(* Zeros nobody sent. *)

Quiet == (\E u \in Uploaders : Uploading(u)) => ~Downloading

\* No two uploads of one file.
Exclusive == \A t, u \in Uploaders : t # u /\ Uploading(t) /\ Uploading(u) => upload[t].inode # upload[u].inode

\* What an upload has received, or found, is in the file.
Within == \A u \in Uploaders : upload[u].pc \in {"extend", "write"} => upload[u].woff <= Len(Content(u))

\* Zeros lie only where an upload that is going on still has to write.
Filled == \A i \in Inodes : \A k \in 1..Len(disk[i]) : disk[i][k] = Hole =>
              \E u \in Uploaders : /\ upload[u].pc = "write" /\ upload[u].inode = i
                                   /\ upload[u].woff < k /\ k <= Size[upload[u].version]

Genuine == /\ \A k \in 1..Len(local) : local[k] # Hole
           /\ \A j \in 1..Len(s2c) : s2c[j].type = "FILE_DATA" => s2c[j].block # Hole

Apart == ~exposed => Quiet /\ Exclusive /\ Within /\ Filled /\ Genuine

ApartInv == Typing /\ Apart

LEMMA InitApart == Init => ApartInv
  <1> SUFFICES ASSUME Init PROVE ApartInv  OBVIOUS
  <1>1. Len(local) = 0 /\ Len(s2c) = 0 /\ \A i \in Inodes : Len(disk[i]) = 0  BY DEF Init
  <1>2. \A u \in Uploaders : upload[u].pc = "off"  BY NoUploadTypes DEF Init
  <1> QED
    BY <1>1, <1>2, InitTyping DEF ApartInv, Apart, Quiet, Exclusive, Within, Filled, Genuine, Uploading

\* A step of client or worker begins no download while there is an upload.
LEMMA StaysQuiet ==
    ASSUME Typing, Quiet, ClientStep \/ User \/ LinkBreaks \/ Worker, ~exposed'
    PROVE  Quiet' /\ ~exposed
  <1>1. c2s \in Seq(Requests) /\ Len(c2s) \in Nat  BY DEF Typing, TypeOK
  \* A step that leaves Downloading as it is, ends it, or is a part of it.
  <1>2. ASSUME upload' = upload, Downloading' => Downloading PROVE Quiet'
    BY <1>2 DEF Quiet, Uploading
  <1>3. ASSUME c2s' = c2s, spc' = spc \/ spc' \in {"gone", "idle"}, cpc' = cpc \/ cpc' \in {"idle", "down"}
        PROVE  Downloading' => Downloading
    BY <1>3 DEF Downloading
  <1>4. ASSUME c2s # <<>>, c2s' = Tail(c2s), spc' = spc, cpc' = cpc PROVE Downloading' => Downloading
    <2>1. \A j \in 1..Len(c2s') : c2s'[j] = c2s[j + 1] /\ j + 1 \in 1..Len(c2s)
      BY <1>1, <1>4, QueueFacts
    <2> QED  BY <1>4, <2>1 DEF Downloading
  <1>5. CASE RecvText \/ RecvRefusal \/ RecvEnd \/ LocalOpenFails \/ LocalWriteFails \/ ClientIoFails
    <2>1. upload' = upload /\ exposed' = exposed /\ c2s' = c2s /\ spc' = spc /\ cpc' = "idle"
      BY <1>5 DEF RecvText, RecvRefusal, RecvEnd, LocalOpenFails, LocalWriteFails, ClientIoFails, Return,
                  diskVars, netVars, serverVars, bounds, history
    <2> QED  BY <1>2, <1>3, <2>1
  <1>6. CASE RecvGetsResp \/ RecvFileData
    <2>1. upload' = upload /\ exposed' = exposed /\ Downloading
      BY <1>6 DEF RecvGetsResp, RecvFileData, Downloading, diskVars, bounds, history
    <2> QED  BY <1>2, <2>1
  <1>7. CASE Connect
    <2>1. upload' = upload /\ exposed' = exposed /\ cpc' = "idle" /\ spc' = "idle" /\ Len(c2s') = 0
      BY <1>7 DEF Connect, diskVars, history
    <2>2. ~Downloading'  BY <2>1 DEF Downloading
    <2> QED  BY <1>2, <2>1, <2>2
  <1>8. CASE StartGets
    <2>1. upload' = upload /\ (\A u \in Uploaders : ~Uploading(u)) /\ ~exposed
      BY <1>8 DEF StartGets, diskVars
    <2> QED  BY <2>1 DEF Quiet, Uploading
  <1>9. CASE StartSimple
    <2>1. PICK p : p = [type |-> "PWD"]  OBVIOUS
    <2>2. /\ upload' = upload /\ exposed' = exposed /\ spc' = spc /\ cpc' = "waitText"
          /\ (c2s' = Append(c2s, p) \/ c2s' = c2s)
      BY <1>9, <2>1 DEF StartSimple, ToServer, diskVars, serverVars, history
    <2>3. PICK q : q = Append(c2s, p)  OBVIOUS
    <2>4. /\ Len(q) = Len(c2s) + 1 /\ q[Len(c2s) + 1] = p /\ \A j \in 1..Len(c2s) : q[j] = c2s[j]
      BY <1>1, <2>1, <2>3, QueueFacts, RequestFacts
    <2>5. p.type = "PWD"  BY <2>1
    <2>6. ASSUME NEW j \in 1..Len(q), q[j].type # "PWD" PROVE j \in 1..Len(c2s) /\ c2s[j].type # "PWD"
      <3>1. j \in 1..Len(c2s) \/ j = Len(c2s) + 1  BY <1>1, <2>4
      <3> QED  BY <2>4, <2>5, <2>6, <3>1
    <2>7. Downloading' => Downloading  BY <2>2, <2>3, <2>6 DEF Downloading
    <2> QED  BY <1>2, <2>2, <2>7
  <1>10. CASE Leave \/ LinkBreaks
    <2>1. upload' = upload /\ exposed' = exposed /\ c2s' = c2s /\ spc' = spc /\ (cpc' = cpc \/ cpc' = "down")
      BY <1>10 DEF Leave, LinkBreaks, diskVars, clientVars, serverVars, bounds, history
    <2> QED  BY <1>2, <1>3, <2>1
  <1>11. CASE RecvGetsReq
    <2>1. upload' = upload /\ exposed' = exposed /\ c2s # <<>> /\ Head(c2s).type = "GETS_REQ"
      BY <1>11 DEF RecvGetsReq, ServerGets, diskVars, bounds, history
    <2>2. 1 \in 1..Len(c2s) /\ c2s[1].type # "PWD"  BY <1>1, <2>1, QueueFacts
    <2> QED  BY <1>2, <2>1, <2>2 DEF Downloading
  <1>12. CASE Reply
    <2>1. /\ upload' = upload /\ exposed' = exposed /\ c2s # <<>> /\ c2s' = Tail(c2s)
          /\ spc' = spc /\ cpc' = cpc
      BY <1>12 DEF Reply, diskVars, clientVars, serverVars, bounds, history
    <2> QED  BY <1>2, <1>4, <2>1
  <1>13. CASE SendGetsResp \/ RecvResumePos \/ SendFileData \/ SendFileEnd
    <2>1. upload' = upload /\ exposed' = exposed /\ Downloading
      BY <1>13 DEF SendGetsResp, RecvResumePos, SendFileData, SendFileEnd, Downloading, diskVars, bounds, history
    <2> QED  BY <1>2, <2>1
  <1>14. CASE RecvNoResumePos \/ SendfileRunsDry \/ WorkerIoFails
    <2>1. upload' = upload /\ exposed' = exposed /\ cpc' = cpc /\ spc' = "gone" /\ Len(c2s') = 0
      BY <1>14 DEF RecvNoResumePos, SendfileRunsDry, WorkerIoFails, CloseSession, diskVars, clientVars, bounds, history
    <2>2. Downloading' => Downloading  BY <2>1 DEF Downloading
    <2> QED  BY <1>2, <2>1, <2>2
  <1> QED
    BY <1>5, <1>6, <1>7, <1>8, <1>9, <1>10, <1>11, <1>12, <1>13, <1>14 DEF ClientStep, User, Worker

\* The client gets what the worker has read, and the worker reads no zeros.
LEMMA StaysGenuine ==
    ASSUME Typing, Quiet, Filled, Genuine, ClientStep \/ User \/ LinkBreaks \/ Worker
    PROVE  Genuine'
  <1>1. /\ s2c \in Seq(Responses) /\ local \in Seq(Blocks) /\ Len(s2c) \in Nat /\ Len(local) \in Nat
        /\ soff \in Nat
    BY DEF Typing, TypeOK
  <1>2. ASSUME UNCHANGED <<s2c, local>> PROVE Genuine'
    BY <1>2 DEF Genuine
  <1>3. ASSUME s2c # <<>>, s2c' = Tail(s2c)
        PROVE  /\ \A j \in 1..Len(s2c') : s2c'[j].type = "FILE_DATA" => s2c'[j].block # Hole
               /\ Head(s2c).type = "FILE_DATA" => Head(s2c).block # Hole /\ Head(s2c).block \in Blocks
    <2>1. \A j \in 1..Len(s2c') : s2c'[j] = s2c[j + 1] /\ j + 1 \in 1..Len(s2c)
      BY <1>1, <1>3, QueueFacts
    <2>2. Head(s2c) = s2c[1] /\ 1 \in 1..Len(s2c) /\ Head(s2c) \in Responses  BY <1>1, <1>3, QueueFacts
    <2> QED  BY <2>1, <2>2, ResponseFacts DEF Genuine
  <1>4. ASSUME NEW p \in Responses, ToClient(p), p.type = "FILE_DATA" => p.block # Hole, local' = local
        PROVE  Genuine'
    <2>1. PICK q : q = Append(s2c, p)  OBVIOUS
    <2>2. Len(q) = Len(s2c) + 1 /\ q[Len(s2c) + 1] = p /\ \A j \in 1..Len(s2c) : q[j] = s2c[j]
      BY <1>1, <1>4, <2>1, QueueFacts
    <2>3. ASSUME NEW j \in 1..Len(q), q[j].type = "FILE_DATA" PROVE q[j].block # Hole
      <3>1. j \in 1..Len(s2c) \/ j = Len(s2c) + 1  BY <1>1, <2>2
      <3>2. CASE j = Len(s2c) + 1  BY <1>4, <2>2, <2>3, <3>2
      <3>3. CASE j \in 1..Len(s2c)  BY <2>2, <2>3, <3>3 DEF Genuine
      <3> QED  BY <3>1, <3>2, <3>3
    <2>4. s2c' = q \/ s2c' = s2c  BY <1>4, <2>1 DEF ToClient
    <2> QED  BY <1>4, <2>3, <2>4 DEF Genuine
  <1>5. CASE RecvText \/ RecvRefusal \/ RecvEnd \/ LocalOpenFails \/ LocalWriteFails
    <2>1. s2c # <<>> /\ s2c' = Tail(s2c) /\ local' = local
      BY <1>5 DEF RecvText, RecvRefusal, RecvEnd, LocalOpenFails, LocalWriteFails, ClientGets
    <2> QED  BY <1>3, <2>1 DEF Genuine
  <1>6. CASE RecvGetsResp
    <2>1. s2c # <<>> /\ s2c' = Tail(s2c) /\ (local' = local \/ local' = <<>>)
      BY <1>6 DEF RecvGetsResp, ClientGets
    <2>2. \A k \in 1..Len(local') : local'[k] # Hole
      <3>1. CASE local' = local  BY <3>1 DEF Genuine
      <3>2. CASE local' = <<>>
        <4>1. Len(local') = 0  BY <3>2
        <4> QED  BY <4>1
      <3> QED  BY <2>1, <3>1, <3>2
    <2> QED  BY <1>3, <2>1, <2>2 DEF Genuine
  <1>7. CASE RecvFileData
    <2>1. PICK b : b = Head(s2c).block  OBVIOUS
    <2>2. s2c # <<>> /\ s2c' = Tail(s2c) /\ Head(s2c).type = "FILE_DATA" /\ local' = Append(local, b)
      BY <1>7, <2>1 DEF RecvFileData, ClientGets
    <2>3. b # Hole /\ b \in Blocks  BY <1>3, <2>1, <2>2
    <2>4. PICK f : f = Append(local, b)  OBVIOUS
    <2>5. Len(f) = Len(local) + 1 /\ f[Len(local) + 1] = b /\ \A j \in 1..Len(local) : f[j] = local[j]
      BY <1>1, <2>3, <2>4, QueueFacts
    <2>6. ASSUME NEW k \in 1..Len(f) PROVE f[k] # Hole
      <3>1. k \in 1..Len(local) \/ k = Len(local) + 1  BY <1>1, <2>5
      <3> QED  BY <2>3, <2>5, <3>1 DEF Genuine
    <2> QED  BY <1>3, <2>2, <2>4, <2>6 DEF Genuine
  <1>8. CASE ClientIoFails \/ StartGets \/ StartSimple \/ LinkBreaks
    BY <1>2, <1>8 DEF ClientIoFails, StartGets, StartSimple, LinkBreaks, netVars, clientVars
  <1>9. CASE Connect \/ Leave
    <2>1. Len(s2c') = 0 /\ local' = local  BY <1>9 DEF Connect, Leave
    <2> QED  BY <2>1 DEF Genuine
  <1>10. CASE RecvGetsReq \/ RecvResumePos \/ RecvNoResumePos \/ SendfileRunsDry \/ WorkerIoFails
    BY <1>2, <1>10 DEF RecvGetsReq, RecvResumePos, RecvNoResumePos, SendfileRunsDry, WorkerIoFails,
                       CloseSession, clientVars
  <1>11. CASE Reply
    <2>1. PICK p : p = [type |-> IF ServerGets("PWD") THEN "ACK" ELSE "ERROR"]  OBVIOUS
    <2>2. ToClient(p) /\ local' = local  BY <1>11, <2>1 DEF Reply, clientVars
    <2>3. p \in Responses /\ p.type # "FILE_DATA"  BY <2>1, ResponseFacts
    <2> QED  BY <1>4, <2>2, <2>3
  <1>12. CASE SendGetsResp
    <2>1. PICK p : p = [type |-> "GETS_RESP", size |-> total]  OBVIOUS
    <2>2. ToClient(p) /\ local' = local  BY <1>12, <2>1 DEF SendGetsResp, clientVars
    <2>3. p \in Responses /\ p.type # "FILE_DATA"
      BY <1>12, <2>1, ResponseFacts DEF SendGetsResp, Typing, Measured
    <2> QED  BY <1>4, <2>2, <2>3
  <1>13. CASE SendFileData
    <2>1. PICK b : b = disk[fd][soff + 1]  OBVIOUS
    <2>2. PICK p : p = [type |-> "FILE_DATA", block |-> b]  OBVIOUS
    <2>3. spc = "sending" /\ soff < Len(disk[fd]) /\ ToClient(p) /\ local' = local
      BY <1>13, <2>1, <2>2 DEF SendFileData, clientVars
    <2>4. fd \in Inodes /\ disk[fd] \in Seq(Blocks)  BY <2>3 DEF Typing, TypeOK
    <2>5. soff + 1 \in 1..Len(disk[fd])  BY <1>1, <2>3, <2>4
    <2>6. b \in Blocks  BY <2>1, <2>4, <2>5
    <2>7. \A u \in Uploaders : upload[u].pc = "off"  BY <2>3 DEF Quiet, Downloading, Uploading
    <2>8. b # Hole  BY <2>1, <2>4, <2>5, <2>7 DEF Filled
    <2>9. p \in Responses /\ p.block = b  BY <2>2, <2>6, ResponseFacts
    <2> QED  BY <1>4, <2>3, <2>8, <2>9
  <1>14. CASE SendFileEnd
    <2>1. PICK p : p = [type |-> "FILE_END"]  OBVIOUS
    <2>2. ToClient(p) /\ local' = local  BY <1>14, <2>1 DEF SendFileEnd, clientVars
    <2>3. p \in Responses /\ p.type # "FILE_DATA"  BY <2>1, ResponseFacts
    <2> QED  BY <1>4, <2>2, <2>3
  <1> QED
    BY <1>5, <1>6, <1>7, <1>8, <1>9, <1>10, <1>11, <1>12, <1>13, <1>14 DEF ClientStep, User, Worker

\* An upload fills its file in order, and cuts off what it has not filled.
LEMMA StaysFilled ==
    ASSUME Typing, Exclusive, Within, Filled, NEW u \in Uploaders, Upload(u), ~exposed'
    PROVE  Exclusive' /\ Within' /\ Filled'
  <1>1. /\ \A i \in Inodes : disk[i] \in Seq(Blocks) /\ Len(disk[i]) \in Nat
        /\ disk \in [Inodes -> Seq(Blocks)]
        /\ upload[u].version \in Versions /\ upload[u].woff \in Nat /\ Size[upload[u].version] \in Nat
        /\ \A t \in Uploaders : Uploading(t) => upload[t].inode \in Inodes
        /\ upload[u] \in UploadRecords /\ upload \in [Uploaders -> UploadRecords]
        /\ upload[u].pc \in {"extend", "write"} => upload[u].woff <= Size[upload[u].version]
    BY LengthFacts DEF Typing, TypeOK, Uploads, UploadRecords
  \* A hole of u's file is u's.
  <1>2. ASSUME Uploading(u), NEW k \in 1..Len(Content(u)), Content(u)[k] = Hole
        PROVE  upload[u].pc = "write" /\ upload[u].woff < k /\ k <= Size[upload[u].version]
    <2>1. PICK t \in Uploaders : /\ upload[t].pc = "write" /\ upload[t].inode = upload[u].inode
                                 /\ upload[t].woff < k /\ k <= Size[upload[t].version]
      BY <1>1, <1>2 DEF Filled, Content
    <2>2. t = u  BY <1>2, <2>1 DEF Exclusive, Uploading
    <2> QED  BY <2>1, <2>2
  \* The file becomes f, the upload r, the others keep theirs.
  <1>3. ASSUME NEW f, Changes(u, f), Uploading(u), NEW r, upload' = [upload EXCEPT ![u] = r],
               r.pc # "off" => r.inode = upload[u].inode,
               r.pc \in {"extend", "write"} => r.woff <= Len(f),
               \A k \in 1..Len(f) : f[k] = Hole => r.pc = "write" /\ r.woff < k /\ k <= Size[r.version]
        PROVE  Exclusive' /\ Within' /\ Filled'
    <2>1. \A t \in Uploaders : upload'[t] = IF t = u THEN r ELSE upload[t]  BY <1>1, <1>3
    <2>2. /\ upload[u].inode \in Inodes
          /\ \A i \in Inodes : disk'[i] = IF i = upload[u].inode THEN f ELSE disk[i]
      BY <1>1, <1>3 DEF Changes
    <2>3. Exclusive'  BY <1>3, <2>1 DEF Exclusive, Uploading
    <2>4. Within'
      <3>1. ASSUME NEW t \in Uploaders, upload'[t].pc \in {"extend", "write"}
            PROVE  upload'[t].woff <= Len(disk'[upload'[t].inode])
        <4>1. CASE t = u  BY <1>3, <2>1, <2>2, <3>1, <4>1
        <4>2. CASE t # u
          <5>1. upload'[t] = upload[t] /\ Uploading(t)  BY <2>1, <3>1, <4>2 DEF Uploading
          <5>2. upload[t].inode \in Inodes /\ upload[t].inode # upload[u].inode
            BY <1>1, <1>3, <4>2, <5>1 DEF Exclusive
          <5> QED  BY <2>2, <3>1, <5>1, <5>2 DEF Within, Content
        <4> QED  BY <4>1, <4>2
      <3> QED  BY <3>1 DEF Within, Content
    <2>5. Filled'
      <3>1. ASSUME NEW i \in Inodes, NEW k \in 1..Len(disk'[i]), disk'[i][k] = Hole
            PROVE  \E t \in Uploaders : /\ upload'[t].pc = "write" /\ upload'[t].inode = i
                                        /\ upload'[t].woff < k /\ k <= Size[upload'[t].version]
        <4>1. CASE i = upload[u].inode  BY <1>3, <2>1, <2>2, <3>1, <4>1
        <4>2. CASE i # upload[u].inode
          <5>1. PICK t \in Uploaders : /\ upload[t].pc = "write" /\ upload[t].inode = i
                                       /\ upload[t].woff < k /\ k <= Size[upload[t].version]
            BY <2>2, <3>1, <4>2 DEF Filled
          <5> QED  BY <2>1, <4>2, <5>1
        <4> QED  BY <4>1, <4>2
      <3> QED  BY <3>1 DEF Filled
    <2> QED  BY <2>3, <2>4, <2>5
  \* The upload is over, and its file has no holes, or loses them.
  <1>4. ASSUME UploadOver(u), disk' = disk, Uploading(u),
               \A k \in 1..Len(Content(u)) : Content(u)[k] = Hole => FALSE
        PROVE  Exclusive' /\ Within' /\ Filled'
    <2>1. PICK f : f = Content(u)  OBVIOUS
    <2>2. Changes(u, f)  BY <1>1, <1>4, <2>1 DEF Changes, Content
    <2> QED  BY <1>3, <1>4, <2>1, <2>2, NoUploadTypes DEF UploadOver
  <1>5. ASSUME NEW v \in Versions, NEW i \in Inodes, UploadOpens(u, v, i) PROVE Exclusive' /\ Within' /\ Filled'
    <2>1. PICK woff \in {0, Len(disk[i])} :
             upload' = [upload EXCEPT ![u] = [pc |-> IF woff > Size[v] THEN "reset" ELSE NextPc(v),
                                              inode |-> i, version |-> v, woff |-> woff]]
      BY <1>5 DEF UploadOpens
    <2>2. PICK r : r = [pc |-> IF woff > Size[v] THEN "reset" ELSE NextPc(v),
                        inode |-> i, version |-> v, woff |-> woff]
      OBVIOUS
    <2>3. \A t \in Uploaders : upload'[t] = IF t = u THEN r ELSE upload[t]  BY <1>1, <2>1, <2>2
    <2>4. /\ r.inode = i /\ r.woff <= Len(disk[i]) /\ disk' = disk /\ ~Uploading(u)
          /\ \A t \in Uploaders : Uploading(t) => upload[t].inode # i
      BY <1>1, <1>5, <2>1, <2>2 DEF UploadOpens
    <2>5. Exclusive'  BY <2>3, <2>4 DEF Exclusive, Uploading
    <2>6. Within'
      <3>1. ASSUME NEW t \in Uploaders, upload'[t].pc \in {"extend", "write"}
            PROVE  upload'[t].woff <= Len(disk[upload'[t].inode])
        BY <2>3, <2>4, <3>1 DEF Within, Content
      <3> QED  BY <2>4, <3>1 DEF Within, Content
    <2>7. Filled'
      <3>1. ASSUME NEW j \in Inodes, NEW k \in 1..Len(disk[j]), disk[j][k] = Hole
            PROVE  \E t \in Uploaders : /\ upload'[t].pc = "write" /\ upload'[t].inode = j
                                        /\ upload'[t].woff < k /\ k <= Size[upload'[t].version]
        <4>1. PICK t \in Uploaders : /\ upload[t].pc = "write" /\ upload[t].inode = j
                                     /\ upload[t].woff < k /\ k <= Size[upload[t].version]
          BY <3>1 DEF Filled
        <4>2. t # u  BY <2>4, <4>1 DEF Uploading
        <4> QED  BY <2>3, <4>1, <4>2
      <3> QED  BY <2>4, <3>1 DEF Filled
    <2> QED  BY <2>5, <2>6, <2>7
  <1>6. CASE UploadResets(u)
    <2>1. PICK r : r = [upload[u] EXCEPT !.woff = 0, !.pc = NextPc(upload[u].version)]  OBVIOUS
    <2>2. PICK f : f = <<>>  OBVIOUS
    <2>3. Uploading(u) /\ Changes(u, f) /\ upload' = [upload EXCEPT ![u] = r]
      BY <1>1, <1>6, <2>1, <2>2 DEF UploadResets, Uploading
    <2>4. Len(f) = 0 /\ \A k \in 1..Len(f) : FALSE
      <3>1. Len(f) = 0  BY <2>2
      <3> QED  BY <3>1
    <2>5. r.inode = upload[u].inode /\ r.woff = 0  BY <1>1, <2>1 DEF UploadRecords
    <2>6. r.woff <= Len(f)  BY <2>4, <2>5
    <2> QED  BY <1>3, <2>3, <2>4, <2>5, <2>6
  <1>7. CASE UploadExtends(u)
    <2>1. PICK r : r = [upload[u] EXCEPT !.pc = "write"]  OBVIOUS
    <2>2. PICK f : f = Resize(Content(u), Size[upload[u].version])  OBVIOUS
    <2>3. Uploading(u) /\ upload[u].pc = "extend" /\ Changes(u, f) /\ upload' = [upload EXCEPT ![u] = r]
      BY <1>1, <1>7, <2>1, <2>2 DEF UploadExtends, Uploading
    <2>4. /\ r.inode = upload[u].inode /\ r.pc = "write" /\ r.woff = upload[u].woff
          /\ r.version = upload[u].version
      BY <1>1, <2>1 DEF UploadRecords
    <2>5. /\ Len(f) = Size[upload[u].version] /\ Len(Content(u)) \in Nat
          /\ \A k \in 1..Len(f) : f[k] = IF k <= Len(Content(u)) THEN Content(u)[k] ELSE Hole
      <3>1. PICK g \in Seq(Blocks) : g = Content(u) /\ Len(g) \in Nat  BY <1>1, <2>3 DEF Content
      <3>2. PICK n \in Nat : n = Size[upload[u].version]  BY <1>1
      <3>3. f = Resize(g, n)  BY <2>2, <3>1, <3>2
      <3>4. Len(f) = n /\ \A k \in 1..n : f[k] = IF k <= Len(g) THEN g[k] ELSE Hole
        BY <3>3, ResizeFacts
      <3> QED  BY <3>1, <3>2, <3>4
    <2>6. upload[u].woff <= Len(Content(u))  BY <2>3 DEF Within
    <2>7. ASSUME NEW k \in 1..Len(f), f[k] = Hole PROVE upload[u].woff < k /\ k <= Size[upload[u].version]
      <3>1. k <= Len(Content(u)) => k \in 1..Len(Content(u)) /\ Content(u)[k] = Hole  BY <2>5, <2>7
      <3>2. ~(k <= Len(Content(u)))  BY <1>2, <2>3, <3>1
      <3> QED  BY <1>1, <2>5, <2>6, <3>2
    <2>8. r.woff <= Len(f)  BY <1>1, <2>3, <2>4, <2>5
    <2> QED  BY <1>3, <2>3, <2>4, <2>7, <2>8
  <1>8. CASE UploadWrites(u)
    <2>1. PICK b \in IF astray THEN Blocks \ {Hole} ELSE {Block(upload[u].version, upload[u].woff + 1)} :
             Changes(u, [Content(u) EXCEPT ![upload[u].woff + 1] = b])
      BY <1>8 DEF UploadWrites
    <2>2. PICK r : r = [upload[u] EXCEPT !.woff = upload[u].woff + 1]  OBVIOUS
    <2>3. PICK g \in Seq(Blocks) : g = Content(u)  BY <1>1, <1>8 DEF UploadWrites, Uploading, Content
    <2>4. PICK f : f = [g EXCEPT ![upload[u].woff + 1] = b]  OBVIOUS
    <2>5. /\ Uploading(u) /\ upload[u].pc = "write" /\ Changes(u, f) /\ upload' = [upload EXCEPT ![u] = r]
          /\ upload[u].woff + 1 \in 1..Len(g)
      BY <1>1, <1>8, <2>1, <2>2, <2>3, <2>4 DEF UploadWrites, Uploading
    <2>6. /\ r.inode = upload[u].inode /\ r.pc = "write" /\ r.woff = upload[u].woff + 1
          /\ r.version = upload[u].version
      BY <1>1, <2>2, <2>5 DEF UploadRecords
    <2>7. b # Hole
      <3>1. Block(upload[u].version, upload[u].woff + 1) \in Versions \X Nat  BY <1>1 DEF Block
      <3> QED  BY <2>1, <3>1, DownloadAssumption
    <2>8. Len(f) = Len(g) /\ \A k \in 1..Len(g) : f[k] = IF k = upload[u].woff + 1 THEN b ELSE g[k]
      BY <2>3, <2>4, <2>5
    <2>9. ASSUME NEW k \in 1..Len(f), f[k] = Hole
          PROVE  upload[u].woff + 1 < k /\ k <= Size[upload[u].version]
      <3>1. k \in 1..Len(g) /\ k # upload[u].woff + 1 /\ g[k] = Hole  BY <2>7, <2>8, <2>9
      <3>2. upload[u].woff < k /\ k <= Size[upload[u].version]  BY <1>2, <2>3, <2>5, <3>1
      <3> QED  BY <1>1, <3>1, <3>2
    <2>10. r.woff <= Len(f)  BY <2>5, <2>6, <2>8
    <2> QED  BY <1>3, <2>5, <2>6, <2>9, <2>10
  <1>9. CASE UploadStops(u)
    <2>1. PICK f : f = Resize(Content(u), upload[u].woff)  OBVIOUS
    <2>2. Uploading(u) /\ upload[u].pc = "write" /\ Changes(u, f) /\ upload' = [upload EXCEPT ![u] = NoUpload]
      BY <1>9, <2>1 DEF UploadStops, UploadOver, Uploading
    <2>3. PICK g \in Seq(Blocks) : g = Content(u)  BY <1>1, <2>2 DEF Content
    <2>4. /\ Len(f) = upload[u].woff
          /\ \A k \in 1..Len(f) : f[k] = IF k <= Len(g) THEN g[k] ELSE Hole
      <3>1. PICK n \in Nat : n = upload[u].woff  BY <1>1
      <3>2. f = Resize(g, n)  BY <2>1, <2>3, <3>1
      <3>3. Len(f) = n /\ \A k \in 1..n : f[k] = IF k <= Len(g) THEN g[k] ELSE Hole
        BY <3>2, ResizeFacts
      <3> QED  BY <3>1, <3>3
    <2>5. upload[u].woff <= Len(g)  BY <2>2, <2>3 DEF Within
    <2>6. ASSUME NEW k \in 1..Len(f), f[k] = Hole PROVE FALSE
      <3>1. k \in 1..Len(g) /\ ~(upload[u].woff < k) /\ g[k] = Hole
        BY <1>1, <2>3, <2>4, <2>5, <2>6
      <3> QED  BY <1>2, <2>2, <2>3, <3>1
    <2> QED  BY <1>3, <2>2, <2>6, NoUploadTypes
  <1>10. CASE UploadGivesUp(u) \/ UploadExtendFails(u)
    <2>1. Uploading(u) /\ upload[u].pc # "write" /\ UploadOver(u) /\ disk' = disk
      BY <1>10 DEF UploadGivesUp, UploadExtendFails, Uploading
    <2> QED  BY <1>2, <1>4, <2>1
  <1>11. CASE UploadCompletes(u)
    <2>1. Uploading(u) /\ upload[u].woff = Size[upload[u].version] /\ UploadOver(u) /\ disk' = disk
      BY <1>11 DEF UploadCompletes, Uploading
    <2>2. ASSUME NEW k \in 1..Len(Content(u)), Content(u)[k] = Hole PROVE FALSE
      <3>1. upload[u].woff < k /\ k <= Size[upload[u].version]  BY <1>2, <2>1, <2>2
      <3> QED  BY <1>1, <2>1, <3>1
    <2> QED  BY <1>4, <2>1, <2>2
  <1>12. CASE UploadMmapFails(u) \/ UploadStopFails(u)
    BY <1>12 DEF UploadMmapFails, UploadStopFails
  <1> QED
    BY <1>5, <1>6, <1>7, <1>8, <1>9, <1>10, <1>11, <1>12 DEF Upload

LEMMA NextApart == ApartInv /\ [Next]_vars => ApartInv'
  <1> SUFFICES ASSUME ApartInv, [Next]_vars, ~exposed'
               PROVE  Quiet' /\ Exclusive' /\ Within' /\ Filled' /\ Genuine'
    BY NextTyping DEF ApartInv, Apart
  <1>1. Typing /\ (~exposed => Quiet /\ Exclusive /\ Within /\ Filled /\ Genuine)
    BY DEF ApartInv, Apart
  <1>2. ASSUME UNCHANGED <<disk, upload>>, Exclusive, Within, Filled PROVE Exclusive' /\ Within' /\ Filled'
    BY <1>2 DEF Exclusive, Within, Filled, Uploading, Content
  <1>3. CASE UNCHANGED vars
    <2>1. UNCHANGED <<disk, upload, cpc, spc, c2s, s2c, local, exposed>>
      BY <1>3 DEF vars, diskVars, netVars, clientVars, serverVars, bounds, history
    <2> QED  BY <1>1, <1>2, <2>1 DEF Quiet, Uploading, Downloading, Genuine
  <1>4. CASE ClientStep \/ User \/ LinkBreaks \/ Worker
    <2>1. ~exposed
      <3>1. CASE StartGets  BY <3>1 DEF StartGets
      <3>2. CASE ~StartGets
        BY <1>4, <3>2 DEF ClientStep, RecvText, RecvGetsResp, LocalOpenFails, RecvRefusal, RecvFileData,
                  LocalWriteFails, RecvEnd, ClientIoFails, User, Connect, StartSimple, Leave,
                  LinkBreaks, Worker, RecvGetsReq, Reply, SendGetsResp, RecvResumePos, RecvNoResumePos,
                  SendFileData, SendfileRunsDry, SendFileEnd, WorkerIoFails, CloseSession, bounds, history
      <3> QED  BY <3>1, <3>2
    <2>2. UNCHANGED <<disk, upload>>
      BY <1>4 DEF ClientStep, RecvText, RecvGetsResp, LocalOpenFails, RecvRefusal, RecvFileData,
                  LocalWriteFails, RecvEnd, ClientIoFails, User, Connect, StartGets, StartSimple, Leave,
                  LinkBreaks, Worker, RecvGetsReq, Reply, SendGetsResp, RecvResumePos, RecvNoResumePos,
                  SendFileData, SendfileRunsDry, SendFileEnd, WorkerIoFails, CloseSession, diskVars
    <2> QED  BY <1>1, <1>2, <1>4, <2>1, <2>2, StaysQuiet, StaysGenuine
  <1>5. ASSUME NEW u \in Uploaders, Upload(u) PROVE Quiet' /\ Exclusive' /\ Within' /\ Filled' /\ Genuine'
    <2>1. UNCHANGED <<netVars, clientVars, serverVars>> /\ ~exposed
      <3>1. ASSUME NEW v \in Versions, NEW i \in Inodes, UploadOpens(u, v, i)
            PROVE  UNCHANGED <<netVars, clientVars, serverVars>> /\ ~exposed
        BY <3>1 DEF UploadOpens
      <3>2. ASSUME ~\E v \in Versions, i \in Inodes : UploadOpens(u, v, i)
            PROVE  UNCHANGED <<netVars, clientVars, serverVars>> /\ ~exposed
        BY <1>5, <3>2 DEF Upload, UploadResets, UploadGivesUp, UploadExtends, UploadExtendFails, UploadMmapFails,
                          UploadWrites, UploadCompletes, UploadStops, UploadStopFails, bounds, history
      <3> QED  BY <3>1, <3>2
    <2>2. Genuine'  BY <1>1, <2>1 DEF Genuine, netVars, clientVars
    <2>3. Downloading' <=> Downloading  BY <2>1 DEF Downloading, netVars, clientVars, serverVars
    <2>4. Quiet'
      <3>1. CASE \E v \in Versions, i \in Inodes : UploadOpens(u, v, i)
        <4>1. ~Downloading  BY <3>1 DEF UploadOpens
        <4> QED  BY <2>3, <4>1 DEF Downloading, Quiet
      <3>2. CASE ~\E v \in Versions, i \in Inodes : UploadOpens(u, v, i)
        <4>1. Uploading(u)
          BY <1>5, <3>2 DEF Upload, UploadResets, UploadGivesUp, UploadExtends, UploadExtendFails,
                            UploadMmapFails, UploadWrites, UploadCompletes, UploadStops, UploadStopFails,
                            Uploading
        <4> QED  BY <1>1, <2>1, <2>3, <4>1 DEF Quiet
      <3> QED  BY <3>1, <3>2
    <2> QED  BY <1>1, <1>5, <2>1, <2>2, <2>4, StaysFilled
  <1>6. CASE Remove
    <2>1. UNCHANGED <<disk, upload, cpc, spc, c2s, s2c, local, exposed>>
      BY <1>6 DEF Remove, netVars, clientVars, serverVars, bounds, history
    <2> QED  BY <1>1, <1>2, <2>1 DEF Quiet, Uploading, Downloading, Genuine
  <1>7. CASE ServerCrash \/ \E u \in Uploaders : Sigbus(u)
    <2>1. ServerDies  BY <1>7 DEF ServerCrash, Sigbus
    <2>2. /\ ~exposed /\ \A u \in Uploaders : upload[u].pc # "write"
          /\ upload' = [u \in Uploaders |-> NoUpload] /\ UNCHANGED <<disk, s2c, clientVars>>
      BY <2>1 DEF ServerDies
    <2>3. \A u \in Uploaders : upload'[u].pc = "off"  BY <2>2, NoUploadTypes
    <2>4. Quiet' /\ Exclusive' /\ Within'  BY <2>3 DEF Quiet, Exclusive, Within, Uploading
    <2>5. Filled'  BY <1>1, <2>2 DEF Filled
    <2>6. Genuine'  BY <1>1, <2>2 DEF Genuine, clientVars
    <2> QED  BY <2>4, <2>5, <2>6
  <1> QED  BY <1>3, <1>4, <1>5, <1>6, <1>7 DEF Next

\* ftruncate fills a file up with zeros before its blocks arrive (handle.c:646).  A download
\* that ends with FILE_END holds none of them, whoever uploads, gives up, is refused or
\* leaves, unless an upload met a download or another upload of the file, or ended without
\* taking its zeros back.
THEOREM DoneReal == Spec => []DoneIsReal
  <1>1. ApartInv => DoneIsReal  BY DEF ApartInv, Apart, Genuine, DoneIsReal
  <1> QED  BY <1>1, InitApart, NextApart, PTL DEF Spec
================================================================================
