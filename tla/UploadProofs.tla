------------------------------ MODULE UploadProofs ------------------------------
(***************************************************************************)
(* The safety properties of Upload for any number of sessions, local files *)
(* and sizes.  Types hold under every fault, and so does the place of      *)
(* every block until a worker leaves a client that has its PUTS_RESP; what *)
(* the resume point is worth holds when uploads of one name do not overlap,*)
(* no system call on the open file fails and the server is not killed,     *)
(* whatever else happens to connections, clients and local files.          *)
(***************************************************************************)
EXTENDS Upload, TLAPS

\* The size a worker took from PUTS_REQ, and how far it has come in it.
Sized == \A s \in Sessions :
            /\ spc[s] \in {"stat", "reset", "respond", "extend", "recv", "truncate", "ack"} => total[s] \in Sizes
            /\ spc[s] \in {"respond", "extend", "recv", "truncate", "ack"} => woff[s] <= total[s]

Typing == TypeOK /\ Sized

--------------------------------------------------------------------------------
(* Packets. *)

LEMMA PacketTypes ==
    /\ \A n \in Sizes : [type |-> "PUTS_REQ", size |-> n] \in Packets
    /\ \A n \in Sizes, o \in Nat : o <= n => [type |-> "PUTS_RESP", offset |-> o] \in Packets
    /\ \A b \in Blocks : [type |-> "FILE_DATA", block |-> b] \in Packets
    /\ \A t \in {"FILE_END", "ACK", "ERROR"} : [type |-> t] \in Packets
  <1>1. Sizes \subseteq Nat  BY UploadAssumption DEF Sizes
  <1>2. ASSUME NEW n \in Sizes, NEW o \in Nat, o <= n PROVE o \in UNION {0..k : k \in Sizes}
    BY <1>1, <1>2
  <1> QED  BY <1>2 DEF Packets

LEMMA PacketFields ==
    ASSUME NEW p \in Packets
    PROVE  /\ p.type = "PUTS_REQ" => p.size \in Sizes
           /\ p.type = "PUTS_RESP" => p.offset \in Nat
           /\ p.type = "FILE_DATA" => p.block \in Blocks
  <1>1. CASE p \in [type : {"PUTS_REQ"}, size : Sizes]  BY <1>1
  <1>2. CASE p \in [type : {"PUTS_RESP"}, offset : UNION {0..n : n \in Sizes}]
    <2>1. Sizes \subseteq Nat  BY UploadAssumption DEF Sizes
    <2>2. UNION {0..n : n \in Sizes} \subseteq Nat  BY <2>1
    <2> QED  BY <1>2, <2>2
  <1>3. CASE p \in [type : {"FILE_DATA"}, block : Blocks]  BY <1>3
  <1>4. CASE p \in [type : {"FILE_END", "ACK", "ERROR"}]  BY <1>4
  <1> QED  BY <1>1, <1>2, <1>3, <1>4 DEF Packets

LEMMA ResizeType ==
    ASSUME NEW f \in Seq(Blocks), NEW n \in Nat
    PROVE  /\ Resize(f, n) \in Seq(Blocks) /\ Len(Resize(f, n)) = n
           /\ \A i \in 1..n : Resize(f, n)[i] = IF i <= Len(f) THEN f[i] ELSE Hole
  <1>1. Hole \in Blocks  BY DEF Blocks
  <1>2. \A i \in 1..n : (IF i <= Len(f) THEN f[i] ELSE Hole) \in Blocks  BY <1>1
  <1>3. DEFINE r == [i \in 1..n |-> IF i <= Len(f) THEN f[i] ELSE Hole]
  <1>4. r \in [1..n -> Blocks]  BY <1>2
  <1>5. r \in Seq(Blocks) /\ Len(r) = n  BY <1>4
  <1> QED  BY <1>5 DEF Resize

\* Sending leaves the queues what they are.
LEMMA SendTypes ==
    ASSUME TypeOK, NEW s \in Sessions, NEW p \in Packets
    PROVE  /\ ToServer(s, p) => c2s' \in [Sessions -> Seq(Packets)]
           /\ ToClient(s, p) => s2c' \in [Sessions -> Seq(Packets)]
  <1>1. Append(c2s[s], p) \in Seq(Packets) /\ Append(s2c[s], p) \in Seq(Packets)  BY DEF TypeOK
  <1>2. ToServer(s, p) => c2s' \in [Sessions -> Seq(Packets)]  BY <1>1 DEF ToServer, TypeOK
  <1>3. ToClient(s, p) => s2c' \in [Sessions -> Seq(Packets)]  BY <1>1 DEF ToClient, TypeOK
  <1> QED  BY <1>2, <1>3

LEMMA PopTypes ==
    ASSUME TypeOK, NEW s \in Sessions
    PROVE  /\ c2s[s] # <<>> => /\ Head(c2s[s]) \in Packets
                               /\ PopServer(s) => c2s' \in [Sessions -> Seq(Packets)]
           /\ s2c[s] # <<>> => /\ Head(s2c[s]) \in Packets
                               /\ PopClient(s) => s2c' \in [Sessions -> Seq(Packets)]
  <1>1. c2s[s] \in Seq(Packets) /\ s2c[s] \in Seq(Packets)  BY DEF TypeOK
  <1>2. /\ c2s[s] # <<>> => Head(c2s[s]) \in Packets /\ Tail(c2s[s]) \in Seq(Packets)
        /\ s2c[s] # <<>> => Head(s2c[s]) \in Packets /\ Tail(s2c[s]) \in Seq(Packets)
    BY <1>1
  <1>3. c2s[s] # <<>> /\ PopServer(s) => c2s' \in [Sessions -> Seq(Packets)]
    BY <1>2 DEF PopServer, TypeOK
  <1>4. s2c[s] # <<>> /\ PopClient(s) => s2c' \in [Sessions -> Seq(Packets)]
    BY <1>2 DEF PopClient, TypeOK
  <1> QED  BY <1>2, <1>3, <1>4

--------------------------------------------------------------------------------
(* Types. *)

LEMMA InitTyping == Init => Typing
  <1> SUFFICES ASSUME Init PROVE Typing  OBVIOUS
  <1>1. <<>> \in Seq(Blocks) /\ <<>> \in Seq(Packets)  OBVIOUS
  <1>2. c2s = [s \in Sessions |-> <<>>] /\ s2c = [s \in Sessions |-> <<>>] /\ file = <<>>  BY DEF Init
  <1>3. file \in Seq(Blocks) /\ c2s \in [Sessions -> Seq(Packets)] /\ s2c \in [Sessions -> Seq(Packets)]
    BY <1>1, <1>2
  <1>4. shouldClose \in [Sessions -> BOOLEAN] /\ abandoned \in BOOLEAN  BY DEF Init
  <1>5. connects \in 0..MaxConnects /\ puts \in 0..MaxPuts /\ breaks \in 0..MaxBreaks
    BY UploadAssumption DEF Init
  <1>6. TypeOK  BY <1>3, <1>4, <1>5 DEF Init, TypeOK, ClientPcs, ServerPcs
  <1>7. Sized  BY DEF Init, Sized
  <1> QED  BY <1>6, <1>7 DEF Typing

\* What the client and the network do to nobody's file.
LEMMA ClientTyping ==
    ASSUME Typing, NEW s \in Sessions,
           ClientStep(s) \/ User(s) \/ LinkBreaks(s)
    PROVE  Typing'
  <1>1. ASSUME file' \in Seq(Blocks), serverVars' = serverVars, abandoned' = abandoned,
               link' \in [Sessions -> {"up", "broken"}],
               c2s' \in [Sessions -> Seq(Packets)], s2c' \in [Sessions -> Seq(Packets)],
               cpc' \in [Sessions -> ClientPcs], source' \in [Sessions -> Versions],
               cpos' \in [Sessions -> Nat], outcome' \in [Sessions -> {"none", "done", "failed"}],
               connects' \in 0..MaxConnects, puts' \in 0..MaxPuts, breaks' \in 0..MaxBreaks
        PROVE  Typing'
    BY <1>1 DEF Typing, TypeOK, Sized, serverVars
  <1>2. ASSUME NEW r \in {"none", "done", "failed"}, Return(s, r),
               c2s' \in [Sessions -> Seq(Packets)], s2c' \in [Sessions -> Seq(Packets)]
        PROVE  Typing'
    <2>1. cpc' \in [Sessions -> ClientPcs] /\ outcome' \in [Sessions -> {"none", "done", "failed"}]
      BY <1>2 DEF Return, Typing, TypeOK, ClientPcs
    <2> QED  BY <1>1, <1>2, <2>1 DEF Return, Typing, TypeOK, bounds, counters
  <1>3. CASE RecvPutsResp(s)
    <2>1. s2c[s] # <<>> /\ PopClient(s) /\ Head(s2c[s]).type = "PUTS_RESP"
      BY <1>3 DEF RecvPutsResp, ClientGets
    <2>2. Head(s2c[s]).offset \in Nat /\ s2c' \in [Sessions -> Seq(Packets)]
      BY <2>1, PopTypes, PacketFields DEF Typing
    <2>3. cpos' \in [Sessions -> Nat] /\ cpc' \in [Sessions -> ClientPcs]
      BY <1>3, <2>2 DEF RecvPutsResp, Typing, TypeOK, ClientPcs
    <2> QED  BY <1>1, <1>3, <2>2, <2>3 DEF RecvPutsResp, Typing, TypeOK, bounds, counters
  <1>4. CASE RecvRefusal(s)
    BY <1>2, <1>4, PopTypes DEF RecvRefusal, Typing, TypeOK
  <1>5. CASE SendFileData(s)
    <2>1. Block(source[s], cpos[s] + 1) \in Blocks
      <3>1. source[s] \in Versions /\ cpos[s] \in Nat /\ cpos[s] + 1 \in 1..Size[source[s]]
        BY <1>5, UploadAssumption DEF SendFileData, Typing, TypeOK
      <3> QED  BY <3>1 DEF Blocks
    <2>2. c2s' \in [Sessions -> Seq(Packets)]
      BY <1>5, <2>1, PacketTypes, SendTypes DEF SendFileData, Typing
    <2>3. cpos' \in [Sessions -> Nat]  BY <1>5 DEF SendFileData, Typing, TypeOK
    <2> QED  BY <1>1, <1>5, <2>2, <2>3 DEF SendFileData, Typing, TypeOK, bounds, counters
  <1>6. CASE SendFileEnd(s)
    <2>1. c2s' \in [Sessions -> Seq(Packets)]
      BY <1>6, PacketTypes, SendTypes DEF SendFileEnd, Typing
    <2>2. cpc' \in [Sessions -> ClientPcs]  BY <1>6 DEF SendFileEnd, Typing, TypeOK, ClientPcs
    <2> QED  BY <1>1, <1>6, <2>1, <2>2 DEF SendFileEnd, Typing, TypeOK, bounds, counters
  <1>7. CASE LocalReadFails(s) \/ ClientIoFails(s)
    BY <1>2, <1>7 DEF LocalReadFails, ClientIoFails, Typing, TypeOK
  <1>8. CASE RecvReply(s)
    BY <1>2, <1>8, PopTypes DEF RecvReply, Typing, TypeOK
  <1>9. CASE Connect(s)
    <2>1. <<>> \in Seq(Packets)  OBVIOUS
    <2>2. c2s' \in [Sessions -> Seq(Packets)] /\ s2c' \in [Sessions -> Seq(Packets)]
      BY <1>9, <2>1 DEF Connect, Typing, TypeOK
    <2>3. shouldClose' \in [Sessions -> BOOLEAN]  BY <1>9 DEF Connect, Typing, TypeOK
    <2>4. /\ cpc' \in [Sessions -> ClientPcs] /\ spc' \in [Sessions -> ServerPcs]
          /\ link' \in [Sessions -> {"up", "broken"}]
      BY <1>9 DEF Connect, Typing, TypeOK, ClientPcs, ServerPcs
    <2>5. connects' \in 0..MaxConnects  BY <1>9, UploadAssumption DEF Connect, Typing, TypeOK
    <2>6. TypeOK'  BY <1>9, <2>2, <2>3, <2>4, <2>5 DEF Connect, Typing, TypeOK
    <2>7. Sized'  BY <1>9 DEF Connect, Typing, TypeOK, Sized
    <2> QED  BY <2>6, <2>7 DEF Typing
  <1>10. CASE \E v \in Versions : StartPuts(s, v)
    <2>1. PICK v \in Versions : StartPuts(s, v)  BY <1>10
    <2>2. Size[v] \in Sizes  BY DEF Sizes
    <2>3. c2s' \in [Sessions -> Seq(Packets)]
      BY <2>1, <2>2, PacketTypes, SendTypes DEF StartPuts, Typing
    <2>4. /\ cpc' \in [Sessions -> ClientPcs] /\ source' \in [Sessions -> Versions]
          /\ outcome' \in [Sessions -> {"none", "done", "failed"}]
      BY <2>1 DEF StartPuts, Typing, TypeOK, ClientPcs
    <2>5. puts' \in 0..MaxPuts  BY <2>1, UploadAssumption DEF StartPuts, Typing, TypeOK
    <2> QED  BY <1>1, <2>1, <2>3, <2>4, <2>5 DEF StartPuts, Typing, TypeOK
  <1>11. CASE Leave(s)
    <2>1. cpc' \in [Sessions -> ClientPcs] /\ link' \in [Sessions -> {"up", "broken"}]
      BY <1>11 DEF Leave, Typing, TypeOK, ClientPcs
    <2> QED  BY <1>1, <1>11, <2>1 DEF Leave, Typing, TypeOK, bounds, counters
  <1>12. CASE LinkBreaks(s)
    <2>1. link' \in [Sessions -> {"up", "broken"}]  BY <1>12 DEF LinkBreaks, Typing, TypeOK
    <2>2. breaks' \in 0..MaxBreaks  BY <1>12, UploadAssumption DEF LinkBreaks, Typing, TypeOK
    <2> QED  BY <1>1, <1>12, <2>1, <2>2 DEF LinkBreaks, Typing, TypeOK, clientVars
  <1> QED
    BY <1>3, <1>4, <1>5, <1>6, <1>7, <1>8, <1>9, <1>10, <1>11, <1>12 DEF ClientStep, User

LEMMA WorkerTyping ==
    ASSUME Typing, NEW s \in Sessions, Worker(s)
    PROVE  Typing'
  <1>1. ASSUME file' \in Seq(Blocks), clientVars' = clientVars, counters' = counters,
               abandoned' \in BOOLEAN, shouldClose' \in [Sessions -> BOOLEAN],
               link' \in [Sessions -> {"up", "broken"}],
               c2s' \in [Sessions -> Seq(Packets)], s2c' \in [Sessions -> Seq(Packets)],
               spc' \in [Sessions -> ServerPcs], total' \in [Sessions -> Nat], woff' \in [Sessions -> Nat],
               Sized'
        PROVE  Typing'
    BY <1>1 DEF Typing, TypeOK, clientVars, counters
  <1>2. /\ Sizes \subseteq Nat
        /\ \A t \in Sessions : total[t] \in Nat /\ woff[t] \in Nat
        /\ shouldClose \in [Sessions -> BOOLEAN] /\ [shouldClose EXCEPT ![s] = TRUE] \in [Sessions -> BOOLEAN]
        /\ abandoned \in BOOLEAN /\ file \in Seq(Blocks)
    BY UploadAssumption DEF Sizes, Typing, TypeOK
  <1>3. \A here \in ServerPcs : [spc EXCEPT ![s] = here] \in [Sessions -> ServerPcs]
    BY DEF Typing, TypeOK
  <1>4. ASSUME EndRequest(s), UNCHANGED <<file, link, c2s, clientVars, total, woff, shouldClose, bounds>>,
               s2c' \in [Sessions -> Seq(Packets)]
        PROVE  Typing'
    <2>1. Sized'  BY <1>4 DEF EndRequest, Typing, TypeOK, Sized
    <2> QED  BY <1>1, <1>2, <1>3, <1>4, <2>1 DEF EndRequest, Typing, TypeOK, bounds, ServerPcs
  <1>5. CASE RecvPutsReq(s)
    <2>1. Head(c2s[s]).size \in Sizes /\ c2s' \in [Sessions -> Seq(Packets)]
      BY <1>5, PopTypes, PacketFields DEF RecvPutsReq, ServerGets, Typing
    <2>2. total' \in [Sessions -> Nat]  BY <1>2, <1>5, <2>1 DEF RecvPutsReq, Typing, TypeOK
    <2>3. Sized'  BY <1>5, <2>1 DEF RecvPutsReq, Typing, TypeOK, Sized
    <2> QED  BY <1>1, <1>2, <1>3, <1>5, <2>1, <2>2, <2>3
             DEF RecvPutsReq, Typing, TypeOK, bounds, ServerPcs
  <1>6. CASE RecvUnknown(s) \/ RefusePuts(s)
    <2>1. c2s' \in [Sessions -> Seq(Packets)]
      BY <1>6, PopTypes DEF RecvUnknown, RefusePuts, ServerGets, Typing
    <2>2. Sized'  BY <1>6 DEF RecvUnknown, RefusePuts, Typing, TypeOK, Sized
    <2> QED  BY <1>1, <1>2, <1>3, <1>6, <2>1, <2>2
             DEF RecvUnknown, RefusePuts, Typing, TypeOK, bounds, ServerPcs
  <1>7. CASE SessionEnds(s) \/ SendFails(s)
    BY <1>4, <1>7 DEF SessionEnds, SendFails, netVars, Typing, TypeOK
  <1>8. CASE StatResumePoint(s)
    <2>1. Len(file) \in Nat  BY <1>2
    <2>2. woff' \in [Sessions -> Nat]  BY <1>8, <2>1 DEF StatResumePoint, Typing, TypeOK
    <2>3. Sized'
      <3>1. Len(file) <= total[s] \/ Len(file) > total[s]  BY <1>2, <2>1
      <3> QED  BY <1>8, <2>1, <3>1 DEF StatResumePoint, Typing, TypeOK, Sized
    <2> QED  BY <1>1, <1>2, <1>3, <1>8, <2>2, <2>3
             DEF StatResumePoint, Typing, TypeOK, bounds, netVars, ServerPcs
  <1>8a. CASE StatFails(s)
    <2>1. woff' \in [Sessions -> Nat]  BY <1>8a DEF StatFails, Typing, TypeOK
    <2>2. Sized'  BY <1>2, <1>8a DEF StatFails, Typing, TypeOK, Sized
    <2> QED  BY <1>1, <1>2, <1>3, <1>8a, <2>1, <2>2
             DEF StatFails, Typing, TypeOK, bounds, netVars, ServerPcs
  <1>9. CASE ResetLarger(s)
    <2>1. file' \in Seq(Blocks)  BY <1>9 DEF ResetLarger
    <2>2. woff' \in [Sessions -> Nat]  BY <1>9 DEF ResetLarger, Typing, TypeOK
    <2>3. Sized'  BY <1>2, <1>9 DEF ResetLarger, Typing, TypeOK, Sized
    <2> QED  BY <1>1, <1>2, <1>3, <1>9, <2>1, <2>2, <2>3
             DEF ResetLarger, Typing, TypeOK, bounds, netVars, ServerPcs
  <1>10. CASE SendPutsResp(s)
    <2>1. total[s] \in Sizes /\ woff[s] <= total[s]  BY <1>10 DEF SendPutsResp, Typing, Sized
    <2>2. s2c' \in [Sessions -> Seq(Packets)]
      BY <1>2, <1>10, <2>1, PacketTypes, SendTypes DEF SendPutsResp, Typing
    <2>3. Sized'  BY <1>10, <2>1 DEF SendPutsResp, Typing, TypeOK, Sized
    <2> QED  BY <1>1, <1>2, <1>3, <1>10, <2>2, <2>3
             DEF SendPutsResp, Typing, TypeOK, bounds, ServerPcs
  <1>10a. CASE ResetFails(s) \/ ExtendFails(s) \/ TruncateFails(s)
    <2>1. Sized'  BY <1>10a DEF ResetFails, ExtendFails, TruncateFails, Typing, TypeOK, Sized
    <2> QED  BY <1>1, <1>2, <1>3, <1>10a, <2>1
             DEF ResetFails, ExtendFails, TruncateFails, Typing, TypeOK, bounds, netVars, ServerPcs
  <1>11. CASE Extend(s) \/ MmapFails(s)
    <2>1. file' \in Seq(Blocks)  BY <1>2, <1>11, ResizeType DEF Extend, MmapFails
    <2>2. Sized'  BY <1>11 DEF Extend, MmapFails, Typing, TypeOK, Sized
    <2> QED  BY <1>1, <1>2, <1>3, <1>11, <2>1, <2>2
             DEF Extend, MmapFails, Typing, TypeOK, bounds, netVars, ServerPcs
  <1>12. CASE RecvFileData(s)
    <2>1. Head(c2s[s]).block \in Blocks /\ c2s' \in [Sessions -> Seq(Packets)]
      BY <1>12, PopTypes, PacketFields DEF RecvFileData, ServerGets, Typing
    <2>2. woff[s] + 1 \in 1..Len(file) /\ woff[s] + 1 <= total[s] /\ spc[s] = "recv"
      BY <1>2, <1>12 DEF RecvFileData
    <2>3. file' \in Seq(Blocks)  BY <1>2, <1>12, <2>1, <2>2 DEF RecvFileData
    <2>4. woff' \in [Sessions -> Nat]  BY <1>12 DEF RecvFileData, Typing, TypeOK
    <2>5. Sized'  BY <1>12, <2>2 DEF RecvFileData, Typing, TypeOK, Sized
    <2> QED  BY <1>1, <1>2, <1>12, <2>1, <2>3, <2>4, <2>5 DEF RecvFileData, Typing, TypeOK, bounds
  <1>13. CASE RecvFileEnd(s)
    <2>1. c2s' \in [Sessions -> Seq(Packets)]  BY <1>13, PopTypes DEF RecvFileEnd, ServerGets, Typing
    <2>2. Sized'  BY <1>13 DEF RecvFileEnd, Typing, TypeOK, Sized
    <2> QED  BY <1>1, <1>2, <1>3, <1>13, <2>1, <2>2 DEF RecvFileEnd, Typing, TypeOK, bounds, ServerPcs
  <1>14. CASE RecvOutOfPlace(s)
    <2>1. c2s' \in [Sessions -> Seq(Packets)]  BY <1>14, PopTypes DEF RecvOutOfPlace, Typing
    <2>2. Sized'  BY <1>14 DEF RecvOutOfPlace, Typing, TypeOK, Sized
    <2> QED  BY <1>1, <1>2, <1>3, <1>14, <2>1, <2>2 DEF RecvOutOfPlace, Typing, TypeOK, bounds, ServerPcs
  <1>15. CASE RecvFails(s)
    <2>1. Sized'  BY <1>15 DEF RecvFails, Typing, TypeOK, Sized
    <2> QED  BY <1>1, <1>2, <1>3, <1>15, <2>1 DEF RecvFails, Typing, TypeOK, bounds, netVars, ServerPcs
  <1>16. CASE TruncateToReceived(s)
    <2>1. file' \in Seq(Blocks)  BY <1>2, <1>16, ResizeType DEF TruncateToReceived
    <2>2. Sized'  BY <1>16 DEF TruncateToReceived, Typing, TypeOK, Sized
    <2> QED  BY <1>1, <1>2, <1>3, <1>16, <2>1, <2>2
             DEF TruncateToReceived, Typing, TypeOK, bounds, netVars, ServerPcs
  <1>17. CASE SendAck(s)
    <2>1. s2c' \in [Sessions -> Seq(Packets)]
      BY <1>17, PacketTypes, SendTypes DEF SendAck, Typing
    <2>2. Sized'  BY <1>17 DEF SendAck, Typing, TypeOK, Sized
    <2> QED  BY <1>1, <1>2, <1>3, <1>17, <2>1, <2>2 DEF SendAck, Typing, TypeOK, bounds, ServerPcs
  <1>18. CASE SendError(s)
    <2>1. s2c' \in [Sessions -> Seq(Packets)]
      BY <1>18, PacketTypes, SendTypes DEF SendError, Typing
    <2>2. CASE EndRequest(s)  BY <1>4, <1>18, <2>1, <2>2 DEF SendError
    <2>3. CASE spc' = [spc EXCEPT ![s] = "idle"]
      <3>1. Sized'  BY <1>18, <2>3 DEF SendError, Typing, TypeOK, Sized
      <3> QED  BY <1>1, <1>2, <1>3, <1>18, <2>1, <2>3, <3>1 DEF SendError, Typing, TypeOK, bounds, ServerPcs
    <2> QED  BY <1>18, <2>2, <2>3 DEF SendError
  <1>19. CASE Sigbus(s)
    <2>1. ServerDies  BY <1>19 DEF Sigbus
    <2>2. <<>> \in Seq(Packets) /\ "gone" \in ServerPcs  BY DEF ServerPcs
    <2>3. Sized'  BY <2>1 DEF ServerDies, Sized
    <2> QED  BY <1>1, <1>2, <2>1, <2>2, <2>3 DEF ServerDies, Typing, TypeOK, bounds
  <1>20. CASE CloseClientFd(s)
    <2>1. <<>> \in Seq(Packets) /\ "gone" \in ServerPcs  BY DEF ServerPcs
    <2>2. /\ spc' \in [Sessions -> ServerPcs] /\ link' \in [Sessions -> {"up", "broken"}]
          /\ c2s' \in [Sessions -> Seq(Packets)]
      BY <1>20, <2>1 DEF CloseClientFd, Typing, TypeOK
    <2>3. Sized'  BY <1>20 DEF CloseClientFd, Typing, TypeOK, Sized
    <2> QED  BY <1>1, <1>2, <1>20, <2>2, <2>3 DEF CloseClientFd, Typing, TypeOK, bounds
  <1> QED
    BY <1>5, <1>6, <1>7, <1>8, <1>8a, <1>9, <1>10, <1>10a, <1>11, <1>12, <1>13, <1>14, <1>15, <1>16,
       <1>17, <1>18, <1>19, <1>20 DEF Worker

LEMMA NextTyping == Typing /\ [Next]_vars => Typing'
  <1> SUFFICES ASSUME Typing, [Next]_vars PROVE Typing'  OBVIOUS
  <1>1. ASSUME NEW s \in Sessions, ClientStep(s) \/ User(s) \/ LinkBreaks(s) PROVE Typing'
    BY <1>1, ClientTyping
  <1>2. ASSUME NEW s \in Sessions, Worker(s) PROVE Typing'  BY <1>2, WorkerTyping
  <1>3. CASE ServerCrash
    <2>1. ServerDies  BY <1>3 DEF ServerCrash
    <2>2. <<>> \in Seq(Packets) /\ "gone" \in ServerPcs  BY DEF ServerPcs
    <2>3. Sized'  BY <2>1 DEF ServerDies, Sized
    <2>4. c2s' \in [Sessions -> Seq(Packets)] /\ spc' \in [Sessions -> ServerPcs]
          /\ link' \in [Sessions -> {"up", "broken"}]
      BY <2>1, <2>2 DEF ServerDies
    <2>5. UNCHANGED <<file, s2c, cpc, source, cpos, outcome, total, woff, shouldClose,
                      connects, puts, breaks, abandoned>>
      BY <2>1 DEF ServerDies, clientVars, bounds, counters
    <2> QED  BY <2>3, <2>4, <2>5 DEF Typing, TypeOK
  <1>4. CASE UNCHANGED vars
    BY <1>4 DEF vars, netVars, clientVars, serverVars, bounds, counters, Typing, TypeOK, Sized
  <1> QED  BY <1>1, <1>2, <1>3, <1>4 DEF Next

\* Types, under every fault: what the client sends is a block of its file, what the
\* worker offers as a resume point lies within the size it was told.
THEOREM TypeCorrect == Spec => []TypeOK
  <1>1. Typing => TypeOK  BY DEF Typing
  <1> QED  BY <1>1, InitTyping, NextTyping, PTL DEF Spec

--------------------------------------------------------------------------------
(* What a resume point is worth. *)

\* No two sessions are in an upload.
Solo == \A s, t \in Sessions : s # t => ~(Uploading(s) /\ Uploading(t))

\* What the worker knows of the file at each point of handle_puts.
Measured == \A s \in Sessions :
               /\ spc[s] \in {"respond", "extend"} => woff[s] = Len(file)
               /\ spc[s] \in {"recv", "truncate"} => Len(file) = total[s]
               /\ spc[s] = "ack" => Len(file) = total[s] /\ woff[s] = total[s]

\* Clients send what they have, and no zeros in place of it.
SentBlocks == \A s \in Sessions : \A i \in 1..Len(c2s[s]) :
                 c2s[s][i].type = "FILE_DATA" => c2s[s][i].block # Hole

SafeInv == Typing /\ Solo /\ Measured /\ SentBlocks /\ HolesOnlyUnderUpload

LEMMA InitSafe == Init => SafeInv
  <1> SUFFICES ASSUME Init PROVE SafeInv  OBVIOUS
  <1>1. Typing  BY InitTyping
  <1>2. Solo  BY DEF Init, Solo, Uploading
  <1>3. Measured  BY DEF Init, Measured
  <1>4. SentBlocks  BY DEF Init, SentBlocks
  <1>5. HolesOnlyUnderUpload  BY DEF Init, HolesOnlyUnderUpload
  <1> QED  BY <1>1, <1>2, <1>3, <1>4, <1>5 DEF SafeInv

LEMMA AppendSent ==
    ASSUME TypeOK, SentBlocks, NEW s \in Sessions, NEW p \in Packets, ToServer(s, p),
           p.type = "FILE_DATA" => p.block # Hole
    PROVE  SentBlocks'
  <1>1. SUFFICES ASSUME NEW t \in Sessions, NEW i \in 1..Len(c2s'[t]), c2s'[t][i].type = "FILE_DATA"
                 PROVE  c2s'[t][i].block # Hole
    BY DEF SentBlocks
  <1>2. CASE c2s'[t] = c2s[t]  BY <1>1, <1>2 DEF SentBlocks
  <1>3. CASE t = s /\ c2s'[s] = Append(c2s[s], p)
    <2>1. c2s[s] \in Seq(Packets)  BY DEF TypeOK
    <2>2. CASE i = Len(c2s[s]) + 1  BY <1>1, <1>3, <2>1, <2>2
    <2>3. CASE i \in 1..Len(c2s[s])
      <3>1. c2s'[t][i] = c2s[s][i]  BY <1>3, <2>1, <2>3
      <3> QED  BY <1>1, <1>3, <2>3, <3>1 DEF SentBlocks
    <2> QED  BY <1>1, <1>3, <2>1, <2>2, <2>3
  <1> QED  BY <1>2, <1>3 DEF ToServer, TypeOK

LEMMA PopSent ==
    ASSUME TypeOK, SentBlocks, NEW s \in Sessions, c2s[s] # <<>>, PopServer(s)
    PROVE  /\ SentBlocks'
           /\ Head(c2s[s]).type = "FILE_DATA" => Head(c2s[s]).block # Hole
  <1>1. c2s[s] \in Seq(Packets) /\ Len(c2s[s]) >= 1 /\ Head(c2s[s]) = c2s[s][1]  BY DEF TypeOK
  <1>2. SentBlocks'
    <2>1. SUFFICES ASSUME NEW t \in Sessions, NEW i \in 1..Len(c2s'[t]), c2s'[t][i].type = "FILE_DATA"
                   PROVE  c2s'[t][i].block # Hole
      BY DEF SentBlocks
    <2>2. CASE t # s
      <3>1. c2s'[t] = c2s[t]  BY <2>2 DEF PopServer, TypeOK
      <3> QED  BY <2>1, <3>1 DEF SentBlocks
    <2>3. CASE t = s
      <3>1. c2s'[s] = Tail(c2s[s])  BY DEF PopServer, TypeOK
      <3>2. i + 1 \in 1..Len(c2s[s]) /\ c2s'[t][i] = c2s[s][i + 1]  BY <1>1, <2>1, <2>3, <3>1
      <3> QED  BY <2>1, <3>2 DEF SentBlocks
    <2> QED  BY <2>2, <2>3
  <1>3. Head(c2s[s]).type = "FILE_DATA" => Head(c2s[s]).block # Hole
    <2>1. 1 \in 1..Len(c2s[s])  BY <1>1
    <2> QED  BY <1>1, <2>1 DEF SentBlocks
  <1> QED  BY <1>2, <1>3

\* A step after which no session is in an upload that was not before.
LEMMA StaysSolo ==
    ASSUME Solo, \A s \in Sessions : Uploading(s)' => Uploading(s)
    PROVE  Solo'
  BY DEF Solo

LEMMA ClientSafe ==
    ASSUME SafeInv, Faults = {}, NEW s \in Sessions,
           ClientStep(s) \/ User(s) \/ LinkBreaks(s)
    PROVE  SafeInv'
  <1>1. Typing /\ TypeOK /\ Typing'  BY ClientTyping DEF SafeInv, Typing
  <1>2. ASSUME UNCHANGED <<file, spc, total, woff>>, Solo', SentBlocks' PROVE SafeInv'
    BY <1>1, <1>2 DEF SafeInv, Measured, HolesOnlyUnderUpload
  <1>3. ASSUME UNCHANGED <<file, serverVars>>, SentBlocks',
               \A t \in Sessions : cpc'[t] \notin {"down", "idle"} => Uploading(t),
               \A t \in Sessions : c2s'[t] # <<>> => Uploading(t)
        PROVE  SafeInv'
    <2>1. UNCHANGED <<spc, total, woff>>  BY <1>3 DEF serverVars
    <2>2. \A t \in Sessions : Uploading(t)' => Uploading(t)  BY <1>3, <2>1 DEF Uploading
    <2> QED  BY <1>2, <1>3, <2>1, <2>2, StaysSolo DEF SafeInv
  <1>4. ASSUME UNCHANGED <<file, serverVars, c2s>>,
               \A t \in Sessions : cpc'[t] \notin {"down", "idle"} => Uploading(t)
        PROVE  SafeInv'
    BY <1>3, <1>4 DEF SafeInv, SentBlocks, Uploading
  <1>5. ASSUME NEW r, Return(s, r), c2s' = c2s PROVE SafeInv'
    <2>1. \A t \in Sessions : cpc'[t] \notin {"down", "idle"} => cpc[t] \notin {"down", "idle"}
      BY <1>1, <1>5 DEF Return, TypeOK
    <2> QED  BY <1>4, <1>5, <2>1 DEF Return, Uploading
  <1>6. CASE RecvPutsResp(s)
    <2>1. \A t \in Sessions : cpc'[t] \notin {"down", "idle"} => cpc[t] \notin {"down", "idle"}
      BY <1>1, <1>6 DEF RecvPutsResp, TypeOK
    <2> QED  BY <1>4, <1>6, <2>1 DEF RecvPutsResp, Uploading
  <1>7. CASE RecvRefusal(s) \/ LocalReadFails(s) \/ RecvReply(s) \/ ClientIoFails(s)
    BY <1>5, <1>7 DEF RecvRefusal, LocalReadFails, RecvReply, ClientIoFails
  <1>8. CASE SendFileData(s)
    <2>1. PICK b : b = Block(source[s], cpos[s] + 1)  OBVIOUS
    <2>2. b \in Blocks /\ b # Hole
      <3>1. source[s] \in Versions /\ cpos[s] \in Nat /\ cpos[s] + 1 \in 1..Size[source[s]]
        BY <1>1, <1>8, UploadAssumption DEF SendFileData, TypeOK
      <3>2. b \in Blocks  BY <2>1, <3>1 DEF Blocks
      <3>3. b \in Versions \X Nat  BY <2>1, <3>1 DEF Block
      <3> QED  BY <3>2, <3>3, UploadAssumption
    <2>3. SentBlocks'
      <3>1. [type |-> "FILE_DATA", block |-> b] \in Packets  BY <2>2, PacketTypes
      <3>2. ToServer(s, [type |-> "FILE_DATA", block |-> b])  BY <1>8, <2>1 DEF SendFileData
      <3> QED  BY <1>1, <2>2, <3>1, <3>2, AppendSent DEF SafeInv
    <2>4. \A t \in Sessions : cpc'[t] = cpc[t] /\ (t = s \/ c2s'[t] = c2s[t])
      BY <1>1, <1>8 DEF SendFileData, ToServer, TypeOK
    <2>5. Uploading(s)  BY <1>8 DEF SendFileData, Uploading
    <2> QED  BY <1>3, <1>8, <2>3, <2>4, <2>5 DEF SendFileData, Uploading
  <1>9. CASE SendFileEnd(s)
    <2>1. SentBlocks'
      <3>1. [type |-> "FILE_END"] \in Packets  BY PacketTypes
      <3>2. ToServer(s, [type |-> "FILE_END"])  BY <1>9 DEF SendFileEnd
      <3> QED  BY <1>1, <3>1, <3>2, AppendSent DEF SafeInv
    <2>2. cpc' = [cpc EXCEPT ![s] = "waitReply"]  BY <1>9 DEF SendFileEnd
    <2>3. \A t \in Sessions \ {s} : cpc'[t] = cpc[t]  BY <1>1, <2>2 DEF TypeOK
    <2>4. \A t \in Sessions \ {s} : c2s'[t] = c2s[t]
      BY <1>1, <1>9 DEF SendFileEnd, ToServer, TypeOK
    <2>5. Uploading(s)  BY <1>9 DEF SendFileEnd, Uploading
    <2> QED  BY <1>3, <1>9, <2>1, <2>3, <2>4, <2>5 DEF SendFileEnd, Uploading
  <1>10. CASE Connect(s)
    <2>1. /\ \A t \in Sessions \ {s} : cpc'[t] = cpc[t] /\ spc'[t] = spc[t] /\ c2s'[t] = c2s[t]
          /\ cpc'[s] = "idle" /\ spc'[s] = "idle" /\ c2s'[s] = <<>> /\ spc[s] = "gone"
          /\ UNCHANGED <<file, total, woff>>
      BY <1>1, <1>10 DEF Connect, TypeOK
    <2>2. \A t \in Sessions : Uploading(t)' => Uploading(t)  BY <2>1 DEF Uploading
    <2>3. SentBlocks'
      <3>1. SUFFICES ASSUME NEW t \in Sessions, NEW i \in 1..Len(c2s'[t]), t # s
                     PROVE  c2s'[t][i].type = "FILE_DATA" => c2s'[t][i].block # Hole
        BY <2>1 DEF SentBlocks
      <3> QED  BY <2>1, <3>1 DEF SafeInv, SentBlocks
    <2>4. Measured'  BY <2>1 DEF SafeInv, Measured
    <2>5. HolesOnlyUnderUpload'  BY <2>1 DEF SafeInv, HolesOnlyUnderUpload
    <2> QED  BY <1>1, <2>2, <2>3, <2>4, <2>5, StaysSolo DEF SafeInv
  <1>11. CASE \E v \in Versions : StartPuts(s, v)
    <2>1. PICK v \in Versions : StartPuts(s, v)  BY <1>11
    <2>2. SentBlocks'
      <3>1. Size[v] \in Sizes  BY DEF Sizes
      <3>2. PICK p : p = [type |-> "PUTS_REQ", size |-> Size[v]]  OBVIOUS
      <3>3. p \in Packets /\ p.type = "PUTS_REQ"  BY <3>1, <3>2, PacketTypes
      <3>4. ToServer(s, p)  BY <2>1, <3>2 DEF StartPuts
      <3> QED  BY <1>1, <3>3, <3>4, AppendSent DEF SafeInv
    <2>3. \A t \in Sessions \ {s} : ~Uploading(t) /\ ~Uploading(t)'
      <3>1. \A t \in Sessions \ {s} : ~Uploading(t)  BY <2>1 DEF StartPuts
      <3>2. \A t \in Sessions \ {s} : cpc'[t] = cpc[t] /\ spc'[t] = spc[t] /\ c2s'[t] = c2s[t]
        BY <1>1, <2>1 DEF StartPuts, ToServer, TypeOK, serverVars
      <3> QED  BY <3>1, <3>2 DEF Uploading
    <2>4. Solo'  BY <2>3 DEF Solo
    <2> QED  BY <1>2, <2>1, <2>2, <2>4 DEF StartPuts, serverVars
  <1>12. CASE Leave(s)
    <2>1. \A t \in Sessions : cpc'[t] \notin {"down", "idle"} => cpc[t] \notin {"down", "idle"}
      BY <1>1, <1>12 DEF Leave, TypeOK
    <2> QED  BY <1>4, <1>12, <2>1 DEF Leave, Uploading
  <1>13. CASE LinkBreaks(s)
    BY <1>4, <1>13 DEF LinkBreaks, clientVars, Uploading
  <1> QED
    BY <1>6, <1>7, <1>8, <1>9, <1>10, <1>11, <1>12, <1>13 DEF ClientStep, User

LEMMA WorkerSafe ==
    ASSUME SafeInv, Faults = {}, NEW s \in Sessions, Worker(s)
    PROVE  SafeInv'
  <1>1. Typing /\ TypeOK /\ Typing'  BY WorkerTyping DEF SafeInv, Typing
  <1>2. /\ file \in Seq(Blocks) /\ Len(file) \in Nat
        /\ \A t \in Sessions : woff[t] \in Nat /\ total[t] \in Nat
    BY <1>1 DEF TypeOK
  \* The session that is in handle_puts is the only one.
  <1>3. ASSUME Uploading(s), NEW t \in Sessions, t # s
        PROVE  spc[t] \in {"gone", "idle", "closing"}
    BY <1>3 DEF SafeInv, Solo, Uploading
  \* A step of this worker alone.
  <1>4. ASSUME Uploading(s), cpc' = cpc, SentBlocks',
               \A t \in Sessions \ {s} : spc'[t] = spc[t] /\ (c2s'[t] = c2s[t] \/ c2s'[t] = <<>>),
               HolesOnlyUnderUpload',
               /\ spc'[s] \in {"respond", "extend"} => woff'[s] = Len(file')
               /\ spc'[s] \in {"recv", "truncate"} => Len(file') = total'[s]
               /\ spc'[s] = "ack" => Len(file') = total'[s] /\ woff'[s] = total'[s]
        PROVE  SafeInv'
    <2>1. \A t \in Sessions : Uploading(t)' => Uploading(t)
      BY <1>4 DEF Uploading
    <2>2. \A t \in Sessions \ {s} : spc'[t] \in {"gone", "idle", "closing"}  BY <1>3, <1>4
    <2>3. Measured'  BY <1>4, <2>2 DEF Measured
    <2> QED  BY <1>1, <1>4, <2>1, <2>3, StaysSolo DEF SafeInv
  <1>5. ASSUME SentBlocks, c2s' = c2s PROVE SentBlocks'  BY <1>5 DEF SentBlocks
  \* While the worker is not in the receive loop there are no holes.
  <1>6. ASSUME Uploading(s), spc[s] \notin {"recv", "truncate"} PROVE \A i \in 1..Len(file) : file[i] # Hole
    BY <1>3, <1>6 DEF SafeInv, HolesOnlyUnderUpload
  <1>7. ASSUME Uploading(s), NEW i \in 1..Len(file), file[i] = Hole
        PROVE  spc[s] \in {"recv", "truncate"} /\ woff[s] < i
    BY <1>3, <1>7 DEF SafeInv, HolesOnlyUnderUpload
  \* handle_request returns.
  <1>8. ASSUME EndRequest(s), UNCHANGED <<file, clientVars, total, woff, c2s>>, spc[s] \notin {"recv", "truncate"}
        PROVE  SafeInv'
    <2>1. spc'[s] = "closing" /\ cpc' = cpc /\ \A t \in Sessions \ {s} : spc'[t] = spc[t]
      BY <1>1, <1>8 DEF EndRequest, TypeOK, clientVars
    <2>2. \A t \in Sessions : Uploading(t)' => Uploading(t)  BY <1>8, <2>1 DEF Uploading
    <2>3. Measured'  BY <1>8, <2>1 DEF SafeInv, Measured
    <2>4. HolesOnlyUnderUpload'  BY <1>8, <2>1 DEF SafeInv, HolesOnlyUnderUpload
    <2> QED  BY <1>1, <1>5, <1>8, <2>2, <2>3, <2>4, StaysSolo DEF SafeInv
  <1>8a. CASE CloseClientFd(s)
    <2>1. /\ \A t \in Sessions \ {s} : spc'[t] = spc[t] /\ c2s'[t] = c2s[t]
          /\ spc[s] = "closing" /\ spc'[s] = "gone" /\ c2s'[s] = <<>> /\ cpc' = cpc
          /\ UNCHANGED <<file, total, woff>>
      BY <1>1, <1>8a DEF CloseClientFd, TypeOK, clientVars
    <2>2. \A t \in Sessions : Uploading(t)' => Uploading(t)  BY <2>1 DEF Uploading
    <2>3. SentBlocks'
      <3>1. SUFFICES ASSUME NEW t \in Sessions, NEW i \in 1..Len(c2s'[t]), t # s
                     PROVE  c2s'[t][i].type = "FILE_DATA" => c2s'[t][i].block # Hole
        BY <2>1 DEF SentBlocks
      <3> QED  BY <2>1, <3>1 DEF SafeInv, SentBlocks
    <2>4. Measured'  BY <2>1 DEF SafeInv, Measured
    <2>5. HolesOnlyUnderUpload'  BY <2>1 DEF SafeInv, HolesOnlyUnderUpload
    <2> QED  BY <1>1, <2>2, <2>3, <2>4, <2>5, StaysSolo DEF SafeInv
  <1>9. CASE RecvPutsReq(s) \/ RecvUnknown(s) \/ RefusePuts(s)
    <2>1. /\ spc[s] = "idle" /\ c2s[s] # <<>> /\ PopServer(s) /\ cpc' = cpc /\ file' = file
          /\ spc' = [spc EXCEPT ![s] = "stat"] \/ spc' = [spc EXCEPT ![s] = "error"]
          /\ woff' = woff
      BY <1>9 DEF RecvPutsReq, RecvUnknown, RefusePuts, ServerGets, clientVars
    <2>2. /\ \A t \in Sessions \ {s} : spc'[t] = spc[t] /\ c2s'[t] = c2s[t]
          /\ spc'[s] \in {"stat", "error"} /\ Uploading(s)
      BY <1>1, <2>1 DEF TypeOK, PopServer, Uploading
    <2>3. HolesOnlyUnderUpload'
      <3>1. \A i \in 1..Len(file) : file[i] # Hole  BY <1>6, <2>1, <2>2
      <3> QED  BY <2>1, <3>1 DEF HolesOnlyUnderUpload
    <2> QED  BY <1>1, <1>4, <2>1, <2>2, <2>3, PopSent DEF SafeInv
  <1>10. CASE SessionEnds(s) \/ SendFails(s)
    BY <1>8, <1>10 DEF SessionEnds, SendFails, netVars
  <1>11. CASE StatResumePoint(s)
    <2>1. /\ spc[s] = "stat" /\ file' = file /\ c2s' = c2s /\ cpc' = cpc
          /\ \A t \in Sessions \ {s} : spc'[t] = spc[t]
          /\ woff'[s] = Len(file) /\ spc'[s] \in {"reset", "respond"} /\ Uploading(s)
      BY <1>1, <1>11 DEF StatResumePoint, TypeOK, netVars, clientVars, Uploading
    <2>2. HolesOnlyUnderUpload'
      <3>1. \A i \in 1..Len(file) : file[i] # Hole  BY <1>6, <2>1
      <3> QED  BY <2>1, <3>1 DEF HolesOnlyUnderUpload
    <2> QED  BY <1>4, <1>5, <2>1, <2>2 DEF SafeInv
  <1>12. CASE ResetLarger(s)
    <2>1. /\ spc[s] = "reset" /\ file' = <<>> /\ c2s' = c2s /\ cpc' = cpc
          /\ \A t \in Sessions \ {s} : spc'[t] = spc[t]
          /\ woff'[s] = 0 /\ spc'[s] = "respond" /\ Uploading(s)
      BY <1>1, <1>12 DEF ResetLarger, TypeOK, netVars, clientVars, Uploading
    <2>2. Len(file') = 0  BY <2>1
    <2>3. HolesOnlyUnderUpload'  BY <2>2 DEF HolesOnlyUnderUpload
    <2> QED  BY <1>4, <1>5, <2>1, <2>2, <2>3 DEF SafeInv
  <1>12a. CASE ResetFails(s)
    <2>1. /\ spc[s] = "reset" /\ file' = file /\ c2s' = c2s /\ cpc' = cpc
          /\ \A t \in Sessions \ {s} : spc'[t] = spc[t]
          /\ spc'[s] = "error" /\ Uploading(s)
      BY <1>1, <1>12a DEF ResetFails, TypeOK, netVars, clientVars, Uploading
    <2>2. HolesOnlyUnderUpload'
      <3>1. \A i \in 1..Len(file) : file[i] # Hole  BY <1>6, <2>1
      <3> QED  BY <2>1, <3>1 DEF HolesOnlyUnderUpload
    <2> QED  BY <1>4, <1>5, <2>1, <2>2 DEF SafeInv
  <1>13. CASE SendPutsResp(s)
    <2>1. /\ spc[s] = "respond" /\ c2s' = c2s /\ cpc' = cpc
          /\ \A t \in Sessions \ {s} : spc'[t] = spc[t]
          /\ spc'[s] = (IF total[s] > 0 THEN "extend" ELSE "recv") /\ Uploading(s)
          /\ UNCHANGED <<file, woff, total>>
      BY <1>1, <1>13 DEF SendPutsResp, TypeOK, clientVars, Uploading
    <2>2. woff[s] = Len(file) /\ woff[s] <= total[s]
      BY <1>1, <2>1 DEF SafeInv, Measured, Typing, Sized
    <2>3. HolesOnlyUnderUpload'
      <3>1. \A i \in 1..Len(file) : file[i] # Hole  BY <1>6, <2>1
      <3> QED  BY <2>1, <3>1 DEF HolesOnlyUnderUpload
    <2>4. spc'[s] = "recv" => Len(file) = total[s]  BY <1>2, <2>1, <2>2
    <2> QED  BY <1>4, <1>5, <2>1, <2>2, <2>3, <2>4 DEF SafeInv
  <1>14. CASE Extend(s)
    <2>1. /\ spc[s] = "extend" /\ c2s' = c2s /\ cpc' = cpc /\ file' = Resize(file, total[s])
          /\ \A t \in Sessions \ {s} : spc'[t] = spc[t]
          /\ spc'[s] = "recv" /\ Uploading(s)
          /\ UNCHANGED <<woff, total>>
      BY <1>1, <1>14 DEF Extend, TypeOK, netVars, clientVars, Uploading
    <2>2. woff[s] = Len(file)  BY <2>1 DEF SafeInv, Measured
    <2>3. Len(file') = total[s] /\ \A i \in 1..total[s] : file'[i] = IF i <= Len(file) THEN file[i] ELSE Hole
      BY <1>2, <2>1, ResizeType
    <2>4. HolesOnlyUnderUpload'
      <3>1. \A i \in 1..Len(file) : file[i] # Hole  BY <1>6, <2>1
      <3>2. \A i \in 1..Len(file') : file'[i] = Hole => woff[s] < i  BY <1>2, <2>2, <2>3, <3>1
      <3> QED  BY <2>1, <3>2 DEF HolesOnlyUnderUpload
    <2> QED  BY <1>4, <1>5, <2>1, <2>3, <2>4 DEF SafeInv
  <1>15. CASE StatFails(s) \/ ExtendFails(s) \/ MmapFails(s) \/ TruncateFails(s)
    BY <1>15 DEF StatFails, ExtendFails, MmapFails, TruncateFails
  <1>16. CASE RecvFileData(s)
    <2>1. /\ spc[s] = "recv" /\ cpc' = cpc /\ c2s[s] # <<>> /\ PopServer(s) /\ Uploading(s)
          /\ Head(c2s[s]).type = "FILE_DATA"
          /\ woff[s] + 1 <= total[s] /\ woff[s] + 1 <= Len(file)
          /\ file' = [file EXCEPT ![woff[s] + 1] = Head(c2s[s]).block]
          /\ woff'[s] = woff[s] + 1 /\ spc' = spc /\ total' = total
          /\ \A t \in Sessions \ {s} : c2s'[t] = c2s[t]
      BY <1>1, <1>16 DEF RecvFileData, ServerGets, TypeOK, clientVars, Uploading, PopServer
    <2>2. SentBlocks' /\ Head(c2s[s]).block # Hole  BY <1>1, <2>1, PopSent DEF SafeInv
    <2>3. /\ Len(file') = Len(file)
          /\ \A i \in 1..Len(file) : file'[i] = IF i = woff[s] + 1 THEN Head(c2s[s]).block ELSE file[i]
      BY <1>2, <2>1
    <2>4. Len(file) = total[s]  BY <2>1 DEF SafeInv, Measured
    <2>5. HolesOnlyUnderUpload'
      <3>1. ASSUME NEW i \in 1..Len(file'), file'[i] = Hole PROVE woff'[s] < i
        <4>1. i # woff[s] + 1 /\ file[i] = Hole /\ i \in 1..Len(file)  BY <2>2, <2>3, <3>1
        <4>2. woff[s] < i  BY <1>7, <2>1, <4>1
        <4> QED  BY <1>2, <2>1, <4>1, <4>2
      <3> QED  BY <2>1, <3>1 DEF HolesOnlyUnderUpload
    <2> QED  BY <1>4, <2>1, <2>2, <2>3, <2>4, <2>5
  <1>17. CASE RecvFileEnd(s) \/ RecvOutOfPlace(s) \/ RecvFails(s)
    <2>6. \/ spc' = [spc EXCEPT ![s] = "truncate"]
          \/ spc' = [spc EXCEPT ![s] = "ack"] /\ woff[s] = total[s]
      <3>1. CASE RecvFileEnd(s)
        <4>1. CASE woff[s] = total[s]  BY <3>1, <4>1 DEF RecvFileEnd
        <4>2. CASE woff[s] # total[s]  BY <3>1, <4>2 DEF RecvFileEnd
        <4> QED  BY <4>1, <4>2
      <3>2. CASE RecvOutOfPlace(s) \/ RecvFails(s)  BY <3>2 DEF RecvOutOfPlace, RecvFails
      <3> QED  BY <1>17, <3>1, <3>2
    <2>1. /\ spc[s] = "recv" /\ cpc' = cpc /\ Uploading(s) /\ UNCHANGED <<file, woff, total>>
          /\ c2s' = c2s \/ (c2s[s] # <<>> /\ PopServer(s))
      <3>1. CASE RecvFileEnd(s)  BY <3>1 DEF RecvFileEnd, ServerGets, clientVars, Uploading
      <3>2. CASE RecvOutOfPlace(s)
        <4>1. spc[s] = "recv" /\ c2s[s] # <<>> /\ PopServer(s)  BY <3>2 DEF RecvOutOfPlace
        <4>2. UNCHANGED <<file, woff, total, cpc>>  BY <3>2 DEF RecvOutOfPlace, clientVars
        <4> QED  BY <4>1, <4>2 DEF Uploading
      <3>3. CASE RecvFails(s)
        <4>1. spc[s] = "recv"  BY <3>3 DEF RecvFails
        <4>2. UNCHANGED <<file, woff, total, cpc, c2s>>  BY <3>3 DEF RecvFails, clientVars, netVars
        <4> QED  BY <4>1, <4>2 DEF Uploading
      <3> QED  BY <1>17, <3>1, <3>2, <3>3
    <2>2. /\ \A t \in Sessions \ {s} : spc'[t] = spc[t] /\ c2s'[t] = c2s[t]
          /\ spc'[s] = "truncate" \/ (spc'[s] = "ack" /\ woff[s] = total[s])
      <3>1. \A t \in Sessions \ {s} : c2s'[t] = c2s[t]  BY <1>1, <2>1 DEF TypeOK, PopServer
      <3>2. DOMAIN spc = Sessions  BY <1>1 DEF TypeOK
      <3>3. \A here : spc' = [spc EXCEPT ![s] = here] =>
                        spc'[s] = here /\ \A t \in Sessions \ {s} : spc'[t] = spc[t]
        BY <3>2
      <3>4. spc' = [spc EXCEPT ![s] = "truncate"] \/ spc' = [spc EXCEPT ![s] = "ack"]  BY <2>6
      <3>5. \A t \in Sessions \ {s} : spc'[t] = spc[t]  BY <3>3, <3>4
      <3>6. CASE spc' = [spc EXCEPT ![s] = "truncate"]  BY <3>1, <3>3, <3>5, <3>6
      <3>7. CASE spc' = [spc EXCEPT ![s] = "ack"] /\ woff[s] = total[s]
        <4>1. spc'[s] = "ack"  BY <3>3, <3>7
        <4> QED  BY <3>1, <3>5, <3>7, <4>1
      <3> QED  BY <2>6, <3>6, <3>7
    <2>3. SentBlocks'  BY <1>1, <1>5, <2>1, PopSent DEF SafeInv
    <2>4. Len(file) = total[s]  BY <2>1 DEF SafeInv, Measured
    <2>5. HolesOnlyUnderUpload'
      <3>1. ASSUME NEW i \in 1..Len(file), file[i] = Hole PROVE woff[s] < i /\ spc'[s] = "truncate"
        <4>1. woff[s] < i  BY <1>7, <2>1, <3>1
        <4>2. woff[s] # total[s]  BY <1>2, <2>4, <3>1, <4>1
        <4> QED  BY <2>2, <4>1, <4>2
      <3> QED  BY <2>1, <3>1 DEF HolesOnlyUnderUpload
    <2> QED  BY <1>4, <2>1, <2>2, <2>3, <2>4, <2>5
  <1>18. CASE TruncateToReceived(s)
    <2>1. /\ spc[s] = "truncate" /\ c2s' = c2s /\ cpc' = cpc /\ file' = Resize(file, woff[s])
          /\ \A t \in Sessions \ {s} : spc'[t] = spc[t]
          /\ spc'[s] = "error" /\ Uploading(s)
      BY <1>1, <1>18 DEF TruncateToReceived, TypeOK, netVars, clientVars, Uploading
    <2>2. Len(file) = total[s] /\ woff[s] <= total[s]
      BY <1>1, <2>1 DEF SafeInv, Measured, Typing, Sized
    <2>3. Len(file') = woff[s] /\ \A i \in 1..woff[s] : file'[i] = IF i <= Len(file) THEN file[i] ELSE Hole
      BY <1>2, <2>1, ResizeType
    <2>4. HolesOnlyUnderUpload'
      <3>1. ASSUME NEW i \in 1..Len(file') PROVE file'[i] # Hole
        <4>1. i \in 1..Len(file) /\ i <= woff[s] /\ file'[i] = file[i]  BY <1>2, <2>2, <2>3, <3>1
        <4> QED  BY <1>2, <1>7, <2>1, <4>1
      <3> QED  BY <3>1 DEF HolesOnlyUnderUpload
    <2> QED  BY <1>4, <1>5, <2>1, <2>4 DEF SafeInv
  <1>19. CASE SendAck(s) \/ SendError(s)
    <2>1. CASE EndRequest(s) /\ SendError(s)  BY <1>8, <2>1 DEF SendError
    <2>2. CASE spc' = [spc EXCEPT ![s] = "idle"] /\ c2s' = c2s
      <3>1. /\ spc[s] \in {"ack", "error"} /\ cpc' = cpc /\ UNCHANGED <<file, woff, total>> /\ Uploading(s)
        BY <1>19 DEF SendAck, SendError, clientVars, Uploading
      <3>2. spc'[s] = "idle" /\ \A t \in Sessions \ {s} : spc'[t] = spc[t]  BY <1>1, <2>2 DEF TypeOK
      <3>3. HolesOnlyUnderUpload'
        <4>1. \A i \in 1..Len(file) : file[i] # Hole  BY <1>6, <3>1
        <4> QED  BY <3>1, <4>1 DEF HolesOnlyUnderUpload
      <3> QED  BY <1>4, <1>5, <2>2, <3>1, <3>2, <3>3 DEF SafeInv
    <2> QED  BY <1>19, <2>1, <2>2 DEF SendAck, SendError
  \* The mapping is inside the file, so there is no SIGBUS.
  <1>20. CASE Sigbus(s)
    <2>1. Len(file) = total[s]  BY <1>20 DEF Sigbus, SafeInv, Measured
    <2> QED  BY <1>2, <1>20, <2>1 DEF Sigbus
  <1> QED
    BY <1>8a, <1>9, <1>10, <1>11, <1>12, <1>12a, <1>13, <1>14, <1>15, <1>16, <1>17, <1>18, <1>19, <1>20
       DEF Worker

LEMMA NextSafe == Faults = {} /\ SafeInv /\ [Next]_vars => SafeInv'
  <1> SUFFICES ASSUME Faults = {}, SafeInv, [Next]_vars PROVE SafeInv'  OBVIOUS
  <1>1. ASSUME NEW s \in Sessions, ClientStep(s) \/ User(s) \/ LinkBreaks(s) PROVE SafeInv'
    BY <1>1, ClientSafe
  <1>2. ASSUME NEW s \in Sessions, Worker(s) PROVE SafeInv'  BY <1>2, WorkerSafe
  <1>3. CASE ServerCrash  BY <1>3 DEF ServerCrash
  <1>4. CASE UNCHANGED vars
    BY <1>4 DEF vars, netVars, clientVars, serverVars, bounds, counters, SafeInv, Typing, TypeOK, Sized,
                Solo, Uploading, Measured, SentBlocks, HolesOnlyUnderUpload
  <1> QED  BY <1>1, <1>2, <1>3, <1>4 DEF Next

LEMMA Safe ==
    ASSUME Faults = {} PROVE Spec => []SafeInv
  <1>1. SafeInv /\ [Next]_vars => SafeInv'  BY NextSafe
  <1> QED  BY <1>1, InitSafe, PTL DEF Spec

\* What SafeInv says of one upload: all below its write_offset has been received.
LEMMA ReceivedBelow ==
    ASSUME SafeInv, NEW s \in Sessions, spc[s] \in {"respond", "extend", "recv", "ack"}
    PROVE  \A i \in 1..woff[s] : Received(i)
  <1>1. \A t \in Sessions \ {s} : spc[t] \in {"gone", "idle", "closing"}
    BY DEF SafeInv, Solo, Uploading
  <1>2. woff[s] \in Nat /\ Len(file) \in Nat /\ woff[s] <= Len(file)
    BY DEF SafeInv, Measured, Typing, TypeOK, Sized
  <1>3. ASSUME NEW i \in 1..woff[s] PROVE file[i] # Hole
    <2>1. i \in 1..Len(file) /\ ~(woff[s] < i)  BY <1>2
    <2> QED  BY <1>1, <2>1 DEF SafeInv, HolesOnlyUnderUpload
  <1> QED  BY <1>2, <1>3 DEF Received

\* The resume point is real: the worker offers the size of the file as resume_offset only
\* when everything below it was received, for every way the uploads before it ended.
THEOREM ResumesTruly == ASSUME Faults = {} PROVE Spec => []ResumePointIsReal
  <1>1. SafeInv => ResumePointIsReal  BY ReceivedBelow DEF ResumePointIsReal
  <1> QED  BY <1>1, Safe, PTL

\* An upload that is answered with ACK is whole.
THEOREM AcksWhole == ASSUME Faults = {} PROVE Spec => []AckedIsWhole
  <1>1. SafeInv => AckedIsWhole  BY ReceivedBelow DEF AckedIsWhole, SafeInv, Measured
  <1> QED  BY <1>1, Safe, PTL

\* The preallocated zeros are gone when the worker is back in handle_request.
THEOREM NoHolesLeft == ASSUME Faults = {} PROVE Spec => []HolesOnlyUnderUpload
  <1>1. SafeInv => HolesOnlyUnderUpload  BY DEF SafeInv
  <1> QED  BY <1>1, Safe, PTL

\* The worker never writes beyond the end of the file through its mapping.
THEOREM MapsInside == ASSUME Faults = {} PROVE Spec => []MappingInsideFile
  <1>1. SafeInv => MappingInsideFile
    <2>1. ASSUME SafeInv, NEW s \in Sessions, spc[s] = "recv" PROVE Len(file) >= total[s]
      BY <2>1 DEF SafeInv, Measured, Typing, TypeOK
    <2> QED  BY <2>1 DEF MappingInsideFile
  <1> QED  BY <1>1, Safe, PTL

--------------------------------------------------------------------------------
(* Where blocks lie. *)

\* A worker that is about to close its connection reads nothing: what its client sends
\* meanwhile, and in which phase of a command it is, is of no account.

\* A queue of blocks, behind which there may be one packet of another kind.
Ordered(q) == \A i \in 1..Len(q) : i < Len(q) => q[i].type = "FILE_DATA"
Data(q) == \A i \in 1..Len(q) : q[i].type = "FILE_DATA"
DataThen(q, type) == Len(q) >= 1 /\ q[Len(q)].type = type /\ Ordered(q)

\* The blocks in the queue follow the first n blocks of the file.
Placed(q, n) == \A i \in 1..Len(q) : q[i].type = "FILE_DATA" => q[i].block[2] = n + i

\* What may lie in front of a worker, also when the connection is broken.
Queued(s) == /\ spc[s] = "idle" => Len(c2s[s]) <= 1
             /\ spc[s] \in {"stat", "reset", "respond", "ack"} => Len(c2s[s]) = 0
             /\ spc[s] \in {"extend", "recv"} => Ordered(c2s[s]) /\ Placed(c2s[s], woff[s])
             /\ spc[s] \in {"truncate", "error"} => Len(c2s[s]) = 0 \/ shouldClose[s]

\* How client and worker stand to each other on a live connection.
Receives(s) == spc[s] \in {"extend", "recv"} /\ Len(s2c[s]) = 0
Closes(s)   == spc[s] \in {"truncate", "error"} /\ shouldClose[s] /\ Len(s2c[s]) = 0

\* After a local read error the client is back at its prompt and the worker is not.
IdlePhase(s) == \/ spc[s] = "idle" /\ Len(c2s[s]) = 0 /\ Len(s2c[s]) = 0
                \/ Receives(s) /\ Data(c2s[s])
                \/ Closes(s)
                \/ spc[s] = "closing"

RespPhase(s) == \/ /\ spc[s] = "idle" /\ Len(s2c[s]) = 0
                   /\ Len(c2s[s]) = 1 /\ c2s[s][1] = [type |-> "PUTS_REQ", size |-> Size[source[s]]]
                \/ spc[s] \in {"stat", "reset", "respond"} /\ Len(s2c[s]) = 0 /\ total[s] = Size[source[s]]
                \/ /\ spc[s] \in {"extend", "recv"} /\ Len(c2s[s]) = 0 /\ total[s] = Size[source[s]]
                   /\ Len(s2c[s]) = 1 /\ s2c[s][1] = [type |-> "PUTS_RESP", offset |-> woff[s]]
                \/ spc[s] = "error" /\ Len(c2s[s]) = 0 /\ Len(s2c[s]) = 0
                \/ /\ spc[s] = "idle" /\ Len(c2s[s]) = 0
                   /\ Len(s2c[s]) = 1 /\ s2c[s][1] = [type |-> "ERROR"]
                \/ Receives(s) /\ DataThen(c2s[s], "PUTS_REQ")
                \/ Closes(s)
                \/ spc[s] = "closing"

SendPhase(s) == \/ Receives(s) /\ Data(c2s[s]) /\ cpos[s] = woff[s] + Len(c2s[s])
                \/ Closes(s)
                \/ spc[s] = "closing"

ReplyPhase(s) == \/ Receives(s) /\ DataThen(c2s[s], "FILE_END")
                 \/ spc[s] \in {"ack", "truncate", "error"} /\ Len(s2c[s]) = 0
                 \/ spc[s] = "idle" /\ Len(c2s[s]) = 0 /\ Len(s2c[s]) = 1
                 \/ spc[s] = "closing"

Phase(s) == link[s] = "up" => /\ cpc[s] # "down"
                              /\ cpc[s] = "idle" => IdlePhase(s)
                              /\ cpc[s] = "waitResp" => RespPhase(s)
                              /\ cpc[s] = "sending" => SendPhase(s)
                              /\ cpc[s] = "waitReply" => ReplyPhase(s)

Placing == BlocksInPlace /\ \A s \in Sessions : Queued(s) /\ Phase(s)

PlaceInv == Typing /\ (abandoned \/ Placing)

LEMMA PlacedAppend ==
    ASSUME NEW q \in Seq(Packets), NEW p \in Packets, NEW n \in Nat
    PROVE  /\ Append(q, p) \in Seq(Packets) /\ Len(Append(q, p)) = Len(q) + 1
           /\ Append(q, p)[Len(q) + 1] = p /\ \A i \in 1..Len(q) : Append(q, p)[i] = q[i]
           /\ Data(q) => Ordered(Append(q, p))
           /\ Data(q) /\ p.type = "FILE_DATA" => Data(Append(q, p))
           /\ \A type : Data(q) /\ p.type = type => DataThen(Append(q, p), type)
           /\ Placed(q, n) /\ (p.type = "FILE_DATA" => p.block[2] = n + Len(q) + 1) => Placed(Append(q, p), n)
  <1>1. /\ Append(q, p) \in Seq(Packets) /\ Len(Append(q, p)) = Len(q) + 1
        /\ Append(q, p)[Len(q) + 1] = p /\ \A i \in 1..Len(q) : Append(q, p)[i] = q[i]
        /\ Len(q) \in Nat
    OBVIOUS
  <1>2. PICK r : r = Append(q, p)  OBVIOUS
  <1>3. /\ Len(r) = Len(q) + 1 /\ r[Len(q) + 1] = p /\ \A i \in 1..Len(q) : r[i] = q[i]
        /\ \A i \in 1..Len(r) : i \in 1..Len(q) \/ i = Len(q) + 1
    BY <1>1, <1>2
  <1>4. Data(q) => Ordered(r)  BY <1>1, <1>3 DEF Data, Ordered
  <1>5. Data(q) /\ p.type = "FILE_DATA" => Data(r)  BY <1>3 DEF Data
  <1>6. \A type : Data(q) /\ p.type = type => DataThen(r, type)
    BY <1>1, <1>3, <1>4 DEF DataThen
  <1>7. Placed(q, n) /\ (p.type = "FILE_DATA" => p.block[2] = n + Len(q) + 1) => Placed(r, n)
    BY <1>1, <1>3 DEF Placed
  <1> QED  BY <1>1, <1>2, <1>4, <1>5, <1>6, <1>7

LEMMA PlacedTail ==
    ASSUME NEW q \in Seq(Packets), q # <<>>, NEW n \in Nat
    PROVE  /\ Len(q) >= 1 /\ Head(q) = q[1] /\ Len(Tail(q)) = Len(q) - 1
           /\ Ordered(q) => Ordered(Tail(q)) /\ (Head(q).type # "FILE_DATA" => Len(q) = 1)
           /\ Data(q) => Head(q).type = "FILE_DATA" /\ Data(Tail(q))
           /\ \A type : DataThen(q, type) =>
                 \/ Head(q).type = type /\ Len(q) = 1
                 \/ Head(q).type = "FILE_DATA" /\ DataThen(Tail(q), type)
           /\ Placed(q, n) /\ Head(q).type = "FILE_DATA" =>
                 Head(q).block[2] = n + 1 /\ Placed(Tail(q), n + 1)
  <1>1. /\ Len(q) \in Nat /\ Len(q) >= 1 /\ Head(q) = q[1] /\ Len(Tail(q)) = Len(q) - 1
        /\ \A i \in 1..Len(q) - 1 : Tail(q)[i] = q[i + 1]
    OBVIOUS
  <1>2. PICK r : r = Tail(q)  OBVIOUS
  <1>3. /\ Len(r) = Len(q) - 1 /\ \A i \in 1..Len(r) : r[i] = q[i + 1] /\ i + 1 \in 1..Len(q)
        /\ 1 \in 1..Len(q)
    BY <1>1, <1>2
  <1>4. Ordered(q) => Ordered(r) /\ (q[1].type # "FILE_DATA" => Len(q) = 1)
    BY <1>1, <1>3 DEF Ordered
  <1>5. Data(q) => q[1].type = "FILE_DATA" /\ Data(r)  BY <1>1, <1>3 DEF Data
  <1>6. ASSUME NEW type, DataThen(q, type)
        PROVE  \/ q[1].type = type /\ Len(q) = 1
               \/ q[1].type = "FILE_DATA" /\ DataThen(r, type)
    <2>1. q[Len(q)].type = type /\ Ordered(q)  BY <1>6 DEF DataThen
    <2>2. CASE Len(q) = 1  BY <2>1, <2>2
    <2>3. CASE Len(q) > 1
      <3>1. Len(r) \in 1..Len(r) /\ Len(r) >= 1 /\ r[Len(r)] = q[Len(q)]  BY <1>1, <1>3, <2>3
      <3>2. q[1].type = "FILE_DATA"  BY <1>3, <2>1, <2>3 DEF Ordered
      <3> QED  BY <1>4, <2>1, <3>1, <3>2 DEF DataThen
    <2> QED  BY <1>1, <2>2, <2>3
  <1>7. Placed(q, n) /\ q[1].type = "FILE_DATA" => q[1].block[2] = n + 1 /\ Placed(r, n + 1)
    BY <1>1, <1>3 DEF Placed
  <1> QED  BY <1>1, <1>2, <1>4, <1>5, <1>6, <1>7

\* A session that a step leaves alone.
Same(t) == /\ link'[t] = link[t] /\ c2s'[t] = c2s[t] /\ s2c'[t] = s2c[t]
           /\ cpc'[t] = cpc[t] /\ source'[t] = source[t] /\ cpos'[t] = cpos[t]
           /\ spc'[t] = spc[t] /\ total'[t] = total[t] /\ woff'[t] = woff[t]
           /\ shouldClose'[t] = shouldClose[t]

LEMMA OneMoves ==
    ASSUME Placing, NEW s \in Sessions, \A t \in Sessions \ {s} : Same(t),
           BlocksInPlace', Queued(s)', Phase(s)'
    PROVE  Placing'
  <1>1. ASSUME NEW t \in Sessions, t # s PROVE Queued(t)' /\ Phase(t)'
    <2>1. Same(t) /\ Queued(t) /\ Phase(t)  BY <1>1 DEF Placing
    <2>2. Queued(t)'  BY <2>1 DEF Same, Queued
    <2>3. IdlePhase(t)' <=> IdlePhase(t)  BY <2>1 DEF Same, IdlePhase, Receives, Closes
    <2>4. RespPhase(t)' <=> RespPhase(t)  BY <2>1 DEF Same, RespPhase, Receives, Closes
    <2>5. SendPhase(t)' <=> SendPhase(t)  BY <2>1 DEF Same, SendPhase, Receives, Closes
    <2>6. ReplyPhase(t)' <=> ReplyPhase(t)  BY <2>1 DEF Same, ReplyPhase, Receives
    <2>7. Phase(t)'  BY <2>1, <2>3, <2>4, <2>5, <2>6 DEF Same, Phase
    <2> QED  BY <2>2, <2>7
  <1> QED  BY <1>1 DEF Placing

LEMMA InitPlace == Init => PlaceInv
  <1> SUFFICES ASSUME Init PROVE PlaceInv  OBVIOUS
  <1>1. Len(file) = 0  BY DEF Init
  <1>2. BlocksInPlace  BY <1>1 DEF BlocksInPlace
  <1>3. \A s \in Sessions : Queued(s) /\ Phase(s)  BY DEF Init, Queued, Phase
  <1> QED  BY <1>2, <1>3, InitTyping DEF PlaceInv, Placing

LEMMA ClientPlaces ==
    ASSUME Typing, Placing, NEW s \in Sessions, ClientStep(s) \/ User(s) \/ LinkBreaks(s)
    PROVE  Placing'
  <1>1. /\ Queued(s) /\ Phase(s) /\ BlocksInPlace /\ TypeOK
        /\ c2s[s] \in Seq(Packets) /\ s2c[s] \in Seq(Packets)
        /\ woff[s] \in Nat /\ cpos[s] \in Nat /\ Len(c2s[s]) \in Nat /\ Len(s2c[s]) \in Nat
    BY DEF Placing, Typing, TypeOK
  <1>2. ASSUME file' = file, abandoned' = abandoned PROVE BlocksInPlace'
    BY <1>1, <1>2 DEF BlocksInPlace
  \* The client takes or gives nothing to the worker.
  <1>3. ASSUME UNCHANGED <<file, abandoned, serverVars>>, c2s'[s] = c2s[s],
               \A t \in Sessions \ {s} : Same(t), Phase(s)'
        PROVE  Placing'
    <2>1. Queued(s)'  BY <1>1, <1>3 DEF Queued, serverVars
    <2> QED  BY <1>2, <1>3, <2>1, OneMoves
  <1>4. ASSUME UNCHANGED <<file, abandoned, serverVars>>, c2s'[s] = c2s[s],
               \A t \in Sessions \ {s} : Same(t), link'[s] # "up"
        PROVE  Placing'
    BY <1>3, <1>4 DEF Phase
  \* It sends p.
  <1>5. ASSUME NEW p \in Packets, UNCHANGED <<file, abandoned, serverVars, link, s2c>>,
               \A t \in Sessions \ {s} : Same(t), ToServer(s, p), cpc[s] \in {"sending", "idle"},
               p.type = "FILE_DATA" => cpc[s] = "sending" /\ p.block[2] = cpos[s] + 1,
               link[s] = "up" /\ c2s'[s] = Append(c2s[s], p) => Phase(s)',
               spc[s] = "idle" /\ link[s] = "up" => cpc[s] = "idle"
        PROVE  Placing'
    <2>1. CASE link[s] # "up"
      <3>1. c2s' = c2s /\ link'[s] # "up"  BY <1>5, <2>1 DEF ToServer
      <3> QED  BY <1>4, <1>5, <3>1
    <2>2. CASE link[s] = "up"
      <3>1. c2s'[s] = Append(c2s[s], p)  BY <1>1, <1>5, <2>2 DEF ToServer, TypeOK
      <3>2. cpc[s] = "idle" => IdlePhase(s)  BY <1>1, <2>2 DEF Phase
      <3>3. cpc[s] = "sending" => SendPhase(s)  BY <1>1, <2>2 DEF Phase
      <3>4. Queued(s)'
        <4>1. UNCHANGED <<spc, woff, shouldClose>>  BY <1>5 DEF serverVars
        <4>2. CASE spc[s] = "idle" /\ Len(c2s[s]) = 0
          BY <1>1, <3>1, <4>1, <4>2, PlacedAppend DEF Queued
        <4>3. CASE Closes(s) \/ spc[s] = "closing"  BY <4>1, <4>3 DEF Queued, Closes
        <4>4. CASE Receives(s) /\ Data(c2s[s])
          <5>1. Placed(c2s[s], woff[s])  BY <1>1, <4>4 DEF Queued, Receives
          <5>2. p.type = "FILE_DATA" => p.block[2] = woff[s] + Len(c2s[s]) + 1
            BY <1>1, <1>5, <3>3, <4>4 DEF SendPhase, Closes, Receives
          <5>3. Ordered(c2s'[s]) /\ Placed(c2s'[s], woff[s])
            BY <1>1, <3>1, <4>4, <5>1, <5>2, PlacedAppend
          <5> QED  BY <4>1, <4>4, <5>3 DEF Queued, Receives
        <4> QED  BY <1>5, <3>2, <3>3, <4>2, <4>3, <4>4 DEF IdlePhase, SendPhase
      <3> QED  BY <1>2, <1>5, <2>2, <3>1, <3>4, OneMoves
    <2> QED  BY <2>1, <2>2
  <1>6. CASE RecvPutsResp(s)
    <2>1. \A t \in Sessions \ {s} : Same(t)
      BY <1>1, <1>6 DEF RecvPutsResp, PopClient, Same, TypeOK, serverVars
    <2>2. /\ cpc[s] = "waitResp" /\ cpc'[s] = "sending" /\ s2c[s] # <<>> /\ s2c'[s] = Tail(s2c[s])
          /\ Head(s2c[s]).type = "PUTS_RESP"
          /\ cpos'[s] = (IF Head(s2c[s]).offset > Size[source[s]] THEN 0 ELSE Head(s2c[s]).offset)
          /\ UNCHANGED <<file, abandoned, serverVars, c2s, link>>
      BY <1>1, <1>6 DEF RecvPutsResp, ClientGets, PopClient, TypeOK, bounds
    <2>3. Len(s2c[s]) >= 1 /\ Head(s2c[s]) = s2c[s][1] /\ Len(s2c'[s]) = Len(s2c[s]) - 1
      BY <1>1, <2>2
    <2>4. CASE link[s] = "up" /\ spc[s] # "closing"
      <3>1. /\ spc[s] \in {"extend", "recv"} /\ Len(c2s[s]) = 0 /\ total[s] = Size[source[s]]
            /\ Len(s2c[s]) = 1 /\ s2c[s][1] = [type |-> "PUTS_RESP", offset |-> woff[s]]
        BY <1>1, <2>2, <2>3, <2>4 DEF Phase, RespPhase, Receives, Closes
      <3>2. woff[s] <= total[s] /\ total[s] \in Nat  BY <3>1 DEF Typing, TypeOK, Sized
      <3>3. cpos'[s] = woff[s]  BY <1>1, <2>2, <2>3, <3>1, <3>2
      <3>4. SendPhase(s)'
        BY <1>1, <2>2, <2>3, <3>1, <3>3 DEF SendPhase, Receives, Data, serverVars
      <3> QED  BY <1>3, <2>1, <2>2, <3>4 DEF Phase
    <2>5. CASE spc[s] = "closing"
      <3>1. SendPhase(s)'  BY <2>2, <2>5 DEF SendPhase, serverVars
      <3> QED  BY <1>3, <2>1, <2>2, <3>1 DEF Phase
    <2> QED  BY <1>4, <2>1, <2>2, <2>4, <2>5
  <1>7. CASE RecvRefusal(s)
    <2>1. \A t \in Sessions \ {s} : Same(t)
      BY <1>1, <1>7 DEF RecvRefusal, Return, PopClient, Same, TypeOK, serverVars
    <2>2. /\ cpc[s] = "waitResp" /\ cpc'[s] = "idle" /\ s2c[s] # <<>> /\ s2c'[s] = Tail(s2c[s])
          /\ Head(s2c[s]).type # "PUTS_RESP"
          /\ UNCHANGED <<file, abandoned, serverVars, c2s, link>>
      BY <1>1, <1>7 DEF RecvRefusal, Return, ClientGets, PopClient, TypeOK, bounds
    <2>3. Len(s2c[s]) >= 1 /\ Head(s2c[s]) = s2c[s][1] /\ Len(s2c'[s]) = Len(s2c[s]) - 1
      BY <1>1, <2>2
    <2>4. link[s] = "up" => IdlePhase(s)'
      BY <1>1, <2>2, <2>3 DEF Phase, RespPhase, IdlePhase, Receives, Closes, serverVars
    <2> QED  BY <1>3, <2>1, <2>2, <2>4 DEF Phase
  <1>8. CASE SendFileData(s)
    <2>1. \A t \in Sessions \ {s} : Same(t)
      BY <1>1, <1>8 DEF SendFileData, ToServer, Same, TypeOK, serverVars
    <2>2. PICK p : p = [type |-> "FILE_DATA", block |-> Block(source[s], cpos[s] + 1)]  OBVIOUS
    <2>3. p \in Packets
      <3>1. source[s] \in Versions /\ cpos[s] + 1 \in 1..Size[source[s]]
        BY <1>1, <1>8, UploadAssumption DEF SendFileData, TypeOK
      <3>2. Block(source[s], cpos[s] + 1) \in Blocks  BY <3>1 DEF Blocks
      <3> QED  BY <2>2, <3>2, PacketTypes
    <2>4. p.type = "FILE_DATA" /\ p.block[2] = cpos[s] + 1  BY <2>2 DEF Block
    <2>5. /\ ToServer(s, p) /\ cpc' = cpc /\ cpc[s] = "sending" /\ cpos'[s] = cpos[s] + 1
          /\ UNCHANGED <<file, abandoned, serverVars, link, s2c>>
      BY <1>1, <1>8, <2>2 DEF SendFileData, TypeOK, bounds
    <2>6. ASSUME link[s] = "up", c2s'[s] = Append(c2s[s], p) PROVE Phase(s)'
      <3>1. SendPhase(s)  BY <1>1, <2>5, <2>6 DEF Phase
      <3>2. UNCHANGED <<spc, woff, shouldClose, s2c>>  BY <2>5 DEF serverVars
      <3>3. CASE Closes(s) \/ spc[s] = "closing"  BY <2>5, <3>2, <3>3 DEF Phase, SendPhase, Closes
      <3>4. CASE Receives(s) /\ Data(c2s[s]) /\ cpos[s] = woff[s] + Len(c2s[s])
        <4>1. Data(c2s'[s]) /\ Len(c2s'[s]) = Len(c2s[s]) + 1
          BY <1>1, <2>3, <2>4, <2>6, <3>4, PlacedAppend
        <4>2. cpos'[s] = woff[s] + Len(c2s'[s])  BY <1>1, <2>5, <3>4, <4>1
        <4>3. SendPhase(s)'  BY <3>2, <3>4, <4>1, <4>2 DEF SendPhase, Receives
        <4> QED  BY <2>5, <4>3 DEF Phase
      <3> QED  BY <3>1, <3>3, <3>4 DEF SendPhase
    <2>7. ~(spc[s] = "idle" /\ link[s] = "up")
      BY <1>1, <2>5 DEF Phase, SendPhase, Receives, Closes
    <2> QED  BY <1>5, <2>1, <2>3, <2>4, <2>5, <2>6, <2>7
  <1>9. CASE SendFileEnd(s)
    <2>1. \A t \in Sessions \ {s} : Same(t)
      BY <1>1, <1>9 DEF SendFileEnd, ToServer, Same, TypeOK, serverVars
    <2>2. PICK p : p = [type |-> "FILE_END"]  OBVIOUS
    <2>3. p \in Packets /\ p.type = "FILE_END"  BY <2>2, PacketTypes
    <2>4. /\ ToServer(s, p) /\ cpc[s] = "sending" /\ cpc'[s] = "waitReply"
          /\ UNCHANGED <<file, abandoned, serverVars, link, s2c>>
      BY <1>1, <1>9, <2>2 DEF SendFileEnd, TypeOK, bounds
    <2>5. ASSUME link[s] = "up", c2s'[s] = Append(c2s[s], p) PROVE Phase(s)'
      <3>1. SendPhase(s)  BY <1>1, <2>4, <2>5 DEF Phase
      <3>2. UNCHANGED <<spc, woff, shouldClose, s2c>>  BY <2>4 DEF serverVars
      <3>3. CASE Closes(s) \/ spc[s] = "closing"  BY <2>4, <3>2, <3>3 DEF Phase, ReplyPhase, Closes
      <3>4. CASE Receives(s) /\ Data(c2s[s])
        <4>1. DataThen(c2s'[s], "FILE_END")  BY <1>1, <2>3, <2>5, <3>4, PlacedAppend
        <4>2. ReplyPhase(s)'  BY <3>2, <3>4, <4>1 DEF ReplyPhase, Receives
        <4> QED  BY <2>4, <4>2 DEF Phase
      <3> QED  BY <3>1, <3>3, <3>4 DEF SendPhase
    <2>6. ~(spc[s] = "idle" /\ link[s] = "up")
      BY <1>1, <2>4 DEF Phase, SendPhase, Receives, Closes
    <2> QED  BY <1>5, <2>1, <2>3, <2>4, <2>5, <2>6
  <1>10. CASE LocalReadFails(s)
    <2>1. \A t \in Sessions \ {s} : Same(t)
      BY <1>1, <1>10 DEF LocalReadFails, Return, Same, TypeOK, serverVars
    <2>2. /\ cpc[s] = "sending" /\ cpc'[s] = "idle"
          /\ UNCHANGED <<file, abandoned, serverVars, c2s, s2c, link>>
      BY <1>1, <1>10 DEF LocalReadFails, Return, TypeOK, bounds
    <2>3. UNCHANGED <<spc, shouldClose>>  BY <2>2 DEF serverVars
    <2>4. link[s] = "up" => IdlePhase(s)'
      BY <1>1, <2>2, <2>3 DEF Phase, SendPhase, IdlePhase, Receives, Closes
    <2> QED  BY <1>3, <2>1, <2>2, <2>4 DEF Phase
  <1>11. CASE RecvReply(s)
    <2>1. \A t \in Sessions \ {s} : Same(t)
      BY <1>1, <1>11 DEF RecvReply, Return, PopClient, Same, TypeOK, serverVars
    <2>2. /\ cpc[s] = "waitReply" /\ cpc'[s] = "idle" /\ s2c[s] # <<>> /\ s2c'[s] = Tail(s2c[s])
          /\ UNCHANGED <<file, abandoned, serverVars, c2s, link>>
      BY <1>1, <1>11 DEF RecvReply, Return, PopClient, TypeOK, bounds
    <2>3. Len(s2c[s]) >= 1 /\ Len(s2c'[s]) = Len(s2c[s]) - 1  BY <1>1, <2>2
    <2>4. link[s] = "up" => IdlePhase(s)'
      BY <1>1, <2>2, <2>3 DEF Phase, ReplyPhase, IdlePhase, Receives, serverVars
    <2> QED  BY <1>3, <2>1, <2>2, <2>4 DEF Phase
  <1>12. CASE ClientIoFails(s)
    <2>1. \A t \in Sessions \ {s} : Same(t)
      BY <1>1, <1>12 DEF ClientIoFails, Return, Same, TypeOK, serverVars
    <2> QED  BY <1>4, <1>12, <2>1 DEF ClientIoFails, Return, bounds
  <1>13. CASE Connect(s)
    <2>1. \A t \in Sessions \ {s} : Same(t)  BY <1>1, <1>13 DEF Connect, Same, TypeOK
    <2>2. /\ cpc'[s] = "idle" /\ spc'[s] = "idle" /\ c2s'[s] = <<>> /\ s2c'[s] = <<>>
          /\ UNCHANGED <<file, abandoned>>
      BY <1>1, <1>13 DEF Connect, TypeOK
    <2>3. Len(c2s'[s]) = 0 /\ Len(s2c'[s]) = 0  BY <2>2
    <2>4. Queued(s)' /\ Phase(s)'  BY <2>2, <2>3 DEF Queued, Phase, IdlePhase
    <2> QED  BY <1>2, <2>1, <2>2, <2>4, OneMoves
  <1>14. CASE \E v \in Versions : StartPuts(s, v)
    <2>1. PICK v \in Versions : StartPuts(s, v)  BY <1>14
    <2>2. \A t \in Sessions \ {s} : Same(t)
      BY <1>1, <2>1 DEF StartPuts, ToServer, Same, TypeOK, serverVars
    <2>3. PICK p : p = [type |-> "PUTS_REQ", size |-> Size[v]]  OBVIOUS
    <2>4. p \in Packets /\ p.type = "PUTS_REQ"
      <3>1. Size[v] \in Sizes  BY DEF Sizes
      <3> QED  BY <2>3, <3>1, PacketTypes
    <2>5. /\ ToServer(s, p) /\ cpc[s] = "idle" /\ cpc'[s] = "waitResp" /\ source'[s] = v
          /\ UNCHANGED <<file, abandoned, serverVars, link, s2c>>
      BY <1>1, <2>1, <2>3 DEF StartPuts, TypeOK
    <2>6. ASSUME link[s] = "up", c2s'[s] = Append(c2s[s], p) PROVE Phase(s)'
      <3>1. IdlePhase(s)  BY <1>1, <2>5, <2>6 DEF Phase
      <3>2. UNCHANGED <<spc, woff, total, shouldClose, s2c>>  BY <2>5 DEF serverVars
      <3>3. CASE Closes(s) \/ spc[s] = "closing"
        <4>1. RespPhase(s)'  BY <3>2, <3>3 DEF RespPhase, Closes
        <4> QED  BY <2>5, <4>1 DEF Phase
      <3>4. CASE Receives(s) /\ Data(c2s[s])
        <4>1. DataThen(c2s'[s], "PUTS_REQ")  BY <1>1, <2>4, <2>6, <3>4, PlacedAppend
        <4>2. RespPhase(s)'  BY <3>2, <3>4, <4>1 DEF RespPhase, Receives
        <4> QED  BY <2>5, <4>2 DEF Phase
      <3>5. CASE spc[s] = "idle" /\ Len(c2s[s]) = 0 /\ Len(s2c[s]) = 0
        <4>1. Len(c2s'[s]) = 1 /\ c2s'[s][1] = p  BY <1>1, <2>4, <2>6, <3>5, PlacedAppend
        <4>2. RespPhase(s)'  BY <2>3, <2>5, <3>2, <3>5, <4>1 DEF RespPhase
        <4> QED  BY <2>5, <4>2 DEF Phase
      <3> QED  BY <3>1, <3>3, <3>4, <3>5 DEF IdlePhase
    <2> QED  BY <1>5, <2>2, <2>4, <2>5, <2>6
  <1>15. CASE Leave(s)
    <2>1. \A t \in Sessions \ {s} : Same(t)  BY <1>1, <1>15 DEF Leave, Same, TypeOK, serverVars
    <2>2. link'[s] = "broken" /\ UNCHANGED <<file, abandoned, serverVars, c2s>>
      BY <1>1, <1>15 DEF Leave, TypeOK, bounds
    <2> QED  BY <1>4, <2>1, <2>2
  <1>16. CASE LinkBreaks(s)
    <2>1. \A t \in Sessions \ {s} : Same(t)
      BY <1>1, <1>16 DEF LinkBreaks, Same, TypeOK, serverVars, clientVars
    <2>2. link'[s] = "broken" /\ UNCHANGED <<file, abandoned, serverVars, c2s>>
      BY <1>1, <1>16 DEF LinkBreaks, TypeOK
    <2> QED  BY <1>4, <2>1, <2>2
  <1> QED
    BY <1>6, <1>7, <1>8, <1>9, <1>10, <1>11, <1>12, <1>13, <1>14, <1>15, <1>16 DEF ClientStep, User

LEMMA DeathPlaces ==
    ASSUME Placing, ServerDies PROVE Placing'
  <1>1. UNCHANGED <<file, abandoned>>  BY DEF ServerDies, bounds
  <1>2. BlocksInPlace'  BY <1>1 DEF Placing, BlocksInPlace
  <1>3. ASSUME NEW s \in Sessions PROVE Queued(s)' /\ Phase(s)'
    <2>1. spc'[s] = "gone" /\ link'[s] = "broken"  BY DEF ServerDies
    <2> QED  BY <2>1 DEF Queued, Phase
  <1> QED  BY <1>2, <1>3 DEF Placing

\* That a client was left alone with its blocks is not forgotten.
LEMMA AbandonedHistory ==
    ASSUME [Next]_vars PROVE abandoned' = abandoned \/ abandoned'
  <1>1. ASSUME NEW s \in Sessions, ClientStep(s) PROVE abandoned' = abandoned
    BY <1>1 DEF ClientStep, RecvPutsResp, RecvRefusal, SendFileData, SendFileEnd, LocalReadFails, RecvReply,
                ClientIoFails, Return, bounds
  <1>2. ASSUME NEW s \in Sessions, User(s) \/ LinkBreaks(s) PROVE abandoned' = abandoned
    BY <1>2 DEF User, Connect, StartPuts, Leave, LinkBreaks, bounds
  <1>3. ASSUME NEW s \in Sessions, MmapFails(s) \/ ExtendFails(s) PROVE abandoned' = TRUE
    BY <1>3 DEF MmapFails, ExtendFails
  <1>4. ASSUME NEW s \in Sessions, Worker(s), ~MmapFails(s), ~ExtendFails(s) PROVE abandoned' = abandoned
    BY <1>4 DEF Worker, RecvPutsReq, RefusePuts, RecvUnknown, SessionEnds, StatResumePoint, StatFails,
                ResetLarger, ResetFails, SendPutsResp, SendFails, Extend, RecvFileData, RecvFileEnd,
                RecvOutOfPlace, RecvFails, TruncateToReceived, TruncateFails, SendAck, SendError,
                CloseClientFd, Sigbus, ServerDies, bounds
  <1>5. CASE ServerCrash  BY <1>5 DEF ServerCrash, ServerDies, bounds
  <1>6. CASE UNCHANGED vars  BY <1>6 DEF vars, bounds
  <1> QED  BY <1>1, <1>2, <1>3, <1>4, <1>5, <1>6 DEF Next

\* A worker moves its file and its session from one of these states to another.
LEMMA WorkerPlaces ==
    ASSUME Typing, ~abandoned, Placing, NEW s \in Sessions, Worker(s)
    PROVE  abandoned' \/ Placing'
  <1>1. /\ Queued(s) /\ Phase(s) /\ BlocksInPlace /\ TypeOK /\ file \in Seq(Blocks)
        /\ c2s[s] \in Seq(Packets) /\ s2c[s] \in Seq(Packets)
        /\ woff[s] \in Nat /\ cpos[s] \in Nat /\ total[s] \in Nat
        /\ Len(c2s[s]) \in Nat /\ Len(s2c[s]) \in Nat
    BY DEF Placing, Typing, TypeOK
  <1>2. ASSUME UNCHANGED <<file, abandoned>> PROVE BlocksInPlace'
    BY <1>1, <1>2 DEF BlocksInPlace
  <1>3. ASSUME NEW n \in Nat, file' = Resize(file, n) PROVE BlocksInPlace'
    <2>1. Len(file') = n /\ \A i \in 1..n : file'[i] = IF i <= Len(file) THEN file[i] ELSE Hole
      BY <1>1, <1>3, ResizeType
    <2>2. ASSUME NEW i \in 1..n, file'[i] # Hole PROVE file'[i][2] = i
      <3>1. i <= Len(file) /\ file'[i] = file[i]  BY <2>1, <2>2
      <3>2. i \in 1..Len(file)  BY <1>1, <3>1
      <3> QED  BY <1>1, <2>2, <3>1, <3>2 DEF BlocksInPlace
    <2> QED  BY <2>1, <2>2 DEF BlocksInPlace
  <1>4. ASSUME \A t \in Sessions \ {s} : Same(t), BlocksInPlace', Queued(s)', link[s] = "up" => Phase(s)',
               link' = link
        PROVE  Placing'
    <2>1. Phase(s)'  BY <1>4 DEF Phase
    <2> QED  BY <1>4, <2>1, OneMoves
  <1>5. ASSUME EndRequest(s), UNCHANGED <<file, link, c2s, clientVars, total, woff, shouldClose, bounds>>,
               \A t \in Sessions \ {s} : s2c'[t] = s2c[t]
        PROVE  Placing'
    <2>1. spc'[s] = "closing"  BY <1>1, <1>5 DEF EndRequest, TypeOK
    <2>2. \A t \in Sessions \ {s} : Same(t)  BY <1>1, <1>5 DEF EndRequest, Same, TypeOK, clientVars
    <2>3. Queued(s)'  BY <2>1 DEF Queued
    <2>4. IdlePhase(s)' /\ RespPhase(s)' /\ SendPhase(s)' /\ ReplyPhase(s)'
      BY <2>1 DEF IdlePhase, RespPhase, SendPhase, ReplyPhase
    <2>5. link[s] = "up" => Phase(s)'  BY <1>1, <1>5, <2>4 DEF Phase, clientVars
    <2> QED  BY <1>2, <1>4, <1>5, <2>2, <2>3, <2>5 DEF bounds
  <1>5a. CASE CloseClientFd(s)
    <2>1. spc'[s] = "gone" /\ link'[s] = "broken"  BY <1>1, <1>5a DEF CloseClientFd, TypeOK
    <2>2. \A t \in Sessions \ {s} : Same(t)  BY <1>1, <1>5a DEF CloseClientFd, Same, TypeOK, clientVars
    <2>3. Queued(s)' /\ Phase(s)'  BY <2>1 DEF Queued, Phase
    <2> QED  BY <1>2, <1>5a, <2>2, <2>3, OneMoves DEF CloseClientFd, bounds
  \* It takes a packet.
  <1>6. ASSUME c2s[s] # <<>>, PopServer(s)
        PROVE  /\ c2s'[s] = Tail(c2s[s]) /\ Len(c2s[s]) >= 1 /\ Len(c2s'[s]) = Len(c2s[s]) - 1
               /\ Head(c2s[s]) = c2s[s][1] /\ \A t \in Sessions \ {s} : c2s'[t] = c2s[t]
    BY <1>1, <1>6 DEF PopServer, TypeOK
  \* It sends p.
  <1>7. ASSUME NEW p, ToClient(s, p)
        PROVE  /\ \A t \in Sessions \ {s} : s2c'[t] = s2c[t]
               /\ link[s] = "up" /\ Len(s2c[s]) = 0 => Len(s2c'[s]) = 1 /\ s2c'[s][1] = p
    <2>1. CASE link[s] = "up"
      <3>1. s2c'[s] = Append(s2c[s], p) /\ \A t \in Sessions \ {s} : s2c'[t] = s2c[t]
        BY <1>1, <1>7, <2>1 DEF ToClient, TypeOK
      <3>2. Len(s2c[s]) = 0 => Len(Append(s2c[s], p)) = 1 /\ Append(s2c[s], p)[1] = p  BY <1>1
      <3> QED  BY <3>1, <3>2
    <2>2. CASE link[s] # "up"  BY <1>7, <2>2 DEF ToClient
    <2> QED  BY <2>1, <2>2
  <1>8. CASE RecvPutsReq(s)
    <2>1. /\ spc[s] = "idle" /\ spc'[s] = "stat" /\ c2s[s] # <<>> /\ PopServer(s)
          /\ total'[s] = Head(c2s[s]).size
          /\ UNCHANGED <<file, link, s2c, cpc, source, cpos, woff, shouldClose, abandoned>>
      BY <1>1, <1>8 DEF RecvPutsReq, ServerGets, TypeOK, clientVars, bounds
    <2>2. Len(c2s[s]) = 1 /\ Len(c2s'[s]) = 0
      <3>1. Len(c2s[s]) <= 1  BY <1>1, <2>1 DEF Queued
      <3>2. Len(c2s[s]) >= 1 /\ Len(c2s'[s]) = Len(c2s[s]) - 1  BY <1>6, <2>1
      <3>3. \A n \in Nat : n <= 1 /\ n >= 1 => n = 1 /\ n - 1 = 0  OBVIOUS
      <3>4. Len(c2s[s]) = 1  BY <1>1, <3>1, <3>2, <3>3
      <3> QED  BY <1>1, <3>1, <3>2, <3>4
    <2>3. \A t \in Sessions \ {s} : Same(t)  BY <1>1, <1>6, <1>8, <2>1 DEF RecvPutsReq, Same, TypeOK
    <2>4. Queued(s)'  BY <2>1, <2>2 DEF Queued
    <2>5. ASSUME link[s] = "up" PROVE Phase(s)'
      <3>1. cpc[s] = "waitResp"
        BY <1>1, <2>1, <2>2, <2>5 DEF Phase, IdlePhase, SendPhase, ReplyPhase, Receives, Closes, TypeOK, ClientPcs
      <3>2. Len(s2c[s]) = 0 /\ c2s[s][1] = [type |-> "PUTS_REQ", size |-> Size[source[s]]]
        BY <1>1, <2>1, <2>5, <3>1 DEF Phase, RespPhase, Receives, Closes
      <3>3. total'[s] = Size[source[s]]  BY <1>6, <2>1, <3>2
      <3>4. RespPhase(s)'  BY <2>1, <3>2, <3>3 DEF RespPhase
      <3> QED  BY <2>1, <3>1, <3>4 DEF Phase
    <2> QED  BY <1>2, <1>4, <2>1, <2>3, <2>4, <2>5
  <1>9. CASE RecvUnknown(s)
    <2>1. /\ spc[s] = "idle" /\ spc'[s] = "error" /\ c2s[s] # <<>> /\ PopServer(s)
          /\ Head(c2s[s]).type # "PUTS_REQ" /\ UNCHANGED <<file, link, abandoned>>
      BY <1>1, <1>9 DEF RecvUnknown, ServerGets, TypeOK, bounds
    <2>2. Len(c2s[s]) = 1 /\ Len(c2s'[s]) = 0
      <3>1. Len(c2s[s]) <= 1  BY <1>1, <2>1 DEF Queued
      <3>2. Len(c2s[s]) >= 1 /\ Len(c2s'[s]) = Len(c2s[s]) - 1  BY <1>6, <2>1
      <3>3. \A n \in Nat : n <= 1 /\ n >= 1 => n = 1 /\ n - 1 = 0  OBVIOUS
      <3>4. Len(c2s[s]) = 1  BY <1>1, <3>1, <3>2, <3>3
      <3> QED  BY <1>1, <3>1, <3>2, <3>4
    <2>3. \A t \in Sessions \ {s} : Same(t)
      BY <1>1, <1>6, <1>9, <2>1 DEF RecvUnknown, Same, TypeOK, clientVars
    <2>4. Queued(s)'  BY <2>1, <2>2 DEF Queued
    <2>5. link[s] # "up"
      <3>1. ASSUME link[s] = "up" PROVE cpc[s] = "waitResp"
        BY <1>1, <2>1, <2>2, <3>1 DEF Phase, IdlePhase, SendPhase, ReplyPhase, Receives, Closes, TypeOK, ClientPcs
      <3>2. c2s[s][1].type # "PUTS_REQ"  BY <1>6, <2>1
      <3> QED  BY <1>1, <2>1, <3>1, <3>2 DEF Phase, RespPhase, Receives, Closes
    <2> QED  BY <1>2, <1>4, <2>1, <2>3, <2>4, <2>5
  <1>9a. CASE RefusePuts(s)
    <2>1. /\ spc[s] = "idle" /\ spc'[s] = "error" /\ c2s[s] # <<>> /\ PopServer(s)
          /\ Head(c2s[s]).type = "PUTS_REQ"
          /\ UNCHANGED <<file, link, s2c, cpc, source, cpos, total, woff, shouldClose, abandoned>>
      BY <1>1, <1>9a DEF RefusePuts, ServerGets, TypeOK, clientVars, bounds
    <2>2. Len(c2s[s]) = 1 /\ Len(c2s'[s]) = 0
      <3>1. Len(c2s[s]) <= 1  BY <1>1, <2>1 DEF Queued
      <3>2. Len(c2s[s]) >= 1 /\ Len(c2s'[s]) = Len(c2s[s]) - 1  BY <1>6, <2>1
      <3>3. \A n \in Nat : n <= 1 /\ n >= 1 => n = 1 /\ n - 1 = 0  OBVIOUS
      <3>4. Len(c2s[s]) = 1  BY <1>1, <3>1, <3>2, <3>3
      <3> QED  BY <1>1, <3>1, <3>2, <3>4
    <2>3. \A t \in Sessions \ {s} : Same(t)  BY <1>1, <1>6, <1>9a, <2>1 DEF RefusePuts, Same, TypeOK
    <2>4. Queued(s)'  BY <2>1, <2>2 DEF Queued
    <2>5. ASSUME link[s] = "up" PROVE Phase(s)'
      <3>1. cpc[s] = "waitResp"
        BY <1>1, <2>1, <2>2, <2>5 DEF Phase, IdlePhase, SendPhase, ReplyPhase, Receives, Closes, TypeOK, ClientPcs
      <3>2. Len(s2c[s]) = 0
        BY <1>1, <2>1, <2>2, <2>5, <3>1 DEF Phase, RespPhase, Receives, Closes
      <3>3. RespPhase(s)'  BY <2>1, <2>2, <3>2 DEF RespPhase
      <3> QED  BY <2>1, <3>1, <3>3 DEF Phase
    <2> QED  BY <1>2, <1>4, <2>1, <2>3, <2>4, <2>5
  <1>10. CASE SessionEnds(s) \/ SendFails(s)
    BY <1>5, <1>10 DEF SessionEnds, SendFails, netVars
  <1>11. CASE StatResumePoint(s) \/ StatFails(s) \/ ResetLarger(s) \/ ResetFails(s)
    <2>1. /\ spc[s] \in {"stat", "reset"} /\ spc'[s] \in {"reset", "respond", "error"}
          /\ UNCHANGED <<link, c2s, s2c, cpc, source, cpos, total, shouldClose, abandoned>>
      <3>1. CASE StatResumePoint(s)
        BY <1>1, <3>1 DEF StatResumePoint, TypeOK, netVars, clientVars, bounds
      <3>2. CASE StatFails(s)
        BY <1>1, <3>2 DEF StatFails, TypeOK, netVars, clientVars, bounds
      <3>3. CASE ResetLarger(s)
        BY <1>1, <3>3 DEF ResetLarger, TypeOK, netVars, clientVars, bounds
      <3>4. CASE ResetFails(s)
        BY <1>1, <3>4 DEF ResetFails, TypeOK, netVars, clientVars, bounds
      <3> QED  BY <1>11, <3>1, <3>2, <3>3, <3>4
    <2>2. \A t \in Sessions \ {s} : Same(t)
      BY <1>1, <1>11, <2>1 DEF StatResumePoint, StatFails, ResetLarger, ResetFails, Same, TypeOK
    <2>3. BlocksInPlace'
      <3>1. CASE StatResumePoint(s) \/ StatFails(s) \/ ResetFails(s)
        BY <1>2, <2>1, <3>1 DEF StatResumePoint, StatFails, ResetFails
      <3>2. CASE ResetLarger(s)
        <4>1. Len(file') = 0  BY <3>2 DEF ResetLarger
        <4> QED  BY <4>1 DEF BlocksInPlace
      <3> QED  BY <1>11, <3>1, <3>2
    <2>4. Len(c2s[s]) = 0 /\ Queued(s)'  BY <1>1, <2>1 DEF Queued
    <2>5. ASSUME link[s] = "up" PROVE Phase(s)'
      <3>1. cpc[s] = "waitResp"
        BY <1>1, <2>1, <2>5 DEF Phase, IdlePhase, SendPhase, ReplyPhase, Receives, Closes, TypeOK, ClientPcs
      <3>2. Len(s2c[s]) = 0 /\ total[s] = Size[source[s]]
        BY <1>1, <2>1, <2>5, <3>1 DEF Phase, RespPhase, Receives, Closes
      <3>3. RespPhase(s)'  BY <2>1, <2>4, <3>2 DEF RespPhase
      <3> QED  BY <2>1, <3>1, <3>3 DEF Phase
    <2> QED  BY <1>4, <2>1, <2>2, <2>3, <2>4, <2>5
  <1>12. CASE SendPutsResp(s)
    <2>1. PICK p : p = [type |-> "PUTS_RESP", offset |-> woff[s]]  OBVIOUS
    <2>2. /\ spc[s] = "respond" /\ spc'[s] \in {"extend", "recv"} /\ ToClient(s, p)
          /\ UNCHANGED <<file, link, c2s, cpc, source, cpos, total, woff, shouldClose, abandoned>>
      BY <1>1, <1>12, <2>1 DEF SendPutsResp, TypeOK, clientVars, bounds
    <2>3. \A t \in Sessions \ {s} : Same(t)  BY <1>1, <1>7, <1>12, <2>2 DEF SendPutsResp, Same, TypeOK
    <2>4. Len(c2s[s]) = 0  BY <1>1, <2>2 DEF Queued
    <2>5. Queued(s)'
      <3>1. Ordered(c2s[s]) /\ Placed(c2s[s], woff[s])  BY <2>4 DEF Ordered, Placed
      <3> QED  BY <2>2, <3>1 DEF Queued
    <2>6. ASSUME link[s] = "up" PROVE Phase(s)'
      <3>1. cpc[s] = "waitResp"
        BY <1>1, <2>2, <2>6 DEF Phase, IdlePhase, SendPhase, ReplyPhase, Receives, Closes, TypeOK, ClientPcs
      <3>2. Len(s2c[s]) = 0 /\ total[s] = Size[source[s]]
        BY <1>1, <2>2, <2>6, <3>1 DEF Phase, RespPhase, Receives, Closes
      <3>3. Len(s2c'[s]) = 1 /\ s2c'[s][1] = p  BY <1>7, <2>2, <2>6, <3>2
      <3>4. RespPhase(s)'  BY <2>1, <2>2, <2>4, <3>2, <3>3 DEF RespPhase
      <3> QED  BY <2>2, <3>1, <3>4 DEF Phase
    <2> QED  BY <1>2, <1>4, <2>2, <2>3, <2>5, <2>6
  <1>13. CASE Extend(s)
    <2>1. /\ spc[s] = "extend" /\ spc'[s] = "recv" /\ file' = Resize(file, total[s])
          /\ UNCHANGED <<link, c2s, s2c, cpc, source, cpos, total, woff, shouldClose>>
      BY <1>1, <1>13 DEF Extend, TypeOK, netVars, clientVars
    <2>2. \A t \in Sessions \ {s} : Same(t)  BY <1>1, <1>13, <2>1 DEF Extend, Same, TypeOK
    <2>3. BlocksInPlace'  BY <1>1, <1>3, <2>1
    <2>4. Queued(s)'  BY <1>1, <2>1 DEF Queued
    <2>5. ASSUME link[s] = "up" PROVE Phase(s)'
      <3>1. Phase(s)  BY <1>1
      <3>2. IdlePhase(s) => IdlePhase(s)'  BY <2>1 DEF IdlePhase, Receives, Closes
      <3>3. RespPhase(s) => RespPhase(s)'  BY <2>1 DEF RespPhase, Receives, Closes
      <3>4. SendPhase(s) => SendPhase(s)'  BY <2>1 DEF SendPhase, Receives, Closes
      <3>5. ReplyPhase(s) => ReplyPhase(s)'  BY <2>1 DEF ReplyPhase, Receives
      <3> QED  BY <2>1, <2>5, <3>1, <3>2, <3>3, <3>4, <3>5 DEF Phase
    <2> QED  BY <1>4, <2>1, <2>2, <2>3, <2>4, <2>5
  <1>14. CASE ExtendFails(s) \/ MmapFails(s)
    <2>1. abandoned'  BY <1>14 DEF ExtendFails, MmapFails
    <2> QED  BY <2>1
  <1>15. CASE RecvFileData(s)
    <2>1. /\ spc[s] = "recv" /\ c2s[s] # <<>> /\ PopServer(s) /\ Head(c2s[s]).type = "FILE_DATA"
          /\ woff[s] + 1 <= Len(file) /\ file' = [file EXCEPT ![woff[s] + 1] = Head(c2s[s]).block]
          /\ woff'[s] = woff[s] + 1
          /\ UNCHANGED <<link, s2c, cpc, source, cpos, spc, total, shouldClose, abandoned>>
      BY <1>1, <1>15 DEF RecvFileData, ServerGets, TypeOK, clientVars, bounds
    <2>2. \A t \in Sessions \ {s} : Same(t)
      BY <1>1, <1>6, <1>15, <2>1 DEF RecvFileData, Same, TypeOK
    <2>3. Ordered(c2s[s]) /\ Placed(c2s[s], woff[s])  BY <1>1, <2>1 DEF Queued
    <2>4. /\ Ordered(c2s'[s]) /\ Head(c2s[s]).block[2] = woff[s] + 1 /\ Placed(c2s'[s], woff'[s])
          /\ Data(c2s[s]) => Data(c2s'[s])
          /\ \A type : type # "FILE_DATA" /\ DataThen(c2s[s], type) => DataThen(c2s'[s], type)
      BY <1>1, <1>6, <2>1, <2>3, PlacedTail
    <2>5. BlocksInPlace'
      <3>1. PICK b : b = Head(c2s[s]).block  OBVIOUS
      <3>2. b[2] = woff[s] + 1 /\ file' = [file EXCEPT ![woff[s] + 1] = b]  BY <2>1, <2>4, <3>1
      <3>3. Len(file') = Len(file) /\ \A i \in 1..Len(file) : file'[i] = IF i = woff[s] + 1 THEN b ELSE file[i]
        BY <1>1, <2>1, <3>2
      <3>4. ASSUME NEW i \in 1..Len(file), file'[i] # Hole PROVE file'[i][2] = i
        <4>1. CASE i = woff[s] + 1  BY <3>2, <3>3, <4>1
        <4>2. CASE i # woff[s] + 1  BY <1>1, <3>3, <3>4, <4>2 DEF BlocksInPlace
        <4> QED  BY <4>1, <4>2
      <3> QED  BY <3>3, <3>4 DEF BlocksInPlace
    <2>6. Queued(s)'  BY <2>1, <2>4 DEF Queued
    <2>7. ASSUME link[s] = "up" PROVE Phase(s)'
      <3>1. Phase(s) /\ Len(c2s[s]) # 0 /\ Len(c2s'[s]) = Len(c2s[s]) - 1  BY <1>1, <1>6, <2>1
      <3>2. IdlePhase(s) => IdlePhase(s)'  BY <2>1, <2>4 DEF IdlePhase, Receives, Closes
      <3>3. RespPhase(s) => RespPhase(s)'  BY <2>1, <2>4, <3>1 DEF RespPhase, Receives, Closes
      <3>4. SendPhase(s) => SendPhase(s)'
        <4>1. woff[s] \in Nat /\ Len(c2s[s]) \in Nat /\ woff'[s] = woff[s] + 1 /\ Len(c2s'[s]) = Len(c2s[s]) - 1
          BY <1>1, <2>1, <3>1
        <4>2. woff[s] + Len(c2s[s]) = woff'[s] + Len(c2s'[s])  BY <4>1
        <4> QED  BY <2>1, <2>4, <4>2 DEF SendPhase, Receives, Closes
      <3>5. ReplyPhase(s) => ReplyPhase(s)'  BY <2>1, <2>4 DEF ReplyPhase, Receives
      <3> QED  BY <2>1, <2>7, <3>1, <3>2, <3>3, <3>4, <3>5 DEF Phase
    <2> QED  BY <1>4, <2>1, <2>2, <2>5, <2>6, <2>7
  <1>16. CASE RecvFileEnd(s)
    <2>1. /\ spc[s] = "recv" /\ c2s[s] # <<>> /\ PopServer(s) /\ Head(c2s[s]).type = "FILE_END"
          /\ spc'[s] \in {"ack", "truncate"}
          /\ UNCHANGED <<file, link, s2c, cpc, source, cpos, total, woff, shouldClose, abandoned>>
      BY <1>1, <1>16 DEF RecvFileEnd, ServerGets, TypeOK, clientVars, bounds
    <2>2. \A t \in Sessions \ {s} : Same(t)
      BY <1>1, <1>6, <1>16, <2>1 DEF RecvFileEnd, Same, TypeOK
    <2>3. Len(c2s[s]) = 1 /\ Len(c2s'[s]) = 0
      <3>1. Ordered(c2s[s])  BY <1>1, <2>1 DEF Queued
      <3>2. Len(c2s[s]) = 1  BY <1>1, <2>1, <3>1, PlacedTail
      <3>3. Len(c2s'[s]) = Len(c2s[s]) - 1  BY <1>6, <2>1
      <3> QED  BY <3>2, <3>3
    <2>4. Queued(s)'  BY <2>1, <2>3 DEF Queued
    <2>5. ASSUME link[s] = "up" PROVE Phase(s)'
      <3>1. ~Data(c2s[s]) /\ ~DataThen(c2s[s], "PUTS_REQ")  BY <1>1, <2>1, PlacedTail
      <3>2. cpc[s] = "waitReply"
        BY <1>1, <2>1, <2>3, <2>5, <3>1
           DEF Phase, IdlePhase, RespPhase, SendPhase, Receives, Closes, TypeOK, ClientPcs
      <3>3. ReplyPhase(s)'  BY <1>1, <2>1, <2>5, <3>2 DEF Phase, ReplyPhase, Receives
      <3> QED  BY <2>1, <3>2, <3>3 DEF Phase
    <2> QED  BY <1>2, <1>4, <2>1, <2>2, <2>4, <2>5
  <1>17. CASE RecvOutOfPlace(s)
    <2>1. /\ spc[s] = "recv" /\ c2s[s] # <<>> /\ PopServer(s)
          /\ spc'[s] = "truncate" /\ shouldClose'[s]
          /\ UNCHANGED <<file, link, s2c, cpc, source, cpos, total, woff, abandoned>>
      <3>1. spc[s] = "recv" /\ c2s[s] # <<>> /\ PopServer(s)  BY <1>17 DEF RecvOutOfPlace
      <3>2. spc'[s] = "truncate"  BY <1>1, <1>17 DEF RecvOutOfPlace, TypeOK
      <3>3. shouldClose'[s]  BY <1>1, <1>17 DEF RecvOutOfPlace, TypeOK
      <3> QED  BY <1>17, <3>1, <3>2, <3>3 DEF RecvOutOfPlace, clientVars, bounds
    <2>2. \A t \in Sessions \ {s} : Same(t)
      BY <1>1, <1>6, <1>17, <2>1 DEF RecvOutOfPlace, Same, TypeOK
    <2>3. Queued(s)'  BY <2>1 DEF Queued
    <2>4. ASSUME link[s] = "up" PROVE Phase(s)'
      <3>1. Phase(s) /\ Len(c2s[s]) # 0  BY <1>1, <1>6, <2>1
      <3>2. IdlePhase(s) => IdlePhase(s)'  BY <2>1 DEF IdlePhase, Receives, Closes
      <3>3. RespPhase(s) => RespPhase(s)'  BY <2>1, <3>1 DEF RespPhase, Receives, Closes
      <3>4. SendPhase(s) => SendPhase(s)'  BY <2>1 DEF SendPhase, Receives, Closes
      <3>5. ReplyPhase(s) => ReplyPhase(s)'  BY <2>1 DEF ReplyPhase, Receives
      <3> QED  BY <2>1, <2>4, <3>1, <3>2, <3>3, <3>4, <3>5 DEF Phase
    <2> QED  BY <1>2, <1>4, <2>1, <2>2, <2>3, <2>4
  <1>18. CASE RecvFails(s)
    <2>1. /\ link[s] # "up" /\ spc'[s] = "truncate"
          /\ UNCHANGED <<file, link, c2s, s2c, cpc, source, cpos, total, woff, abandoned>>
      BY <1>1, <1>18 DEF RecvFails, TypeOK, netVars, clientVars, bounds
    <2>2. shouldClose'[s]  BY <1>1, <1>18 DEF RecvFails, TypeOK
    <2>3. \A t \in Sessions \ {s} : Same(t)  BY <1>1, <1>18, <2>1 DEF RecvFails, Same, TypeOK
    <2>4. Queued(s)'  BY <2>1, <2>2 DEF Queued
    <2> QED  BY <1>2, <1>4, <2>1, <2>3, <2>4
  <1>19. CASE TruncateToReceived(s) \/ TruncateFails(s)
    <2>1. /\ spc[s] = "truncate" /\ spc'[s] = "error"
          /\ file' = Resize(file, woff[s]) \/ UNCHANGED <<file, abandoned>>
          /\ UNCHANGED <<link, c2s, s2c, cpc, source, cpos, total, woff, shouldClose>>
      BY <1>1, <1>19 DEF TruncateToReceived, TruncateFails, TypeOK, netVars, clientVars, bounds
    <2>2. \A t \in Sessions \ {s} : Same(t)
      BY <1>1, <1>19, <2>1 DEF TruncateToReceived, TruncateFails, Same, TypeOK
    <2>3. BlocksInPlace'  BY <1>1, <1>2, <1>3, <2>1
    <2>4. Queued(s)'  BY <1>1, <2>1 DEF Queued
    <2>5. ASSUME link[s] = "up" PROVE Phase(s)'
      <3>1. Phase(s)  BY <1>1
      <3>2. IdlePhase(s) => IdlePhase(s)'  BY <2>1 DEF IdlePhase, Receives, Closes
      <3>3. RespPhase(s) => RespPhase(s)'  BY <2>1 DEF RespPhase, Receives, Closes
      <3>4. SendPhase(s) => SendPhase(s)'  BY <2>1 DEF SendPhase, Receives, Closes
      <3>5. ReplyPhase(s) => ReplyPhase(s)'  BY <2>1 DEF ReplyPhase, Receives
      <3> QED  BY <2>1, <2>5, <3>1, <3>2, <3>3, <3>4, <3>5 DEF Phase
    <2> QED  BY <1>4, <2>1, <2>2, <2>3, <2>4, <2>5
  \* ACK, or ERROR to a client whose session goes on.
  <1>20. ASSUME NEW p, ToClient(s, p), spc' = [spc EXCEPT ![s] = "idle"], Len(c2s[s]) = 0,
                spc[s] = "ack" \/ (spc[s] = "error" /\ p = [type |-> "ERROR"]), ~Closes(s),
                UNCHANGED <<file, link, c2s, clientVars, total, woff, shouldClose, bounds>>
         PROVE  Placing'
    <2>1. spc'[s] = "idle" /\ UNCHANGED <<cpc, abandoned>>  BY <1>1, <1>20 DEF TypeOK, clientVars, bounds
    <2>2. \A t \in Sessions \ {s} : Same(t)  BY <1>1, <1>7, <1>20 DEF Same, TypeOK, clientVars
    <2>3. Queued(s)'  BY <1>20, <2>1 DEF Queued
    <2>4. ASSUME link[s] = "up" PROVE Phase(s)'
      <3>1. cpc[s] = "waitReply" \/ (cpc[s] = "waitResp" /\ spc[s] = "error")
        BY <1>1, <1>20, <2>4 DEF Phase, IdlePhase, RespPhase, SendPhase, Receives, TypeOK, ClientPcs
      <3>2. Len(s2c[s]) = 0
        BY <1>1, <1>20, <2>4, <3>1 DEF Phase, RespPhase, ReplyPhase, Receives
      <3>3. Len(s2c'[s]) = 1 /\ s2c'[s][1] = p  BY <1>7, <1>20, <2>4, <3>2
      <3>4. ReplyPhase(s)' /\ (spc[s] = "error" => RespPhase(s)')
        BY <1>20, <2>1, <3>3 DEF ReplyPhase, RespPhase
      <3> QED  BY <2>1, <3>1, <3>4 DEF Phase
    <2> QED  BY <1>2, <1>4, <1>20, <2>1, <2>2, <2>3, <2>4
  <1>21. CASE SendAck(s)
    <2>1. spc[s] = "ack" /\ Len(c2s[s]) = 0 /\ ~Closes(s)  BY <1>1, <1>21 DEF SendAck, Queued, Closes
    <2> QED  BY <1>20, <1>21, <2>1 DEF SendAck
  <1>22. CASE SendError(s)
    <2>1. PICK p : p = [type |-> "ERROR"]  OBVIOUS
    <2>2. /\ spc[s] = "error" /\ ToClient(s, p)
          /\ UNCHANGED <<file, link, c2s, clientVars, total, woff, shouldClose, bounds>>
      BY <1>22, <2>1 DEF SendError
    <2>3. CASE EndRequest(s)  BY <1>5, <1>7, <2>2, <2>3
    <2>4. CASE ~shouldClose[s] /\ spc' = [spc EXCEPT ![s] = "idle"]
      <3>1. Len(c2s[s]) = 0 /\ ~Closes(s)  BY <1>1, <2>2, <2>4 DEF Queued, Closes
      <3> QED  BY <1>20, <2>1, <2>2, <2>4, <3>1
    <2> QED  BY <1>22, <2>3, <2>4 DEF SendError
  <1>23. CASE Sigbus(s)
    <2>1. ServerDies  BY <1>23 DEF Sigbus
    <2> QED  BY <2>1, DeathPlaces
  <1> QED
    BY <1>5a, <1>8, <1>9, <1>9a, <1>10, <1>11, <1>12, <1>13, <1>14, <1>15, <1>16, <1>17, <1>18, <1>19,
       <1>21, <1>22, <1>23 DEF Worker

LEMMA NextPlace == PlaceInv /\ [Next]_vars => PlaceInv'
  <1> SUFFICES ASSUME PlaceInv, [Next]_vars PROVE PlaceInv'  OBVIOUS
  <1>1. Typing /\ Typing'  BY NextTyping DEF PlaceInv
  <1>2. CASE UNCHANGED vars
    <2>1. PlaceInv' <=> PlaceInv
      BY <1>2 DEF vars, netVars, clientVars, serverVars, bounds, counters, PlaceInv, Typing, TypeOK, Sized,
                  Placing, BlocksInPlace, Queued, Phase, IdlePhase, RespPhase, SendPhase, ReplyPhase,
                  Receives, Closes
    <2> QED  BY <2>1
  <1>3. CASE abandoned
    <2>1. CASE abandoned' = abandoned  BY <1>1, <1>3, <2>1 DEF PlaceInv
    <2>2. CASE abandoned'  BY <1>1, <2>2 DEF PlaceInv
    <2>3. abandoned' = abandoned \/ abandoned'
      BY <1>1, <1>2, AbandonedHistory
    <2> QED  BY <2>1, <2>2, <2>3
  <1>4. CASE ~abandoned
    <2>1. Placing  BY <1>4 DEF PlaceInv
    <2>2. ASSUME NEW s \in Sessions, ClientStep(s) \/ User(s) \/ LinkBreaks(s) PROVE PlaceInv'
      BY <1>1, <2>1, <2>2, ClientPlaces DEF PlaceInv
    <2>3. ASSUME NEW s \in Sessions, Worker(s) PROVE PlaceInv'
      BY <1>1, <1>4, <2>1, <2>3, WorkerPlaces DEF PlaceInv
    <2>4. CASE ServerCrash
      <3>1. Placing'  BY <2>1, <2>4, DeathPlaces DEF ServerCrash
      <3> QED  BY <1>1, <3>1 DEF PlaceInv
    <2> QED  BY <1>2, <2>2, <2>3, <2>4 DEF Next
  <1> QED  BY <1>3, <1>4

\* Every block lies where it lay in the local file, until a worker leaves a client that has
\* its PUTS_RESP: resumes, broken connections, crashes, overlapping uploads, SIGBUS and
\* failing calls of fstat and ftruncate before and after that included.
THEOREM StaysInPlace == Spec => []BlocksInPlace
  <1>1. PlaceInv => BlocksInPlace  BY DEF PlaceInv, Placing, BlocksInPlace
  <1> QED  BY <1>1, InitPlace, NextPlace, PTL DEF Spec
================================================================================
