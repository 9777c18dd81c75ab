----------------------------- MODULE SessionProofs -----------------------------
(***************************************************************************)
(* The safety properties of Session, for files of any size and any number  *)
(* of commands.                                                            *)
(***************************************************************************)
EXTENDS Session, TLAPS

(* Types. *)

\* A command that is being run has a number, so its packets have one.
Numbered == /\ cpc \notin {"prompt", "exited"} => cmd >= 1
            /\ spc \notin {"request", "gone"} => serves >= 1

\* Who finds garbage has not begun to send or to receive a file.
Garbage == garbled => strayed /\ cpc \notin {"putsSend", "putsReply", "getsRecv"}

Typing == TypeOK /\ Numbered /\ Garbage

LEMMA SentType ==
    ASSUME NEW T, NEW queue \in Seq(Packets(T)), NEW type \in T,
           NEW n \in 1..MaxCommands, NEW number \in 0..MaxBlocks
    PROVE  Sent(queue, type, n, number) \in Seq(Packets(T))
  <1>1. [type |-> type, n |-> n, number |-> number] \in Packets(T)  BY DEF Packets
  <1> QED  BY <1>1 DEF Sent

\* The first packet of a queue, and the queue without it.
LEMMA TakeType ==
    ASSUME NEW T, NEW queue \in Seq(Packets(T)), queue # <<>>
    PROVE  /\ Head(queue) = queue[1]
           /\ Head(queue).type \in T /\ Head(queue).n \in 1..MaxCommands
           /\ Head(queue).number \in 0..MaxBlocks
           /\ Tail(queue) \in Seq(Packets(T))
           /\ Len(Tail(queue)) = Len(queue) - 1
           /\ \A i \in 1..(Len(queue) - 1) : Tail(queue)[i] = queue[i + 1]
  <1>1. Head(queue) \in Packets(T)  OBVIOUS
  <1>2. /\ Head(queue).type \in T /\ Head(queue).n \in 1..MaxCommands
        /\ Head(queue).number \in 0..MaxBlocks
    BY <1>1 DEF Packets
  <1> QED  BY <1>2

LEMMA TypingInit == Init => Typing
  <1> SUFFICES ASSUME Init PROVE Typing  OBVIOUS
  <1>1. c2s \in Seq(Packets(FromClient))  BY DEF Init
  <1>2. s2c \in Seq(Packets(FromServer))  BY DEF Init
  <1>3. Numbered /\ Garbage  BY DEF Init, Numbered, Garbage
  <1>4. TypeOK
    <2>0. /\ link = "up" /\ cpc = "prompt" /\ cmd = 0 /\ left = 0
          /\ spc = "request" /\ serves = 0 /\ sleft = 0
      BY DEF Init
    <2>1. strayed \in BOOLEAN /\ garbled \in BOOLEAN  BY DEF Init
    <2>2. /\ link \in {"up", "broken"}
          /\ cpc \in ClientPcs /\ cmd \in 0..MaxCommands /\ left \in 0..MaxBlocks
          /\ spc \in ServerPcs /\ serves \in 0..MaxCommands /\ sleft \in 0..MaxBlocks
      BY <2>0, SessionAssumption DEF ClientPcs, ServerPcs
    <2> QED  BY <1>1, <1>2, <2>1, <2>2 DEF TypeOK
  <1> QED  BY <1>3, <1>4 DEF Typing

\* A step of the client.
LEMMA TypingClient ==
    ASSUME Typing, User \/ ClientStep \/ RecvGarbage
    PROVE  (TypeOK /\ Numbered)'
  <1> USE SessionAssumption DEF Typing, TypeOK, Numbered, ClientPcs, serverVars, clientVars
  <1>1. /\ \A type \in FromClient, number \in 0..MaxBlocks :
              cpc \notin {"prompt", "exited"} => Sent(c2s, type, cmd, number) \in Seq(Packets(FromClient))
        /\ cmd < MaxCommands => \A type \in FromClient, number \in 0..MaxBlocks :
              Sent(c2s, type, cmd + 1, number) \in Seq(Packets(FromClient))
    BY SentType
  <1>2. {"SIMPLE", "PUTS_REQ", "GETS_REQ", "RESUME_POS", "FILE_DATA", "FILE_END"} \subseteq FromClient
    BY DEF FromClient, Requests
  <1>3. s2c # <<>> => /\ Tail(s2c) \in Seq(Packets(FromServer))
                      /\ Head(s2c).number \in 0..MaxBlocks
    BY TakeType
  <1>4. CASE GiveSimple  BY <1>1, <1>2, <1>4 DEF GiveSimple, Request
  <1>5. ASSUME NEW size \in 0..MaxBlocks, GivePuts(size) PROVE (TypeOK /\ Numbered)'
    BY <1>1, <1>2, <1>5 DEF GivePuts, Request
  <1>6. CASE GiveGets  BY <1>1, <1>2, <1>6 DEF GiveGets, Request
  <1>7. CASE Exit  BY <1>7 DEF Exit
  <1>8. CASE RecvText \/ RecvRefusal \/ LocalOpenFails \/ RecvFileData \/ LocalWriteFails \/ RecvEnd
    BY <1>3, <1>8 DEF RecvText, RecvRefusal, LocalOpenFails, RecvFileData, LocalWriteFails, RecvEnd, Takes
  <1>9. CASE RecvPutsResp  BY <1>3, <1>9 DEF RecvPutsResp, Takes
  <1>10. ASSUME NEW excess \in {0, 1}, SendFileData(excess) PROVE (TypeOK /\ Numbered)'
    <2>1. excess \in 0..MaxBlocks  BY <1>10 DEF SendFileData
    <2> QED  BY <1>1, <1>2, <1>10, <2>1 DEF SendFileData, ToServer
  <1>11. CASE SendFileEnd  BY <1>1, <1>2, <1>11 DEF SendFileEnd, ToServer
  <1>12. CASE LocalReadFails \/ ClientIoFails  BY <1>12 DEF LocalReadFails, ClientIoFails
  <1>13. ASSUME NEW offset \in 0..MaxBlocks, RecvGetsResp(offset) PROVE (TypeOK /\ Numbered)'
    BY <1>1, <1>2, <1>3, <1>13 DEF RecvGetsResp, ToServer, Takes
  <1>14. CASE ClientCallocFails  BY <1>3, <1>14 DEF ClientCallocFails
  <1>15. CASE RecvGarbage  BY <1>3, <1>15 DEF RecvGarbage
  <1> QED
    BY <1>4, <1>5, <1>6, <1>7, <1>8, <1>9, <1>10, <1>11, <1>12, <1>13, <1>14, <1>15 DEF User, ClientStep

\* A step of the worker.
LEMMA TypingWorker ==
    ASSUME Typing, Worker
    PROVE  (TypeOK /\ Numbered)'
  <1> USE SessionAssumption DEF Typing, TypeOK, Numbered, ServerPcs, serverVars, clientVars
  <1>1. /\ \A type \in FromServer, number \in 0..MaxBlocks :
              spc \notin {"request", "gone"} => Sent(s2c, type, serves, number) \in Seq(Packets(FromServer))
        /\ \A type \in FromServer, number \in 0..MaxBlocks :
              c2s # <<>> => Sent(s2c, type, Head(c2s).n, number) \in Seq(Packets(FromServer))
    BY SentType, TakeType
  <1>2. {"ACK", "ERROR", "PUTS_RESP", "GETS_RESP", "FILE_DATA", "FILE_END"} \subseteq FromServer
    BY DEF FromServer
  <1>3. c2s # <<>> => /\ Tail(c2s) \in Seq(Packets(FromClient))
                      /\ Head(c2s).number \in 0..MaxBlocks
                      /\ Head(c2s).n \in 1..MaxCommands
    BY TakeType
  <1>4. <<>> \in Seq(Packets(FromClient))  OBVIOUS
  <1>5. CASE Simple  BY <1>1, <1>2, <1>3, <1>5 DEF Simple, Dispatch, Answers, ServerGets
  <1>6. CASE Refuse
    <2>1. spc = "request" /\ c2s # <<>> /\ c2s' = Tail(c2s) /\ serves' = Head(c2s).n
      BY <1>6 DEF Refuse, Dispatch, ServerGets
    <2>2. s2c' = Sent(s2c, "ERROR", Head(c2s).n, 0)  BY <1>6 DEF Refuse, Answers
    <2>3. s2c' \in Seq(Packets(FromServer))  BY <1>1, <1>2, <2>1, <2>2
    <2>4. UNCHANGED <<link, clientVars, strayed, spc, sleft>>  BY <1>6 DEF Refuse, Dispatch
    <2> QED  BY <1>3, <2>1, <2>3, <2>4
  <1>7. CASE Unknown  BY <1>1, <1>2, <1>3, <1>4, <1>7 DEF Unknown, Answers, Close
  <1>8. CASE OpenForPuts  BY <1>3, <1>8 DEF OpenForPuts, Dispatch, ServerGets
  <1>9. ASSUME NEW k \in 0..MaxBlocks, SendPutsResp(k) PROVE (TypeOK /\ Numbered)'
    BY <1>1, <1>2, <1>9 DEF SendPutsResp, ToClient
  <1>10. CASE MapFile  BY <1>10 DEF MapFile
  <1>11. CASE MapFails  BY <1>1, <1>2, <1>11 DEF MapFails, ToClient
  <1>12. CASE StoreBlock  BY <1>3, <1>12 DEF StoreBlock, Fits, ServerGets
  <1>13. CASE EndPuts
    <2>1. (IF sleft = 0 THEN "ACK" ELSE "ERROR") \in FromServer  BY <1>2
    <2>2. Sent(s2c, IF sleft = 0 THEN "ACK" ELSE "ERROR", serves, 0) \in Seq(Packets(FromServer))
      BY <1>1, <1>13, <2>1 DEF EndPuts
    <2>3. s2c' \in Seq(Packets(FromServer))  BY <1>13, <2>2 DEF EndPuts, ToClient
    <2>4. c2s # <<>> /\ c2s' = Tail(c2s) /\ spc' = "request"
      BY <1>13 DEF EndPuts, ServerGets
    <2>5. UNCHANGED <<link, clientVars, serves, sleft, strayed>>  BY <1>13 DEF EndPuts
    <2> QED  BY <1>3, <2>3, <2>4, <2>5
  <1>14. CASE PutsOutOfPlace  BY <1>1, <1>2, <1>4, <1>14 DEF PutsOutOfPlace, ToClient, Close
  <1>15. ASSUME NEW k \in 0..MaxBlocks, SendGetsResp(k) PROVE (TypeOK /\ Numbered)'
    <2>1. c2s # <<>> /\ c2s' = Tail(c2s) /\ serves' = Head(c2s).n
      BY <1>15 DEF SendGetsResp, Dispatch, ServerGets
    <2>2. s2c' = Sent(s2c, "GETS_RESP", Head(c2s).n, k)  BY <1>15 DEF SendGetsResp, Answers
    <2>3. s2c' \in Seq(Packets(FromServer))  BY <1>1, <1>2, <2>1, <2>2
    <2>4. spc' = "getsResume" /\ sleft' = k /\ UNCHANGED <<link, clientVars, strayed>>
      BY <1>15 DEF SendGetsResp, Dispatch
    <2> QED  BY <1>3, <2>1, <2>3, <2>4
  <1>16. CASE RecvResumePos  BY <1>3, <1>16 DEF RecvResumePos, ServerGets
  <1>17. CASE NoResumePos \/ SendfileRunsDry \/ WorkerIoFails
    BY <1>4, <1>17 DEF NoResumePos, SendfileRunsDry, WorkerIoFails, Close
  <1>18. CASE SendBlock  BY <1>1, <1>2, <1>18 DEF SendBlock, ToClient
  <1>19. CASE EndGets  BY <1>1, <1>2, <1>19 DEF EndGets, ToClient
  <1>20. CASE WorkerCallocFails  BY <1>1, <1>2, <1>4, <1>20 DEF WorkerCallocFails, ToClient, Close
  <1> QED
    BY <1>5, <1>6, <1>7, <1>8, <1>9, <1>10, <1>11, <1>12, <1>13, <1>14, <1>15, <1>16, <1>17,
       <1>18, <1>19, <1>20 DEF Worker

\* Whoever is about to read garbage goes back to the prompt when it has.
LEMMA GarbageKept ==
    ASSUME Garbage, User \/ ClientStep \/ RecvGarbage \/ Worker
    PROVE  Garbage'
  <1> USE DEF Garbage
  <1>1. CASE User  BY <1>1 DEF User, GiveSimple, GivePuts, GiveGets, Request, Exit
  <1>2. CASE RecvText \/ RecvRefusal \/ LocalOpenFails \/ RecvFileData \/ LocalWriteFails \/ RecvEnd
             \/ RecvPutsResp \/ \E offset \in 0..MaxBlocks : RecvGetsResp(offset)
    <2>1. ~garbled /\ garbled' = garbled
      BY <1>2 DEF RecvText, RecvRefusal, LocalOpenFails, RecvFileData, LocalWriteFails, RecvEnd, RecvPutsResp,
                  RecvGetsResp, Takes
    <2> QED  BY <2>1
  <1>3. CASE SendFileEnd \/ \E excess \in {0, 1} : SendFileData(excess)
    BY <1>3 DEF SendFileEnd, SendFileData
  <1>4. CASE LocalReadFails \/ ClientIoFails \/ ClientCallocFails \/ RecvGarbage
    BY <1>4 DEF LocalReadFails, ClientIoFails, ClientCallocFails, RecvGarbage
  <1>5. CASE Worker
    <2>1. cpc' = cpc /\ garbled' = garbled /\ (strayed => strayed')
      BY <1>5 DEF Worker, clientVars, Dispatch, Simple, Refuse, Unknown, OpenForPuts, SendPutsResp, MapFile,
                  MapFails, StoreBlock, EndPuts, PutsOutOfPlace, SendGetsResp, RecvResumePos, NoResumePos,
                  SendBlock, SendfileRunsDry, EndGets, WorkerIoFails, WorkerCallocFails
    <2> QED  BY <2>1
  <1> QED  BY <1>1, <1>2, <1>3, <1>4, <1>5 DEF ClientStep

LEMMA TypingNext == Typing /\ [Next]_vars => Typing'
  <1> SUFFICES ASSUME Typing, [Next]_vars PROVE Typing'  OBVIOUS
  <1>1. CASE User \/ ClientStep \/ RecvGarbage  BY <1>1, TypingClient, GarbageKept DEF Typing
  <1>2. CASE Worker  BY <1>2, TypingWorker, GarbageKept DEF Typing
  <1>3. CASE LinkBreaks \/ UNCHANGED vars
    BY <1>3 DEF LinkBreaks, vars, clientVars, serverVars, Typing, TypeOK, Numbered, Garbage
  <1> QED  BY <1>1, <1>2, <1>3 DEF Next

\* Type correctness: offsets never exceed the file, and every packet has a legal form.
THEOREM TypeCorrect == Spec => []TypeOK
  <1>1. Typing => TypeOK  BY DEF Typing
  <1> QED  BY <1>1, TypingInit, TypingNext, PTL DEF Spec

--------------------------------------------------------------------------------
(* Blocks go home: what lies in the connection is in sections, one for each request. *)

\* A packet that is no request belongs to the request before it, the first one to the
\* command that is served.
Sections == \A i \in 1..Len(c2s) : c2s[i].type \notin Requests =>
                c2s[i].n = IF i = 1 THEN serves ELSE c2s[i - 1].n

\* The client writes on in the last section.
LastSent == link = "up" => cmd = IF c2s = <<>> THEN serves ELSE c2s[Len(c2s)].n

\* After RESUME_POS the client is silent until the worker has taken it.
ResumeSent == \A i \in 1..Len(c2s) : c2s[i].type = "RESUME_POS" =>
                 /\ i = Len(c2s) /\ spc = "getsResume"
                 /\ link = "up" => cpc = "getsRecv" /\ s2c = <<>>

\* After GETS_RESP the worker is silent until it has got RESUME_POS.
GetsAnswered == \A i \in 1..Len(s2c) : s2c[i].type = "GETS_RESP" =>
                    i = Len(s2c) /\ (link = "up" => spc = "getsResume")

\* A client that receives a file has drained the connection of all other answers.
Receiving == cpc = "getsRecv" =>
                /\ \A i \in 1..Len(s2c) : s2c[i].n = cmd
                /\ link = "up" => \/ c2s # <<>> /\ c2s[Len(c2s)].type = "RESUME_POS"
                                  \/ c2s = <<>> /\ spc \in {"getsSend", "request"}

HomeInv == Typing /\ Sections /\ LastSent /\ ResumeSent /\ GetsAnswered /\ Receiving

\* What Sent makes of a queue.
LEMMA SentAt ==
    ASSUME NEW T, NEW queue \in Seq(Packets(T)), NEW type, NEW n, NEW number
    PROVE  LET q == Sent(queue, type, n, number)
           IN  /\ link = "up" => /\ Len(q) = Len(queue) + 1 /\ q # <<>>
                                 /\ q[Len(queue) + 1].type = type
                                 /\ q[Len(queue) + 1].n = n
                                 /\ q[Len(queue) + 1].number = number
                                 /\ \A i \in 1..Len(queue) : q[i] = queue[i]
               /\ link # "up" => q = queue
  <1> DEFINE packet == [type |-> type, n |-> n, number |-> number]
             q == Append(queue, packet)
  <1>1. packet.type = type /\ packet.n = n /\ packet.number = number  OBVIOUS
  <1> HIDE DEF packet
  <1>2. /\ Len(q) = Len(queue) + 1 /\ q # <<>> /\ q[Len(queue) + 1] = packet
        /\ \A i \in 1..Len(queue) : q[i] = queue[i]
    OBVIOUS
  <1> QED  BY <1>1, <1>2 DEF Sent, packet

LEMMA HomeInit == Init => HomeInv
  <1> SUFFICES ASSUME Init PROVE HomeInv  OBVIOUS
  <1>1. /\ c2s = <<>> /\ s2c = <<>> /\ cmd = 0 /\ serves = 0 /\ cpc = "prompt"  BY DEF Init
  <1>2. Len(c2s) = 0 /\ Len(s2c) = 0  BY <1>1
  <1> QED
    BY <1>1, <1>2, TypingInit DEF HomeInv, Sections, LastSent, ResumeSent, GetsAnswered, Receiving

\* On a live connection, who is not in the handshake of gets finds none of its packets.
LEMMA NoHandshake ==
    ASSUME HomeInv, link = "up", spc # "getsResume"
    PROVE  /\ \A i \in 1..Len(s2c) : s2c[i].type # "GETS_RESP"
           /\ \A i \in 1..Len(c2s) : c2s[i].type # "RESUME_POS"
           /\ cpc = "getsRecv" => c2s = <<>> /\ spc \in {"getsSend", "request"}
  <1>1. c2s # <<>> => Len(c2s) \in 1..Len(c2s)  BY DEF HomeInv, Typing, TypeOK
  <1> QED  BY <1>1 DEF HomeInv, ResumeSent, GetsAnswered, Receiving

\* The client takes a packet and sends none.
LEMMA HomeClientTakes ==
    ASSUME HomeInv, Typing', s2c # <<>>, s2c' = Tail(s2c), cpc' = cpc \/ cpc' # "getsRecv",
           UNCHANGED <<link, cmd, c2s, serverVars>>
    PROVE  HomeInv'
  <1>1. /\ Len(Tail(s2c)) = Len(s2c) - 1
        /\ \A i \in 1..(Len(s2c) - 1) : Tail(s2c)[i] = s2c[i + 1]
        /\ Len(s2c) \in Nat
    BY TakeType DEF HomeInv, Typing, TypeOK
  <1>2. Sections' /\ LastSent'  BY DEF HomeInv, Sections, LastSent, serverVars
  <1>3. ResumeSent'  BY DEF HomeInv, ResumeSent, serverVars
  <1>4. GetsAnswered'
    <2>1. GetsAnswered /\ spc' = spc  BY DEF HomeInv, serverVars
    <2>2. SUFFICES ASSUME NEW i \in 1..(Len(s2c) - 1), s2c[i + 1].type = "GETS_RESP"
                   PROVE  i = Len(s2c) - 1 /\ (link = "up" => spc = "getsResume")
      BY <1>1, <2>1 DEF GetsAnswered
    <2>3. i + 1 \in 1..Len(s2c)  BY <1>1
    <2>4. i + 1 = Len(s2c) /\ (link = "up" => spc = "getsResume")
      BY <2>1, <2>2, <2>3 DEF GetsAnswered
    <2>5. Len(s2c) \in Nat  BY <1>1
    <2> QED  BY <2>4, <2>5
  <1>5. Receiving'  BY <1>1 DEF HomeInv, Receiving, serverVars
  <1> QED  BY <1>2, <1>3, <1>4, <1>5 DEF HomeInv

\* The client sends a packet, of its command or as the request of the next one.
LEMMA HomeClientSends ==
    ASSUME HomeInv, Typing', cpc' # "getsRecv", cpc # "getsRecv",
           NEW type \in FromClient, NEW number, type # "RESUME_POS",
           c2s' = Sent(c2s, type, cmd', number), type \in Requests \/ cmd' = cmd,
           UNCHANGED <<link, s2c, serverVars>>
    PROVE  HomeInv'
  <1>1. CASE link = "up"
    <2>1. /\ Len(c2s') = Len(c2s) + 1 /\ c2s' # <<>>
          /\ c2s'[Len(c2s) + 1].type = type /\ c2s'[Len(c2s) + 1].n = cmd'
          /\ \A i \in 1..Len(c2s) : c2s'[i] = c2s[i]
      BY <1>1, SentAt DEF HomeInv, Typing, TypeOK
    <2>2. Len(c2s) \in Nat /\ (c2s = <<>> <=> Len(c2s) = 0)  BY DEF HomeInv, Typing, TypeOK
    <2>3. Sections'
      <3>1. SUFFICES ASSUME NEW i \in 1..(Len(c2s) + 1), c2s'[i].type \notin Requests
                     PROVE  c2s'[i].n = IF i = 1 THEN serves ELSE c2s'[i - 1].n
        BY <2>1 DEF Sections, serverVars
      <3>2. CASE i \in 1..Len(c2s)  BY <2>1, <2>2, <3>1, <3>2 DEF HomeInv, Sections
      <3>3. CASE i = Len(c2s) + 1
        BY <1>1, <2>1, <2>2, <3>1, <3>3 DEF HomeInv, LastSent
      <3> QED  BY <2>2, <3>2, <3>3
    <2>4. LastSent'  BY <2>1 DEF LastSent
    <2>5. ResumeSent'  BY <1>1, <2>1, <2>2 DEF HomeInv, ResumeSent, serverVars
    <2>6. GetsAnswered' /\ Receiving'  BY DEF HomeInv, GetsAnswered, Receiving, serverVars
    <2> QED  BY <2>3, <2>4, <2>5, <2>6 DEF HomeInv
  <1>2. CASE link # "up"
    <2>1. c2s' = c2s  BY <1>2, SentAt DEF HomeInv, Typing, TypeOK
    <2> QED
      BY <1>2, <2>1 DEF HomeInv, Sections, LastSent, ResumeSent, GetsAnswered, Receiving, serverVars
  <1> QED  BY <1>1, <1>2

\* RESUME_POS is sent for GETS_RESP.
LEMMA HomeRecvGetsResp ==
    ASSUME HomeInv, Typing', NEW offset \in 0..MaxBlocks, RecvGetsResp(offset)
    PROVE  HomeInv'
  <1>1. /\ s2c # <<>> /\ s2c[1].type = "GETS_RESP" /\ s2c' = Tail(s2c)
        /\ c2s' = Sent(c2s, "RESUME_POS", cmd, offset) /\ cpc' = "getsRecv"
        /\ UNCHANGED <<link, cmd, serverVars>>
    BY TakeType DEF RecvGetsResp, ClientGets, Takes, ToServer, HomeInv, Typing, TypeOK
  <1>2. Len(s2c) = 1 /\ (link = "up" => spc = "getsResume")
    <2>1. GetsAnswered /\ 1 \in 1..Len(s2c)  BY <1>1 DEF HomeInv, Typing, TypeOK
    <2> QED  BY <1>1, <2>1 DEF GetsAnswered
  <1>3. s2c' = <<>> /\ Len(s2c') = 0
    <2>1. s2c' \in Seq(Packets(FromServer)) /\ Len(s2c') = 0
      BY <1>1, <1>2, TakeType DEF HomeInv, Typing, TypeOK
    <2> QED  BY <2>1
  <1>4. CASE link = "up"
    <2>1. /\ Len(c2s') = Len(c2s) + 1 /\ c2s' # <<>>
          /\ c2s'[Len(c2s) + 1].type = "RESUME_POS" /\ c2s'[Len(c2s) + 1].n = cmd
          /\ \A i \in 1..Len(c2s) : c2s'[i] = c2s[i]
      BY <1>1, <1>4, SentAt DEF HomeInv, Typing, TypeOK
    <2>2. Len(c2s) \in Nat /\ (c2s = <<>> <=> Len(c2s) = 0)  BY DEF HomeInv, Typing, TypeOK
    <2>3. Sections'
      <3>1. SUFFICES ASSUME NEW i \in 1..(Len(c2s) + 1), c2s'[i].type \notin Requests
                     PROVE  c2s'[i].n = IF i = 1 THEN serves ELSE c2s'[i - 1].n
        BY <1>1, <2>1 DEF Sections, serverVars
      <3>2. CASE i \in 1..Len(c2s)  BY <2>1, <2>2, <3>1, <3>2 DEF HomeInv, Sections
      <3>3. CASE i = Len(c2s) + 1
        BY <1>4, <2>1, <2>2, <3>1, <3>3 DEF HomeInv, LastSent
      <3> QED  BY <2>2, <3>2, <3>3
    <2>4. LastSent'  BY <1>1, <2>1 DEF LastSent
    <2>5. \A i \in 1..Len(c2s) : c2s[i].type # "RESUME_POS"
      BY <1>1, <1>4 DEF HomeInv, ResumeSent
    <2>6. ResumeSent'  BY <1>1, <1>2, <1>3, <1>4, <2>1, <2>2, <2>5 DEF ResumeSent, serverVars
    <2>7. GetsAnswered' /\ Receiving'  BY <1>3, <2>1 DEF GetsAnswered, Receiving
    <2> QED  BY <2>3, <2>4, <2>6, <2>7 DEF HomeInv
  <1>5. CASE link # "up"
    <2>1. c2s' = c2s  BY <1>1, <1>5, SentAt DEF HomeInv, Typing, TypeOK
    <2>2. UNCHANGED <<link, cmd, spc, serves>>  BY <1>1 DEF serverVars
    <2>3. Sections' /\ LastSent'
      BY <1>5, <2>1, <2>2 DEF HomeInv, Sections, LastSent
    <2>4. ResumeSent'  BY <1>5, <2>1, <2>2 DEF HomeInv, ResumeSent
    <2>5. GetsAnswered' /\ Receiving'  BY <1>3, <1>5, <2>2 DEF GetsAnswered, Receiving
    <2> QED  BY <2>3, <2>4, <2>5 DEF HomeInv
  <1> QED  BY <1>4, <1>5

\* The sections when the worker has taken a packet; serves is then its command.
LEMMA TakeSections ==
    ASSUME HomeInv, c2s # <<>>, c2s' = Tail(c2s), serves' = Head(c2s).n, UNCHANGED <<link, cmd>>
    PROVE  Sections' /\ LastSent'
  <1>1. /\ Head(c2s) = c2s[1] /\ Len(Tail(c2s)) = Len(c2s) - 1 /\ Len(c2s) \in Nat \ {0}
        /\ \A i \in 1..(Len(c2s) - 1) : Tail(c2s)[i] = c2s[i + 1]
        /\ Tail(c2s) = <<>> <=> Len(c2s) = 1
    <2>1. c2s \in Seq(Packets(FromClient))  BY DEF HomeInv, Typing, TypeOK
    <2>2. Len(c2s) \in Nat \ {0}  BY <2>1
    <2>3. /\ Head(c2s) = c2s[1] /\ Len(Tail(c2s)) = Len(c2s) - 1
          /\ \A i \in 1..(Len(c2s) - 1) : Tail(c2s)[i] = c2s[i + 1]
          /\ Tail(c2s) \in Seq(Packets(FromClient))
      BY <2>1, TakeType
    <2>4. Tail(c2s) = <<>> <=> Len(Tail(c2s)) = 0  BY <2>3
    <2> QED  BY <2>2, <2>3, <2>4
  <1>2. Sections'
    <2>1. SUFFICES ASSUME NEW i \in 1..(Len(c2s) - 1), c2s[i + 1].type \notin Requests
                   PROVE  c2s[i + 1].n = IF i = 1 THEN c2s[1].n ELSE Tail(c2s)[i - 1].n
      BY <1>1 DEF Sections
    <2>2. i + 1 \in 1..Len(c2s) /\ i + 1 # 1 /\ (i + 1) - 1 = i  BY <1>1
    <2>3. c2s[i + 1].n = c2s[i].n  BY <2>1, <2>2 DEF HomeInv, Sections
    <2>4. i # 1 => Tail(c2s)[i - 1] = c2s[i]  BY <1>1
    <2> QED  BY <2>3, <2>4
  <1>3. LastSent'
    <2>1. Len(c2s) # 1 => Tail(c2s)[Len(c2s) - 1] = c2s[Len(c2s)]  BY <1>1
    <2> QED  BY <1>1, <2>1 DEF HomeInv, LastSent
  <1> QED  BY <1>2, <1>3

\* handle_request takes a request, or handle_puts a packet, and may answer.
LEMMA HomeTakes ==
    ASSUME HomeInv, Typing', NEW type \in FromServer, NEW number,
           spc # "getsResume", c2s # <<>>, c2s' = Tail(c2s), serves' = Head(c2s).n,
           s2c' = s2c \/ s2c' = Sent(s2c, type, Head(c2s).n, number),
           type = "GETS_RESP" => spc' = "getsResume", UNCHANGED <<link, clientVars>>
    PROVE  HomeInv'
  <1>1. Sections' /\ LastSent'  BY TakeSections DEF clientVars
  <1>2. /\ Len(Tail(c2s)) = Len(c2s) - 1 /\ Len(c2s) \in Nat
        /\ \A i \in 1..(Len(c2s) - 1) : Tail(c2s)[i] = c2s[i + 1]
    BY TakeType DEF HomeInv, Typing, TypeOK
  <1>3. ResumeSent'
    <2>1. \A i \in 1..Len(c2s) : c2s[i].type # "RESUME_POS"  BY DEF HomeInv, ResumeSent
    <2>2. \A i \in 1..(Len(c2s) - 1) : c2s[i + 1].type # "RESUME_POS"  BY <1>2, <2>1
    <2>3. \A i \in 1..Len(c2s') : c2s'[i].type # "RESUME_POS"  BY <1>2, <2>2
    <2> QED  BY <2>3 DEF ResumeSent
  <1>4. Len(s2c) \in Nat  BY DEF HomeInv, Typing, TypeOK
  <1>5. CASE link = "up"
    <2>1. /\ \A i \in 1..Len(s2c) : s2c[i].type # "GETS_RESP"
          /\ cpc # "getsRecv"
      BY <1>5, NoHandshake
    <2>2. \/ s2c' = s2c
          \/ /\ Len(s2c') = Len(s2c) + 1 /\ s2c'[Len(s2c) + 1].type = type
             /\ \A i \in 1..Len(s2c) : s2c'[i] = s2c[i]
      <3>1. s2c \in Seq(Packets(FromServer))  BY DEF HomeInv, Typing, TypeOK
      <3> QED  BY <1>5, <3>1, SentAt
    <2>3. GetsAnswered'  BY <1>4, <2>1, <2>2 DEF GetsAnswered
    <2>4. Receiving'  BY <2>1 DEF Receiving, clientVars
    <2> QED  BY <1>1, <1>3, <2>3, <2>4 DEF HomeInv
  <1>6. CASE link # "up"
    <2>1. s2c' = s2c  BY <1>6, SentAt DEF HomeInv, Typing, TypeOK
    <2>2. GetsAnswered' /\ Receiving'
      BY <1>6, <2>1 DEF HomeInv, GetsAnswered, Receiving, clientVars
    <2> QED  BY <1>1, <1>3, <2>2 DEF HomeInv
  <1> QED  BY <1>5, <1>6

\* The session ends, with or without a last word.
LEMMA HomeClose ==
    ASSUME HomeInv, Typing', Close, NEW type, type # "GETS_RESP", NEW n, NEW number,
           s2c' = s2c \/ (/\ spc # "getsResume" /\ c2s # <<>>
                          /\ s2c' = Sent(s2c, type, n, number)),
           UNCHANGED clientVars
    PROVE  HomeInv'
  <1>1. c2s' = <<>> /\ Len(c2s') = 0 /\ link' = "broken"  BY DEF Close
  <1>2. Sections' /\ LastSent' /\ ResumeSent'  BY <1>1 DEF Sections, LastSent, ResumeSent
  <1>3. Len(s2c) \in Nat  BY DEF HomeInv, Typing, TypeOK
  <1>4. CASE s2c' = s2c
    BY <1>1, <1>2, <1>4 DEF HomeInv, GetsAnswered, Receiving, clientVars
  <1>5. CASE link = "up" /\ s2c' # s2c
    <2>1. /\ \A i \in 1..Len(s2c) : s2c[i].type # "GETS_RESP"
          /\ cpc # "getsRecv"
      BY <1>5, NoHandshake
    <2>2. /\ Len(s2c') = Len(s2c) + 1 /\ s2c'[Len(s2c) + 1].type = type
          /\ \A i \in 1..Len(s2c) : s2c'[i] = s2c[i]
      BY <1>5, SentAt DEF HomeInv, Typing, TypeOK
    <2>3. GetsAnswered'  BY <1>3, <2>1, <2>2 DEF GetsAnswered
    <2>4. Receiving'  BY <2>1 DEF Receiving, clientVars
    <2> QED  BY <1>2, <2>3, <2>4 DEF HomeInv
  <1>6. CASE link # "up" /\ s2c' # s2c
    BY <1>6, SentAt DEF HomeInv, Typing, TypeOK
  <1> QED  BY <1>4, <1>5, <1>6

\* The worker goes on by itself: a reply of a running transfer, or none.
LEMMA HomeWorkerSends ==
    ASSUME HomeInv, Typing', NEW type, type # "GETS_RESP", NEW number, spc # "getsResume",
           s2c' = s2c \/ s2c' = Sent(s2c, type, serves, number),
           spc \in {"getsSend", "request"} => spc' \in {"getsSend", "request"},
           UNCHANGED <<link, c2s, clientVars, serves>>
    PROVE  HomeInv'
  <1>1. Sections' /\ LastSent'  BY DEF HomeInv, Sections, LastSent, clientVars
  <1>2. ResumeSent'  BY DEF HomeInv, ResumeSent
  <1>3. Len(s2c) \in Nat  BY DEF HomeInv, Typing, TypeOK
  <1>4. CASE link = "up"
    <2>1. /\ \A i \in 1..Len(s2c) : s2c[i].type # "GETS_RESP"
          /\ cpc = "getsRecv" => c2s = <<>> /\ spc \in {"getsSend", "request"} /\ serves = cmd
      BY <1>4, NoHandshake DEF HomeInv, LastSent
    <2>2. \/ s2c' = s2c
          \/ /\ Len(s2c') = Len(s2c) + 1
             /\ s2c'[Len(s2c) + 1].type = type /\ s2c'[Len(s2c) + 1].n = serves
             /\ \A i \in 1..Len(s2c) : s2c'[i] = s2c[i]
      BY <1>4, SentAt DEF HomeInv, Typing, TypeOK
    <2>3. GetsAnswered'  BY <1>3, <2>1, <2>2 DEF GetsAnswered
    <2>4. Receiving'
      <3>1. SUFFICES ASSUME cpc = "getsRecv" PROVE \A i \in 1..Len(s2c') : s2c'[i].n = cmd
        BY <1>4, <2>1 DEF Receiving, clientVars
      <3>2. \A i \in 1..Len(s2c) : s2c[i].n = cmd  BY <3>1 DEF HomeInv, Receiving
      <3> QED  BY <1>3, <2>1, <2>2, <3>1, <3>2
    <2> QED  BY <1>1, <1>2, <2>3, <2>4 DEF HomeInv
  <1>5. CASE link # "up"
    <2>1. s2c' = s2c  BY <1>5, SentAt DEF HomeInv, Typing, TypeOK
    <2>2. GetsAnswered' /\ Receiving'
      BY <1>5, <2>1 DEF HomeInv, GetsAnswered, Receiving, clientVars
    <2> QED  BY <1>1, <1>2, <2>2 DEF HomeInv
  <1> QED  BY <1>4, <1>5

\* The first packet, if it is no request, is of the command that is served.
LEMMA FirstIsServed ==
    ASSUME HomeInv, c2s # <<>>, Head(c2s).type \notin Requests
    PROVE  Head(c2s).n = serves
  <1>1. Head(c2s) = c2s[1] /\ 1 \in 1..Len(c2s)  BY TakeType DEF HomeInv, Typing, TypeOK
  <1> QED  BY <1>1 DEF HomeInv, Sections

LEMMA HomeRecvResumePos ==
    ASSUME HomeInv, Typing', RecvResumePos
    PROVE  HomeInv'
  <1>1. /\ c2s # <<>> /\ Head(c2s).type = "RESUME_POS" /\ c2s' = Tail(c2s) /\ spc' = "getsSend"
        /\ UNCHANGED <<link, s2c, clientVars, serves>>
    BY DEF RecvResumePos, ServerGets
  <1>2. Head(c2s).type \notin Requests  BY <1>1 DEF Requests
  <1>3. Sections' /\ LastSent'  BY <1>1, <1>2, FirstIsServed, TakeSections DEF clientVars
  <1>4. Head(c2s) = c2s[1] /\ 1 \in 1..Len(c2s)
    BY <1>1, TakeType DEF HomeInv, Typing, TypeOK
  <1>5. Len(c2s) = 1 /\ (link = "up" => s2c = <<>>)  BY <1>1, <1>4 DEF HomeInv, ResumeSent
  <1>6. c2s' = <<>> /\ Len(c2s') = 0
    <2>1. c2s' \in Seq(Packets(FromClient)) /\ Len(c2s') = 0
      BY <1>1, <1>5, TakeType DEF HomeInv, Typing, TypeOK
    <2> QED  BY <2>1
  <1>7. ResumeSent'  BY <1>6 DEF ResumeSent
  <1>9. Receiving'
    <2>1. cpc' = cpc /\ cmd' = cmd  BY <1>1 DEF clientVars
    <2> QED  BY <1>1, <1>6, <2>1 DEF HomeInv, Receiving
  <1>8. GetsAnswered'
    <2>1. s2c = <<>> => Len(s2c) = 0  OBVIOUS
    <2> QED  BY <1>1, <1>5, <2>1 DEF HomeInv, GetsAnswered
  <1> QED  BY <1>3, <1>7, <1>8, <1>9 DEF HomeInv

\* Everything else leaves the queues alone: the user exits, something fails.
LEMMA HomeIdle ==
    ASSUME HomeInv, Typing', UNCHANGED <<c2s, s2c, cmd, spc, serves>>,
           cpc' = cpc \/ cpc' # "getsRecv", link' # "up" \/ (link' = link /\ (cpc' = cpc \/ cpc # "getsRecv"))
    PROVE  HomeInv'
  <1>1. Sections' /\ LastSent'  BY DEF HomeInv, Sections, LastSent
  <1>2. ResumeSent' /\ GetsAnswered'  BY DEF HomeInv, ResumeSent, GetsAnswered
  <1>3. Receiving'  BY DEF HomeInv, Receiving
  <1> QED  BY <1>1, <1>2, <1>3 DEF HomeInv

LEMMA HomeNext == HomeInv /\ [Next]_vars => HomeInv'
  <1> SUFFICES ASSUME HomeInv, [Next]_vars PROVE HomeInv'  OBVIOUS
  <1>1. Typing'  BY TypingNext DEF HomeInv
  <1>2. {"SIMPLE", "PUTS_REQ", "GETS_REQ", "FILE_DATA", "FILE_END"} \subseteq FromClient \ {"RESUME_POS"}
    BY DEF FromClient, Requests
  <1>3. "ERROR" \in FromServer /\ "ACK" \in FromServer /\ "GETS_RESP" \in FromServer
    BY DEF FromServer
  <1>4. CASE User
    <2>1. ASSUME NEW type \in Requests, NEW number, Request(type, number), cpc' # "getsRecv"
          PROVE  HomeInv'
      <3>1. type \in FromClient /\ type # "RESUME_POS"  BY DEF FromClient, Requests
      <3>2. c2s' = Sent(c2s, type, cmd', number) /\ cpc # "getsRecv"
            /\ UNCHANGED <<link, s2c, serverVars>>
        BY <2>1 DEF Request
      <3> QED  BY <1>1, <2>1, <3>1, <3>2, HomeClientSends
    <2>2. CASE GiveSimple  BY <2>1, <2>2 DEF GiveSimple, Requests
    <2>3. CASE GiveGets  BY <2>1, <2>3 DEF GiveGets, Requests
    <2>4. ASSUME NEW size \in 0..MaxBlocks, GivePuts(size) PROVE HomeInv'
      BY <2>1, <2>4 DEF GivePuts, Requests
    <2>5. CASE Exit  BY <1>1, <2>5, HomeIdle DEF Exit, serverVars
    <2> QED  BY <1>4, <2>2, <2>3, <2>4, <2>5 DEF User
  <1>5. CASE ClientStep
    <2>1. CASE RecvText \/ RecvRefusal \/ RecvPutsResp \/ LocalOpenFails \/ RecvFileData
               \/ LocalWriteFails \/ RecvEnd \/ ClientCallocFails
      BY <1>1, <2>1, HomeClientTakes
      DEF RecvText, RecvRefusal, RecvPutsResp, LocalOpenFails, RecvFileData, LocalWriteFails,
          RecvEnd, ClientCallocFails, Takes
    <2>2. ASSUME NEW excess \in {0, 1}, SendFileData(excess) \/ SendFileEnd PROVE HomeInv'
      <3>1. PICK type \in {"FILE_DATA", "FILE_END"}, number \in {0, excess} :
               c2s' = Sent(c2s, type, cmd, number)
        BY <2>2 DEF SendFileData, SendFileEnd, ToServer
      <3>2. /\ cpc # "getsRecv" /\ cpc' # "getsRecv" /\ cmd' = cmd
            /\ UNCHANGED <<link, s2c, serverVars>>
        BY <2>2 DEF SendFileData, SendFileEnd
      <3>3. type \in FromClient /\ type # "RESUME_POS"  BY <1>2
      <3> QED  BY <1>1, <3>1, <3>2, <3>3, HomeClientSends
    <2>3. CASE LocalReadFails \/ ClientIoFails
      BY <1>1, <2>3, HomeIdle DEF LocalReadFails, ClientIoFails, serverVars
    <2>4. ASSUME NEW offset \in 0..MaxBlocks, RecvGetsResp(offset) PROVE HomeInv'
      BY <1>1, <2>4, HomeRecvGetsResp
    <2> QED  BY <1>5, <2>1, <2>2, <2>3, <2>4 DEF ClientStep
  <1>8. CASE RecvGarbage
    <2>1. cpc # "getsRecv" /\ cpc' # "getsRecv" /\ UNCHANGED <<link, cmd, c2s, serverVars>>
      BY <1>8 DEF RecvGarbage, HomeInv, Typing, Garbage
    <2>2. CASE s2c' = s2c  BY <1>1, <2>1, <2>2, HomeIdle DEF serverVars
    <2>3. CASE s2c # <<>> /\ s2c' = Tail(s2c)  BY <1>1, <2>1, <2>3, HomeClientTakes
    <2> QED  BY <1>8, <2>2, <2>3 DEF RecvGarbage
  <1>6. CASE Worker
    <2>1. CASE Simple \/ Refuse \/ OpenForPuts
      <3>1. PICK type \in {"ACK", "ERROR"} : s2c' = s2c \/ s2c' = Sent(s2c, type, Head(c2s).n, 0)
        BY <2>1 DEF Simple, Refuse, OpenForPuts, Answers
      <3>2. /\ spc = "request" /\ c2s # <<>> /\ c2s' = Tail(c2s) /\ serves' = Head(c2s).n
            /\ UNCHANGED <<link, clientVars>>
        BY <2>1 DEF Simple, Refuse, OpenForPuts, Dispatch, ServerGets
      <3>3. type \in FromServer /\ type # "GETS_RESP" /\ spc # "getsResume"  BY <1>3, <3>2
      <3> QED  BY <1>1, <3>1, <3>2, <3>3, HomeTakes
    <2>2. ASSUME NEW size \in 0..MaxBlocks, SendGetsResp(size) PROVE HomeInv'
      <3>1. /\ spc = "request" /\ c2s # <<>> /\ c2s' = Tail(c2s) /\ serves' = Head(c2s).n
            /\ UNCHANGED <<link, clientVars>>
        BY <2>2 DEF SendGetsResp, Dispatch, ServerGets
      <3>2. s2c' = Sent(s2c, "GETS_RESP", Head(c2s).n, size) /\ spc' = "getsResume"
        BY <2>2 DEF SendGetsResp, Answers
      <3> QED  BY <1>1, <1>3, <3>1, <3>2, HomeTakes
    <2>3. CASE StoreBlock \/ EndPuts
      <3>1. /\ spc = "putsRecv" /\ c2s # <<>> /\ c2s' = Tail(c2s)
            /\ Head(c2s).type \in {"FILE_DATA", "FILE_END"}
            /\ UNCHANGED <<link, clientVars, serves>>
        BY <2>3 DEF StoreBlock, EndPuts, Fits, ServerGets
      <3>2. Head(c2s).n = serves
        <4>1. Head(c2s).type \notin Requests  BY <3>1 DEF Requests
        <4> QED  BY <3>1, <4>1, FirstIsServed
      <3>3. PICK type \in {"ACK", "ERROR"} : s2c' = s2c \/ s2c' = Sent(s2c, type, Head(c2s).n, 0)
        BY <2>3, <3>2 DEF StoreBlock, EndPuts, ToClient
      <3>4. type \in FromServer /\ type # "GETS_RESP" /\ serves' = Head(c2s).n
            /\ spc # "getsResume"
        BY <1>3, <3>1, <3>2
      <3> QED  BY <1>1, <3>1, <3>3, <3>4, HomeTakes
    <2>4. CASE Unknown \/ PutsOutOfPlace
      <3>1. PICK n \in {Head(c2s).n, serves} : s2c' = Sent(s2c, "ERROR", n, 0)
        BY <2>4 DEF Unknown, PutsOutOfPlace, Answers, ToClient
      <3>2. Close /\ c2s # <<>> /\ spc # "getsResume" /\ UNCHANGED clientVars
        BY <2>4 DEF Unknown, PutsOutOfPlace
      <3> QED  BY <1>1, <3>1, <3>2, HomeClose
    <2>5. CASE NoResumePos \/ SendfileRunsDry \/ WorkerIoFails
      <3>1. Close /\ s2c' = s2c /\ UNCHANGED clientVars
        BY <2>5 DEF NoResumePos, SendfileRunsDry, WorkerIoFails
      <3>2. "ERROR" # "GETS_RESP"  OBVIOUS
      <3> QED  BY <1>1, <3>1, <3>2, HomeClose
    <2>6. ASSUME NEW k \in 0..MaxBlocks, SendPutsResp(k) \/ MapFile \/ MapFails
                                          \/ SendBlock \/ EndGets
          PROVE  HomeInv'
      <3>1. PICK type \in FromServer \ {"GETS_RESP"}, number \in {0, k} :
               s2c' = s2c \/ s2c' = Sent(s2c, type, serves, number)
        BY <2>6 DEF SendPutsResp, MapFile, MapFails, SendBlock, EndGets, ToClient, FromServer
      <3>2. /\ spc # "getsResume"
            /\ spc \in {"getsSend", "request"} => spc' \in {"getsSend", "request"}
            /\ UNCHANGED <<link, c2s, clientVars, serves>>
        BY <2>6 DEF SendPutsResp, MapFile, MapFails, SendBlock, EndGets
      <3> QED  BY <1>1, <3>1, <3>2, HomeWorkerSends
    <2>7. CASE RecvResumePos  BY <1>1, <2>7, HomeRecvResumePos
    <2>8. CASE WorkerCallocFails
      <3>1. /\ s2c' = s2c \/ (spc # "getsResume" /\ s2c' = Sent(s2c, "ERROR", serves, 0))
            /\ Close /\ c2s # <<>> /\ UNCHANGED clientVars
        BY <2>8 DEF WorkerCallocFails, ToClient
      <3>2. "ERROR" # "GETS_RESP"  OBVIOUS
      <3>3. CASE s2c' = s2c  BY <1>1, <3>1, <3>2, <3>3, HomeClose
      <3>4. CASE spc # "getsResume" /\ s2c' = Sent(s2c, "ERROR", serves, 0)
        BY <1>1, <3>1, <3>2, <3>4, HomeClose
      <3> QED  BY <3>1, <3>3, <3>4
    <2>9. 0 \in 0..MaxBlocks  BY SessionAssumption
    <2> QED  BY <1>6, <2>1, <2>2, <2>3, <2>4, <2>5, <2>6, <2>7, <2>8, <2>9 DEF Worker
  <1>7. CASE LinkBreaks \/ UNCHANGED vars
    BY <1>1, <1>7, HomeIdle DEF LinkBreaks, vars, clientVars, serverVars
  <1> QED  BY <1>4, <1>5, <1>6, <1>7, <1>8 DEF Next

\* No block ever ends up in the file of another command, however many failed before: in
\* a section of c2s all is of one command, and RESUME_POS drains s2c.
THEOREM BlocksStayHome == Spec => []BlocksGoHome
  <1>1. HomeInv => BlocksGoHome
    <2> SUFFICES ASSUME HomeInv PROVE BlocksGoHome  OBVIOUS
    <2>1. s2c # <<>> => Head(s2c) = s2c[1] /\ 1 \in 1..Len(s2c)
      BY TakeType DEF HomeInv, Typing, TypeOK
    <2>2. Stream \cap Requests = {}  BY DEF Stream, Requests
    <2> QED  BY <2>1, <2>2, FirstIsServed DEF BlocksGoHome, HomeInv, Receiving
  <1> QED  BY <1>1, HomeInit, HomeNext, PTL DEF Spec

--------------------------------------------------------------------------------
(* In step: the phases of a command, on a live connection before any failure. *)

One(queue, type) == Len(queue) = 1 /\ queue[1].type = type
Data(queue)      == \A i \in 1..Len(queue) : queue[i].type = "FILE_DATA"
DataEnd(queue)   == /\ queue # <<>> /\ queue[Len(queue)].type = "FILE_END"
                    /\ \A i \in 1..(Len(queue) - 1) : queue[i].type = "FILE_DATA"

\* The worker has not taken the request.
Asked(type) == spc = "request" /\ One(c2s, type) /\ s2c = <<>>

\* The worker has given its last answer.
Answered == spc = "request" /\ c2s = <<>> /\ Len(s2c) = 1

Mapped == spc \in {"putsMap", "putsRecv"}

Present   == cpc # "exited"
Prompt    == cpc = "prompt" => spc = "request" /\ c2s = <<>> /\ s2c = <<>>
WaitText  == cpc = "waitText" => Asked("SIMPLE") \/ Answered
PutsResp  == cpc = "putsResp" =>
                \/ Asked("PUTS_REQ") /\ c2s[1].number = left
                \/ spc = "putsOpen" /\ c2s = <<>> /\ s2c = <<>> /\ sleft = left
                \/ /\ Mapped /\ c2s = <<>> /\ One(s2c, "PUTS_RESP")
                   /\ sleft + s2c[1].number = left
                \/ Answered /\ s2c[1].type = "ERROR"
PutsSend  == cpc = "putsSend" => Mapped /\ s2c = <<>> /\ Data(c2s) /\ Len(c2s) + left = sleft
PutsReply == cpc = "putsReply" =>
                \/ Mapped /\ s2c = <<>> /\ DataEnd(c2s) /\ Len(c2s) <= sleft + 1
                \/ Answered
GetsResp  == cpc = "getsResp" =>
                \/ Asked("GETS_REQ")
                \/ spc = "getsResume" /\ c2s = <<>> /\ One(s2c, "GETS_RESP")
                \/ Answered /\ s2c[1].type = "ERROR"
GetsRecv  == cpc = "getsRecv" =>
                \/ spc = "getsResume" /\ One(c2s, "RESUME_POS") /\ s2c = <<>>
                \/ spc = "getsSend" /\ c2s = <<>> /\ Data(s2c)
                \/ spc = "request" /\ c2s = <<>> /\ DataEnd(s2c)

\* All packets, and the worker, are with the command.
Together == /\ \A i \in 1..Len(c2s) : c2s[i].n = cmd
            /\ \A i \in 1..Len(s2c) : s2c[i].n = cmd
            /\ spc # "request" => serves = cmd

Phases == Present /\ Prompt /\ WaitText /\ PutsResp /\ PutsSend /\ PutsReply /\ GetsResp /\ GetsRecv

Behind == strayed \/ link = "broken"

PhaseInv == Typing /\ (Behind \/ (Together /\ Phases))

LEMMA EmptyLen ==
    ASSUME NEW T, NEW queue \in Seq(T)
    PROVE  Len(queue) \in Nat /\ (queue = <<>> <=> Len(queue) = 0)
  OBVIOUS

\* A queue that loses its first packet.
LEMMA TakeShape ==
    ASSUME NEW T, NEW queue \in Seq(Packets(T)), queue # <<>>
    PROVE  /\ Head(queue) = queue[1]
           /\ Len(Tail(queue)) = Len(queue) - 1
           /\ Len(queue) = 1 <=> Tail(queue) = <<>>
           /\ Data(queue) => Head(queue).type = "FILE_DATA" /\ Data(Tail(queue))
           /\ DataEnd(queue) /\ Head(queue).type = "FILE_DATA" => DataEnd(Tail(queue))
           /\ DataEnd(queue) /\ Head(queue).type # "FILE_DATA" =>
                  Len(queue) = 1 /\ Head(queue).type = "FILE_END"
  <1>1. /\ Head(queue) = queue[1] /\ Len(Tail(queue)) = Len(queue) - 1
        /\ \A i \in 1..(Len(queue) - 1) : Tail(queue)[i] = queue[i + 1]
        /\ Tail(queue) \in Seq(Packets(T))
    BY TakeType
  <1>2. Len(queue) \in Nat /\ Len(queue) >= 1  BY EmptyLen
  <1>3. Tail(queue) = <<>> <=> Len(Tail(queue)) = 0  BY <1>1, EmptyLen
  <1>4. Data(queue) => Head(queue).type = "FILE_DATA" /\ Data(Tail(queue))
    BY <1>1, <1>2 DEF Data
  <1>5. ASSUME DataEnd(queue), Head(queue).type = "FILE_DATA" PROVE DataEnd(Tail(queue))
    <2>1. Len(queue) > 1  BY <1>1, <1>2, <1>5 DEF DataEnd
    <2>2. Tail(queue)[Len(queue) - 1] = queue[Len(queue)]  BY <1>1, <1>2, <2>1
    <2>3. \A i \in 1..(Len(queue) - 2) : Tail(queue)[i].type = "FILE_DATA"
      <3>1. SUFFICES ASSUME NEW i \in 1..(Len(queue) - 2)
                     PROVE  Tail(queue)[i].type = "FILE_DATA"
        OBVIOUS
      <3>2. i \in 1..(Len(queue) - 1) /\ i + 1 \in 1..(Len(queue) - 1)  BY <1>2
      <3> QED  BY <1>1, <1>5, <3>2 DEF DataEnd
    <2>4. Tail(queue) # <<>> /\ Len(Tail(queue)) = Len(queue) - 1  BY <1>1, <1>2, <1>3, <2>1
    <2>5. (Len(queue) - 1) - 1 = Len(queue) - 2  BY <1>2
    <2> QED  BY <1>5, <2>2, <2>3, <2>4, <2>5 DEF DataEnd
  <1>6. ASSUME DataEnd(queue), Head(queue).type # "FILE_DATA"
        PROVE  Len(queue) = 1 /\ Head(queue).type = "FILE_END"
    <2>1. Len(queue) > 1 => queue[1].type = "FILE_DATA"
      <3>1. Len(queue) > 1 => 1 \in 1..(Len(queue) - 1)  BY <1>2
      <3> QED  BY <1>6, <3>1 DEF DataEnd
    <2>2. Len(queue) = 1
      <3>1. Len(queue) <= 1  BY <1>1, <1>2, <1>6, <2>1
      <3> QED  BY <1>2, <3>1
    <2> QED  BY <1>1, <1>6, <2>2 DEF DataEnd
  <1>7. Len(queue) = 1 <=> Tail(queue) = <<>>  BY <1>1, <1>2, <1>3
  <1> QED  BY <1>1, <1>4, <1>5, <1>6, <1>7

\* A queue to which a packet is sent.
LEMMA SentShape ==
    ASSUME NEW T, NEW queue \in Seq(Packets(T)), NEW type, NEW n, NEW number, link = "up"
    PROVE  LET q == Sent(queue, type, n, number)
           IN  /\ Len(q) = Len(queue) + 1
               /\ queue = <<>> => One(q, type) /\ q[1].number = number
               /\ Data(queue) /\ type = "FILE_DATA" => Data(q)
               /\ Data(queue) /\ type = "FILE_END" => DataEnd(q)
  <1> DEFINE q == Sent(queue, type, n, number)
  <1>1. /\ Len(q) = Len(queue) + 1 /\ q # <<>>
        /\ q[Len(queue) + 1].type = type /\ q[Len(queue) + 1].number = number
        /\ \A i \in 1..Len(queue) : q[i] = queue[i]
    BY SentAt
  <1> HIDE DEF q
  <1>2. Len(queue) \in Nat /\ (queue = <<>> => Len(queue) = 0)  OBVIOUS
  <1>3. queue = <<>> => One(q, type) /\ q[1].number = number  BY <1>1, <1>2 DEF One
  <1>4. Data(queue) /\ type = "FILE_DATA" => Data(q)  BY <1>1, <1>2 DEF Data
  <1>5. Data(queue) /\ type = "FILE_END" => DataEnd(q)
    <2>1. (Len(queue) + 1) - 1 = Len(queue)  BY <1>2
    <2> QED  BY <1>1, <2>1 DEF Data, DataEnd
  <1> QED  BY <1>1, <1>3, <1>4, <1>5 DEF q

\* What the packets of both queues are sent for, after a packet is taken or sent.
LEMMA TakeOwn ==
    ASSUME NEW T, NEW queue \in Seq(Packets(T)), queue # <<>>,
           \A i \in 1..Len(queue) : queue[i].n = cmd
    PROVE  Head(queue).n = cmd /\ \A i \in 1..Len(Tail(queue)) : Tail(queue)[i].n = cmd
  <1>1. /\ Head(queue) = queue[1] /\ Len(Tail(queue)) = Len(queue) - 1
        /\ \A i \in 1..(Len(queue) - 1) : Tail(queue)[i] = queue[i + 1]
    BY TakeType
  <1>2. Len(queue) \in Nat /\ Len(queue) # 0  OBVIOUS
  <1> QED  BY <1>1, <1>2

LEMMA SentOwn ==
    ASSUME NEW T, NEW queue \in Seq(Packets(T)), NEW type, NEW n, NEW number, link = "up",
           \A i \in 1..Len(queue) : queue[i].n = n
    PROVE  LET q == Sent(queue, type, n, number)
           IN  \A i \in 1..Len(q) : q[i].n = n
  <1> DEFINE q == Sent(queue, type, n, number)
  <1>1. /\ Len(q) = Len(queue) + 1 /\ q[Len(queue) + 1].n = n
        /\ \A i \in 1..Len(queue) : q[i] = queue[i]
    BY SentAt
  <1> HIDE DEF q
  <1>2. Len(queue) \in Nat  OBVIOUS
  <1>3. \A i \in 1..Len(q) : q[i].n = n  BY <1>1, <1>2
  <1> QED  BY <1>3 DEF q

LEMMA PhaseInit == Init => PhaseInv
  <1> SUFFICES ASSUME Init PROVE PhaseInv  OBVIOUS
  <1>1. c2s = <<>> /\ s2c = <<>> /\ cpc = "prompt" /\ spc = "request"  BY DEF Init
  <1>2. Len(c2s) = 0 /\ Len(s2c) = 0  BY <1>1
  <1>3. Together  BY <1>1, <1>2 DEF Together
  <1>4. Phases
    BY <1>1
    DEF Phases, Present, Prompt, WaitText, PutsResp, PutsSend, PutsReply, GetsResp, GetsRecv
  <1> QED  BY <1>3, <1>4, TypingInit DEF PhaseInv

\* The phase after a step depends on where the client is then.
LEMMA PhaseClient ==
    ASSUME Typing, Together, Phases, link = "up", User \/ ClientStep
    PROVE  Behind' \/ (Together' /\ Phases')
  <1> USE DEF Phases, Present
  <1>1. c2s \in Seq(Packets(FromClient)) /\ s2c \in Seq(Packets(FromServer))  BY DEF Typing, TypeOK
  <1>2. /\ \A i \in 1..Len(c2s) : c2s[i].n = cmd
        /\ \A i \in 1..Len(s2c) : s2c[i].n = cmd
        /\ spc # "request" => serves = cmd
    BY DEF Together
  <1>3. /\ c2s = <<>> => Len(c2s) = 0
        /\ s2c = <<>> <=> Len(s2c) = 0
        /\ Len(c2s) \in Nat /\ Len(s2c) \in Nat
    BY <1>1, EmptyLen
  <1>4. s2c # <<>> => /\ Head(s2c) = s2c[1]
                      /\ Len(s2c) = 1 <=> Tail(s2c) = <<>>
                      /\ \A i \in 1..Len(Tail(s2c)) : Tail(s2c)[i].n = cmd
    BY <1>1, <1>2, TakeShape, TakeOwn
  \* The request of the next command.
  <1>5. ASSUME NEW type, NEW number, Request(type, number)
        PROVE  /\ Together' /\ spc' = "request" /\ One(c2s', type) /\ c2s'[1].number = number
               /\ s2c' = <<>>
    <2>1. c2s = <<>> /\ s2c = <<>> /\ spc = "request"  BY <1>5 DEF Request, Prompt
    <2>2. /\ c2s' = Sent(c2s, type, cmd', number) /\ s2c' = s2c /\ spc' = spc
      BY <1>5 DEF Request, serverVars
    <2>3. \A i \in 1..Len(c2s) : c2s[i].n = cmd'  BY <1>3, <2>1
    <2>4. \A i \in 1..Len(c2s') : c2s'[i].n = cmd'  BY <1>1, <2>2, <2>3, SentOwn
    <2>5. One(c2s', type) /\ c2s'[1].number = number
      <3>1. /\ Len(c2s') = Len(c2s) + 1 /\ c2s'[Len(c2s) + 1].type = type
            /\ c2s'[Len(c2s) + 1].number = number
        BY <1>1, <2>2, SentAt
      <3> QED  BY <1>3, <2>1, <3>1 DEF One
    <2>6. Together'  BY <1>3, <2>1, <2>2, <2>4 DEF Together
    <2> QED  BY <2>1, <2>2, <2>5, <2>6
  <1>6. CASE GiveSimple
    <2>1. cpc' = "waitText"  BY <1>6 DEF GiveSimple
    <2>2. Together' /\ Asked("SIMPLE")'  BY <1>5, <1>6 DEF GiveSimple, Asked
    <2> QED
      BY <2>1, <2>2 DEF Prompt, WaitText, PutsResp, PutsSend, PutsReply, GetsResp, GetsRecv
  <1>7. ASSUME NEW size \in 0..MaxBlocks, GivePuts(size) PROVE Together' /\ Phases'
    <2>1. cpc' = "putsResp" /\ left' = size  BY <1>7 DEF GivePuts
    <2>2. Together' /\ Asked("PUTS_REQ")' /\ c2s'[1].number = size
      BY <1>5, <1>7 DEF GivePuts, Asked
    <2> QED
      BY <2>1, <2>2 DEF Prompt, WaitText, PutsResp, PutsSend, PutsReply, GetsResp, GetsRecv
  <1>8. CASE GiveGets
    <2>1. cpc' = "getsResp"  BY <1>8 DEF GiveGets
    <2>2. Together' /\ Asked("GETS_REQ")'  BY <1>5, <1>8 DEF GiveGets, Asked
    <2> QED
      BY <2>1, <2>2 DEF Prompt, WaitText, PutsResp, PutsSend, PutsReply, GetsResp, GetsRecv
  \* A failure, or the end.
  <1>9. CASE Exit \/ LocalReadFails \/ LocalOpenFails \/ LocalWriteFails \/ ClientIoFails
              \/ ClientCallocFails
    BY <1>9
    DEF Exit, LocalReadFails, LocalOpenFails, LocalWriteFails, ClientIoFails, ClientCallocFails, Behind
  \* A packet taken.
  <1>10. ASSUME Takes, UNCHANGED c2s PROVE Together' /\ s2c # <<>>
    <2>1. s2c # <<>> /\ s2c' = Tail(s2c)  BY <1>10 DEF Takes
    <2>2. UNCHANGED <<cmd, c2s, spc, serves>>  BY <1>10 DEF Takes, serverVars
    <2> QED  BY <1>2, <1>4, <2>1, <2>2 DEF Together
  <1>11. ASSUME Takes, UNCHANGED c2s, Answered, cpc' = "prompt" PROVE Together' /\ Phases'
    <2>1. Together'  BY <1>10, <1>11
    <2>2. spc' = "request" /\ c2s' = <<>> /\ s2c' = <<>>
      BY <1>3, <1>4, <1>11 DEF Takes, Answered, serverVars
    <2> QED
      BY <1>11, <2>1, <2>2
      DEF Prompt, WaitText, PutsResp, PutsSend, PutsReply, GetsResp, GetsRecv
  <1>12. CASE RecvText
    <2>1. Answered  BY <1>12 DEF RecvText, Takes, WaitText, PutsReply, Asked
    <2> QED  BY <1>11, <1>12, <2>1 DEF RecvText
  <1>13. CASE RecvRefusal
    <2>1. Answered
      BY <1>4, <1>13 DEF RecvRefusal, Takes, ClientGets, PutsResp, GetsResp, Asked, One
    <2> QED  BY <1>11, <1>13, <2>1 DEF RecvRefusal
  <1>14. CASE RecvPutsResp
    <2>1. Together' /\ s2c # <<>> /\ cpc' = "putsSend"  BY <1>10, <1>14 DEF RecvPutsResp
    <2>2. /\ Mapped /\ c2s = <<>> /\ Len(s2c) = 1 /\ sleft + s2c[1].number = left
      BY <1>4, <1>14, <2>1 DEF RecvPutsResp, ClientGets, PutsResp, Asked, Answered, One
    <2>3. s2c' = <<>>  BY <1>4, <1>14, <2>1, <2>2 DEF RecvPutsResp, Takes
    <2>4. s2c[1].number \in 0..MaxBlocks /\ left \in 0..MaxBlocks /\ sleft \in 0..MaxBlocks
      BY <1>1, <2>1, TakeType DEF Typing, TypeOK
    <2>5. left' = sleft /\ sleft' = sleft /\ Mapped' /\ c2s' = <<>>
      BY <1>4, <1>14, <2>1, <2>2, <2>4, SessionAssumption
      DEF RecvPutsResp, Takes, Mapped, serverVars
    <2>6. Data(c2s') /\ Len(c2s') = 0  BY <1>3, <2>2, <2>5 DEF Data
    <2>7. Len(c2s') + left' = sleft'  BY <2>4, <2>5, <2>6
    <2> QED
      BY <2>1, <2>3, <2>5, <2>6, <2>7
      DEF Prompt, WaitText, PutsResp, PutsSend, PutsReply, GetsResp, GetsRecv
  \* A packet of the stream sent.
  <1>15. ASSUME NEW type, NEW number, ToServer(type, number), UNCHANGED <<link, s2c, cmd, serverVars>>,
                cpc = "putsSend"
         PROVE  /\ Together' /\ Len(c2s') = Len(c2s) + 1 /\ s2c' = <<>>
                /\ type = "FILE_DATA" => Data(c2s')
                /\ type = "FILE_END" => DataEnd(c2s')
    <2>1. c2s' = Sent(c2s, type, cmd, number) /\ Data(c2s) /\ s2c = <<>>
      BY <1>15 DEF ToServer, PutsSend
    <2>2. /\ Len(c2s') = Len(c2s) + 1
          /\ type = "FILE_DATA" => Data(c2s')
          /\ type = "FILE_END" => DataEnd(c2s')
      BY <1>1, <2>1, SentShape
    <2>3. \A i \in 1..Len(c2s') : c2s'[i].n = cmd  BY <1>1, <1>2, <2>1, SentOwn
    <2>4. Together'  BY <1>2, <1>15, <2>3 DEF Together, serverVars
    <2> QED  BY <1>15, <2>1, <2>2, <2>4
  <1>16. ASSUME NEW excess \in {0, 1}, SendFileData(excess) PROVE Together' /\ Phases'
    <2>1. /\ Together' /\ Len(c2s') = Len(c2s) + 1 /\ s2c' = <<>> /\ Data(c2s')
      BY <1>15, <1>16 DEF SendFileData
    <2>2. cpc' = "putsSend" /\ left' = left - 1 /\ sleft' = sleft /\ Mapped'
      BY <1>16 DEF SendFileData, PutsSend, Mapped, serverVars
    <2>3. Len(c2s) + left = sleft /\ left \in Nat  BY <1>16 DEF SendFileData, PutsSend, Typing, TypeOK
    <2>4. Len(c2s') + left' = sleft'  BY <1>3, <2>1, <2>2, <2>3
    <2> QED
      BY <2>1, <2>2, <2>4 DEF Prompt, WaitText, PutsResp, PutsSend, PutsReply, GetsResp, GetsRecv
  <1>17. CASE SendFileEnd
    <2>1. /\ Together' /\ Len(c2s') = Len(c2s) + 1 /\ s2c' = <<>> /\ DataEnd(c2s')
      BY <1>15, <1>17 DEF SendFileEnd
    <2>2. cpc' = "putsReply" /\ sleft' = sleft /\ Mapped'
      BY <1>17 DEF SendFileEnd, PutsSend, Mapped, serverVars
    <2>3. Len(c2s) + left = sleft /\ left \in Nat  BY <1>17 DEF SendFileEnd, PutsSend, Typing, TypeOK
    <2>4. Len(c2s') <= sleft' + 1  BY <1>3, <2>1, <2>2, <2>3
    <2> QED
      BY <2>1, <2>2, <2>4 DEF Prompt, WaitText, PutsResp, PutsSend, PutsReply, GetsResp, GetsRecv
  <1>18. ASSUME NEW offset \in 0..MaxBlocks, RecvGetsResp(offset) PROVE Together' /\ Phases'
    <2>1. s2c # <<>> /\ s2c' = Tail(s2c) /\ cpc' = "getsRecv"
      BY <1>18 DEF RecvGetsResp, Takes
    <2>2. spc = "getsResume" /\ c2s = <<>> /\ Len(s2c) = 1
      BY <1>4, <1>18, <2>1 DEF RecvGetsResp, ClientGets, GetsResp, Asked, Answered, One
    <2>3. s2c' = <<>> /\ Len(s2c') = 0  BY <1>3, <1>4, <2>1, <2>2
    <2>4. c2s' = Sent(c2s, "RESUME_POS", cmd, offset)  BY <1>18 DEF RecvGetsResp, ToServer
    <2>5. UNCHANGED <<cmd, spc, serves>>  BY <1>18 DEF RecvGetsResp, Takes, serverVars
    <2>6. One(c2s', "RESUME_POS")  BY <1>1, <2>2, <2>4, SentShape
    <2>7. \A i \in 1..Len(c2s') : c2s'[i].n = cmd  BY <1>1, <1>2, <2>4, SentOwn
    <2>8. Together'  BY <1>2, <2>3, <2>5, <2>7 DEF Together
    <2> QED
      BY <2>1, <2>2, <2>3, <2>5, <2>6, <2>8
      DEF Prompt, WaitText, PutsResp, PutsSend, PutsReply, GetsResp, GetsRecv
  <1>19. CASE RecvFileData
    <2>1. Together' /\ s2c # <<>>  BY <1>10, <1>19 DEF RecvFileData
    <2>2. cpc' = "getsRecv" /\ s2c' = Tail(s2c) /\ Head(s2c).type = "FILE_DATA"
          /\ UNCHANGED <<c2s, spc>>
      BY <1>19 DEF RecvFileData, Takes, ClientGets, serverVars
    <2>3. \/ spc = "getsSend" /\ c2s = <<>> /\ Data(s2c)
          \/ spc = "request" /\ c2s = <<>> /\ DataEnd(s2c)
      BY <1>19, <2>1 DEF RecvFileData, GetsRecv
    <2>4. \/ spc' = "getsSend" /\ c2s' = <<>> /\ Data(s2c')
          \/ spc' = "request" /\ c2s' = <<>> /\ DataEnd(s2c')
      BY <1>1, <2>1, <2>2, <2>3, TakeShape
    <2> QED
      BY <2>1, <2>2, <2>4 DEF Prompt, WaitText, PutsResp, PutsSend, PutsReply, GetsResp, GetsRecv
  <1>20. CASE RecvEnd
    <2>1. s2c # <<>> /\ Head(s2c).type # "FILE_DATA"  BY <1>20 DEF RecvEnd, Takes, ClientGets
    <2>2. \/ c2s = <<>> /\ Data(s2c)
          \/ spc = "request" /\ c2s = <<>> /\ DataEnd(s2c)
      BY <1>20, <2>1 DEF RecvEnd, GetsRecv
    <2>3. Answered  BY <1>1, <2>1, <2>2, TakeShape DEF Answered
    <2> QED  BY <1>11, <1>20, <2>3 DEF RecvEnd
  <1> QED
    BY <1>6, <1>7, <1>8, <1>9, <1>12, <1>13, <1>14, <1>16, <1>17, <1>18, <1>19, <1>20
    DEF User, ClientStep

LEMMA PhaseWorker ==
    ASSUME Typing, Together, Phases, link = "up", Worker
    PROVE  Behind' \/ (Together' /\ Phases')
  <1> USE DEF Phases, Present
  <1>1. c2s \in Seq(Packets(FromClient)) /\ s2c \in Seq(Packets(FromServer))  BY DEF Typing, TypeOK
  <1>2. /\ \A i \in 1..Len(c2s) : c2s[i].n = cmd
        /\ \A i \in 1..Len(s2c) : s2c[i].n = cmd
        /\ spc # "request" => serves = cmd
    BY DEF Together
  <1>3. /\ c2s = <<>> <=> Len(c2s) = 0
        /\ s2c = <<>> <=> Len(s2c) = 0
        /\ Len(c2s) \in Nat /\ Len(s2c) \in Nat
    BY <1>1, EmptyLen
  <1>4. c2s # <<>> => /\ Head(c2s) = c2s[1] /\ Head(c2s).n = cmd
                      /\ Len(c2s) = 1 <=> Tail(c2s) = <<>>
                      /\ Len(Tail(c2s)) = Len(c2s) - 1
                      /\ \A i \in 1..Len(Tail(c2s)) : Tail(c2s)[i].n = cmd
    BY <1>1, <1>2, TakeShape, TakeOwn
  <1>5. cpc \in ClientPcs  BY DEF Typing, TypeOK
  \* A request is read and, perhaps, answered.
  <1>6. ASSUME NEW type \in Requests, Dispatch(type)
        PROVE  /\ Asked(type) /\ c2s' = <<>> /\ serves' = cmd
               /\ cpc = CASE type = "SIMPLE" -> "waitText" [] type = "PUTS_REQ" -> "putsResp"
                          [] type = "GETS_REQ" -> "getsResp"
               /\ type = "PUTS_REQ" => Head(c2s).number = left
               /\ cpc' = cpc /\ cmd' = cmd /\ left' = left
    <2>1. /\ spc = "request" /\ c2s # <<>> /\ Head(c2s).type = type /\ c2s' = Tail(c2s)
          /\ serves' = Head(c2s).n /\ cpc' = cpc /\ cmd' = cmd /\ left' = left
      BY <1>6 DEF Dispatch, ServerGets, clientVars
    <2>2. \/ cpc = "waitText" /\ Asked("SIMPLE")
          \/ cpc = "putsResp" /\ Asked("PUTS_REQ") /\ c2s[1].number = left
          \/ cpc = "getsResp" /\ Asked("GETS_REQ")
      BY <1>5, <2>1
      DEF ClientPcs, Answered, Mapped,
          Prompt, WaitText, PutsResp, PutsSend, PutsReply, GetsResp, GetsRecv
    <2>3. Asked(type)  BY <1>4, <2>1, <2>2 DEF Asked, One
    <2>4. c2s' = <<>> /\ serves' = cmd  BY <1>4, <2>1, <2>3 DEF Asked, One
    <2> QED  BY <1>4, <2>1, <2>2, <2>3, <2>4 DEF Asked, One
  <1>7. ASSUME NEW type, NEW k, s2c = <<>>, s2c' = Sent(s2c, type, cmd, k), c2s' = <<>>, cmd' = cmd,
               serves' = cmd
        PROVE  /\ Together' /\ Len(s2c') = 1 /\ s2c'[1].type = type /\ s2c'[1].number = k
    <2>0. s2c' = Sent(s2c, type, cmd, k)  BY <1>7
    <2>1. /\ Len(s2c') = Len(s2c) + 1 /\ s2c'[Len(s2c) + 1].type = type
          /\ s2c'[Len(s2c) + 1].number = k
      BY <1>1, <2>0, SentAt
    <2>2. \A i \in 1..Len(s2c') : s2c'[i].n = cmd  BY <1>1, <1>2, <2>0, SentOwn
    <2>3. Len(c2s') = 0  BY <1>7
    <2>4. Together'  BY <1>7, <2>2, <2>3 DEF Together
    <2> QED  BY <1>3, <1>7, <2>1, <2>4
  <1>8. CASE Simple
    <2>1. Dispatch("SIMPLE") /\ spc' = spc  BY <1>8 DEF Simple
    <2>2. /\ Asked("SIMPLE") /\ c2s' = <<>> /\ serves' = cmd /\ cpc' = "waitText" /\ cmd' = cmd
      BY <1>6, <2>1 DEF Requests
    <2>3. PICK type \in {"ACK", "ERROR"} : s2c' = Sent(s2c, type, cmd, 0)
      BY <1>4, <1>8, <2>2 DEF Simple, Answers, Asked, One, Dispatch, ServerGets
    <2>4. Together' /\ Answered'
      BY <1>7, <2>1, <2>2, <2>3 DEF Asked, Answered
    <2> QED
      BY <2>2, <2>4 DEF Prompt, WaitText, PutsResp, PutsSend, PutsReply, GetsResp, GetsRecv
  <1>9. CASE Refuse
    <2>1. PICK type \in {"PUTS_REQ", "GETS_REQ"} : Dispatch(type)  BY <1>9 DEF Refuse
    <2>2. /\ Asked(type) /\ c2s' = <<>> /\ serves' = cmd /\ cmd' = cmd
          /\ cpc' \in {"putsResp", "getsResp"}
      BY <1>6, <2>1 DEF Requests
    <2>3. s2c' = Sent(s2c, "ERROR", cmd, 0) /\ spc' = spc
      BY <1>4, <1>9, <2>1 DEF Refuse, Answers, Dispatch, ServerGets
    <2>4. Together' /\ Answered' /\ s2c'[1].type = "ERROR"
      BY <1>7, <2>2, <2>3 DEF Asked, Answered
    <2> QED
      BY <2>2, <2>4 DEF Prompt, WaitText, PutsResp, PutsSend, PutsReply, GetsResp, GetsRecv
  <1>10. CASE OpenForPuts
    <2>1. Dispatch("PUTS_REQ") /\ sleft' = Head(c2s).number /\ spc' = "putsOpen" /\ s2c' = s2c
      BY <1>10 DEF OpenForPuts
    <2>2. /\ Asked("PUTS_REQ") /\ c2s' = <<>> /\ serves' = cmd /\ cmd' = cmd
          /\ cpc' = "putsResp" /\ left' = left /\ Head(c2s).number = left
      BY <1>6, <2>1 DEF Requests
    <2>3. s2c' = <<>> /\ Len(s2c') = 0 /\ Len(c2s') = 0
      BY <1>3, <2>1, <2>2 DEF Asked
    <2>4. Together'  BY <2>2, <2>3 DEF Together
    <2> QED
      BY <2>1, <2>2, <2>3, <2>4
      DEF Prompt, WaitText, PutsResp, PutsSend, PutsReply, GetsResp, GetsRecv
  <1>11. ASSUME NEW k \in 0..MaxBlocks, SendGetsResp(k) PROVE Together' /\ Phases'
    <2>1. Dispatch("GETS_REQ") /\ spc' = "getsResume"  BY <1>11 DEF SendGetsResp
    <2>2. /\ Asked("GETS_REQ") /\ c2s' = <<>> /\ serves' = cmd /\ cmd' = cmd /\ cpc' = "getsResp"
      BY <1>6, <2>1 DEF Requests
    <2>3. s2c' = Sent(s2c, "GETS_RESP", cmd, k)
      BY <1>4, <1>11, <2>1 DEF SendGetsResp, Answers, Dispatch, ServerGets
    <2>4. Together' /\ One(s2c', "GETS_RESP")
      BY <1>7, <2>2, <2>3 DEF Asked, One
    <2> QED
      BY <2>1, <2>2, <2>4 DEF Prompt, WaitText, PutsResp, PutsSend, PutsReply, GetsResp, GetsRecv
  \* The transfer of puts.
  <1>12. ASSUME NEW k \in 0..MaxBlocks, SendPutsResp(k) PROVE Together' /\ Phases'
    <2>1. /\ spc = "putsOpen" /\ k <= sleft /\ s2c' = Sent(s2c, "PUTS_RESP", serves, k)
          /\ sleft' = sleft - k /\ Mapped'
          /\ UNCHANGED <<link, c2s, cpc, cmd, left, serves>>
      BY <1>12 DEF SendPutsResp, ToClient, Mapped, clientVars
    <2>2. cpc = "putsResp" /\ c2s = <<>> /\ s2c = <<>> /\ sleft = left /\ serves = cmd
      BY <1>2, <1>5, <2>1
      DEF ClientPcs, Asked, Answered, Mapped,
          Prompt, WaitText, PutsResp, PutsSend, PutsReply, GetsResp, GetsRecv
    <2>3. /\ Together' /\ Len(s2c') = 1 /\ s2c'[1].type = "PUTS_RESP" /\ s2c'[1].number = k
      BY <1>7, <2>1, <2>2
    <2>4. sleft' + s2c'[1].number = left'
      BY <2>1, <2>2, <2>3, SessionAssumption DEF Typing, TypeOK
    <2> QED
      BY <2>1, <2>2, <2>3, <2>4
      DEF One, Prompt, WaitText, PutsResp, PutsSend, PutsReply, GetsResp, GetsRecv
  <1>13. CASE MapFile
    <2>1. /\ Mapped /\ Mapped' /\ spc # "request"
          /\ UNCHANGED <<c2s, s2c, cpc, cmd, left, serves, sleft>>
      BY <1>13 DEF MapFile, Mapped, clientVars
    <2>2. Together'  BY <1>2, <2>1 DEF Together
    <2> QED
      BY <1>13, <2>1, <2>2
      DEF MapFile, Asked, Answered,
          Prompt, WaitText, PutsResp, PutsSend, PutsReply, GetsResp, GetsRecv
  <1>14. CASE MapFails  BY <1>14 DEF MapFails, Behind
  <1>15. ASSUME spc = "putsRecv", c2s # <<>>
         PROVE  /\ s2c = <<>> /\ serves = cmd
                /\ \/ cpc = "putsSend" /\ Data(c2s) /\ Len(c2s) + left = sleft
                   \/ cpc = "putsReply" /\ DataEnd(c2s) /\ Len(c2s) <= sleft + 1
    BY <1>2, <1>5, <1>15
    DEF ClientPcs, Asked, Answered,
        Prompt, WaitText, PutsResp, PutsSend, PutsReply, GetsResp, GetsRecv
  <1>16. CASE StoreBlock
    <2>1. /\ spc = "putsRecv" /\ c2s # <<>> /\ Head(c2s).type = "FILE_DATA" /\ sleft > 0
          /\ c2s' = Tail(c2s) /\ sleft' = sleft - 1
          /\ UNCHANGED <<s2c, cpc, cmd, left, spc, serves>>
      BY <1>16 DEF StoreBlock, Fits, ServerGets, clientVars
    <2>2. Together'  BY <1>2, <1>4, <2>1 DEF Together
    <2>3. left \in Nat /\ sleft \in Nat  BY DEF Typing, TypeOK
    <2>4. /\ s2c' = <<>> /\ Mapped'
          /\ \/ cpc' = "putsSend" /\ Data(c2s') /\ Len(c2s') + left' = sleft'
             \/ cpc' = "putsReply" /\ DataEnd(c2s') /\ Len(c2s') <= sleft' + 1
      <3>1. Data(c2s) => Data(c2s')  BY <1>1, <2>1, TakeShape
      <3>2. DataEnd(c2s) => DataEnd(c2s')  BY <1>1, <2>1, TakeShape
      <3>3. Len(c2s') = Len(c2s) - 1  BY <1>4, <2>1
      <3>4. s2c' = <<>> /\ Mapped'  BY <1>15, <2>1 DEF Mapped
      <3> QED  BY <1>3, <1>15, <2>1, <2>3, <3>1, <3>2, <3>3, <3>4
    <2> QED
      BY <2>2, <2>4 DEF Prompt, WaitText, PutsResp, PutsSend, PutsReply, GetsResp, GetsRecv
  <1>17. CASE EndPuts
    <2>1. /\ spc = "putsRecv" /\ c2s # <<>> /\ Head(c2s).type = "FILE_END" /\ c2s' = Tail(c2s)
          /\ spc' = "request" /\ UNCHANGED <<cpc, cmd, serves>>
      BY <1>17 DEF EndPuts, ServerGets, clientVars
    <2>2. cpc = "putsReply" /\ Len(c2s) = 1  BY <1>1, <1>15, <2>1, TakeShape
    <2>3. PICK type \in {"ACK", "ERROR"} : s2c' = Sent(s2c, type, serves, 0)
      BY <1>17 DEF EndPuts, ToClient
    <2>4. c2s' = <<>> /\ s2c = <<>> /\ serves = cmd  BY <1>4, <1>15, <2>1, <2>2
    <2>5. Together' /\ Answered'  BY <1>7, <2>1, <2>3, <2>4 DEF Answered
    <2> QED
      BY <2>1, <2>2, <2>5 DEF Prompt, WaitText, PutsResp, PutsSend, PutsReply, GetsResp, GetsRecv
  \* The transfer of gets.
  <1>18. CASE RecvResumePos
    <2>1. /\ spc = "getsResume" /\ c2s # <<>> /\ c2s' = Tail(c2s) /\ spc' = "getsSend"
          /\ UNCHANGED <<s2c, cpc, cmd, serves>>
      BY <1>18 DEF RecvResumePos, ServerGets, clientVars
    <2>2. cpc = "getsRecv" /\ Len(c2s) = 1 /\ s2c = <<>> /\ serves = cmd
      BY <1>2, <1>5, <2>1
      DEF ClientPcs, Asked, Answered, One, Mapped,
          Prompt, WaitText, PutsResp, PutsSend, PutsReply, GetsResp, GetsRecv
    <2>3. c2s' = <<>> /\ Len(c2s') = 0 /\ Len(s2c') = 0  BY <1>3, <1>4, <2>1, <2>2
    <2>4. Len(c2s') = 0 /\ Len(s2c') = 0 /\ serves' = cmd'  BY <2>1, <2>2, <2>3
    <2>5. Together'  BY <2>4 DEF Together
    <2>6. Data(s2c')  BY <2>4 DEF Data
    <2> QED
      BY <2>1, <2>2, <2>3, <2>5, <2>6
      DEF Prompt, WaitText, PutsResp, PutsSend, PutsReply, GetsResp, GetsRecv
  <1>19. CASE SendBlock \/ EndGets
    <2>1. PICK type \in {"FILE_DATA", "FILE_END"} :
             /\ s2c' = Sent(s2c, type, serves, 0)
             /\ spc' = IF type = "FILE_DATA" THEN "getsSend" ELSE "request"
      BY <1>19 DEF SendBlock, EndGets, ToClient
    <2>2. spc = "getsSend" /\ UNCHANGED <<c2s, cpc, cmd, serves>>
      BY <1>19 DEF SendBlock, EndGets, clientVars
    <2>3. cpc = "getsRecv" /\ c2s = <<>> /\ Data(s2c) /\ serves = cmd
      BY <1>2, <1>5, <2>2
      DEF ClientPcs, Asked, Answered, Mapped,
          Prompt, WaitText, PutsResp, PutsSend, PutsReply, GetsResp, GetsRecv
    <2>4. IF type = "FILE_DATA" THEN Data(s2c') ELSE DataEnd(s2c')
      BY <1>1, <2>1, <2>3, SentShape
    <2>5. \A i \in 1..Len(s2c') : s2c'[i].n = cmd  BY <1>1, <1>2, <2>1, <2>3, SentOwn
    <2>6. Together'  BY <1>2, <2>2, <2>3, <2>5 DEF Together
    <2> QED
      BY <2>1, <2>2, <2>3, <2>4, <2>6
      DEF Prompt, WaitText, PutsResp, PutsSend, PutsReply, GetsResp, GetsRecv
  <1>20. CASE Unknown \/ PutsOutOfPlace \/ NoResumePos \/ SendfileRunsDry \/ WorkerIoFails
              \/ WorkerCallocFails
    BY <1>20
    DEF Unknown, PutsOutOfPlace, NoResumePos, SendfileRunsDry, WorkerIoFails, WorkerCallocFails,
        Close, Behind
  <1> QED
    BY <1>8, <1>9, <1>10, <1>11, <1>12, <1>13, <1>14, <1>16, <1>17, <1>18, <1>19, <1>20 DEF Worker

LEMMA PhaseNext == PhaseInv /\ [Next]_vars => PhaseInv'
  <1> SUFFICES ASSUME PhaseInv, [Next]_vars PROVE PhaseInv'  OBVIOUS
  <1>1. Typing'  BY TypingNext DEF PhaseInv
  <1>2. CASE Behind
    <2>1. Behind'
      BY <1>2
      DEF Behind, Next, User, ClientStep, Worker, vars, clientVars, serverVars, Request, Takes,
          Dispatch, Close, GiveSimple, GivePuts, GiveGets, Exit, RecvText, RecvRefusal,
          RecvPutsResp, SendFileData, SendFileEnd, LocalReadFails, RecvGetsResp, LocalOpenFails,
          RecvFileData, LocalWriteFails, RecvEnd, ClientIoFails, LinkBreaks, Simple, Refuse,
          Unknown, OpenForPuts, SendPutsResp, MapFile, MapFails, StoreBlock, EndPuts,
          PutsOutOfPlace, SendGetsResp, RecvResumePos, NoResumePos, SendBlock, SendfileRunsDry,
          EndGets, WorkerIoFails, ClientCallocFails, RecvGarbage, WorkerCallocFails
    <2> QED  BY <1>1, <2>1 DEF PhaseInv
  <1>3. CASE ~Behind
    <2>1. Typing /\ Together /\ Phases /\ link = "up"
      BY <1>3 DEF PhaseInv, Behind, Typing, TypeOK
    <2>2. CASE User \/ ClientStep  BY <1>1, <2>1, <2>2, PhaseClient DEF PhaseInv
    <2>3. CASE Worker  BY <1>1, <2>1, <2>3, PhaseWorker DEF PhaseInv
    <2>4. CASE LinkBreaks  BY <1>1, <2>4 DEF LinkBreaks, PhaseInv, Behind
    <2>6. CASE RecvGarbage  BY <1>3, <2>1, <2>6 DEF RecvGarbage, Behind, Typing, Garbage
    <2>5. CASE UNCHANGED vars
      <3>1. UNCHANGED <<link, c2s, s2c, cpc, cmd, left, spc, serves, sleft, strayed>>
        BY <2>5 DEF vars, clientVars, serverVars
      <3>2. Together'  BY <2>1, <3>1 DEF Together
      <3>3. Phases'
        BY <2>1, <3>1
        DEF Phases, Present, Prompt, WaitText, PutsResp, PutsSend, PutsReply, GetsResp, GetsRecv,
            Asked, Answered, Mapped
      <3> QED  BY <1>1, <3>2, <3>3 DEF PhaseInv
    <2> QED  BY <2>2, <2>3, <2>4, <2>5, <2>6 DEF Next
  <1> QED  BY <1>2, <1>3

\* Client and server keep in step on a live connection until a file operation fails: the
\* answer that is read is the answer to the command given, and the prompt finds the
\* connection drained.
THEOREM KeepsStep == Spec => []InStep
  <1>1. PhaseInv => InStep
    BY DEF PhaseInv, Behind, Together, Phases, Prompt, InStep
  <1> QED  BY <1>1, PhaseInit, PhaseNext, PTL DEF Spec

================================================================================
