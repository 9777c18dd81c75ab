-------------------------------- MODULE Session --------------------------------
(***************************************************************************)
(* One client process and the worker that serves it, over one connection,  *)
(* with every command there is: the loop of client.c and process_command   *)
(* on one side, handle_request and dispatch_command on the other.          *)
(*                                                                         *)
(* Upload and Download look at the files of one command; this module looks *)
(* at who speaks next, when any command follows any other and a failed one *)
(* leaves packets behind.  What a file holds and how far it was received   *)
(* before is left open, so a resume point is any number of blocks that     *)
(* fits.  pwd, cd, ls, mkdir and rm are alike here: one packet each way.   *)
(*                                                                         *)
(* Each packet carries n, the number of the command it was sent for.  The  *)
(* program has no such number; only the properties look at it.             *)
(***************************************************************************)
EXTENDS Naturals, Sequences, FiniteSets

CONSTANTS
    MaxBlocks,    \* bound: blocks of a file
    MaxCommands,  \* bound: commands the user gives on the connection
    Window        \* how many blocks the connection holds; the other packets are small

ASSUME SessionAssumption == MaxBlocks \in Nat /\ MaxCommands \in Nat /\ Window \in Nat \ {0}

VARIABLES
    link,      \* the connection: "up" or "broken"
    c2s, s2c,  \* packets in flight, each direction first in first out
    cpc,       \* where the client is
    cmd,       \* the number of its command, counted from 1
    left,      \* puts: blocks it has still to send
    garbled,   \* what it reads next is the rest of a packet, not a header
    spc,       \* where the worker is
    serves,    \* the command it took last in handle_request
    sleft,     \* puts, gets: blocks it has still to receive or to send
    strayed    \* history: a failure has left a transfer or a packet half way

clientVars == <<cpc, cmd, left, garbled>>
serverVars == <<spc, serves, sleft>>
vars       == <<link, c2s, s2c, clientVars, serverVars, strayed>>

ClientPcs == {"prompt", "waitText", "putsResp", "putsSend", "putsReply", "getsResp", "getsRecv", "exited"}
ServerPcs == {"request", "putsOpen", "putsMap", "putsRecv", "getsResume", "getsSend", "gone"}
Requests  == {"SIMPLE", "PUTS_REQ", "GETS_REQ"}
FromClient == Requests \cup {"RESUME_POS", "FILE_DATA", "FILE_END"}
FromServer == {"ACK", "ERROR", "PUTS_RESP", "GETS_RESP", "FILE_DATA", "FILE_END"}

\* number is the size or the offset in the payload.
Packets(types) == [type : types, n : 1..MaxCommands, number : 0..MaxBlocks]

\* The worker has just been given the connection.
Init == /\ link = "up"
        /\ c2s = <<>> /\ s2c = <<>>
        /\ cpc = "prompt" /\ cmd = 0 /\ left = 0 /\ garbled = FALSE
        /\ spc = "request" /\ serves = 0 /\ sleft = 0
        /\ strayed = FALSE

\* What is sent into a broken connection reaches nobody; the sender may not notice.
Sent(queue, type, n, number) ==
    IF link = "up" THEN Append(queue, [type |-> type, n |-> n, number |-> number]) ELSE queue
\* send blocks as long as a living connection is full.
Room(queue) ==
    link = "up" => Cardinality({i \in 1..Len(queue) : queue[i].type = "FILE_DATA"}) < Window

ToServer(type, number) == c2s' = Sent(c2s, type, cmd, number)
ToClient(type, number) == s2c' = Sent(s2c, type, serves, number)

ServerGets(type) == c2s # <<>> /\ Head(c2s).type = type
ClientGets(type) == s2c # <<>> /\ Head(s2c).type = type

--------------------------------------------------------------------------------
(* The client.  A line that is empty or names no command changes nothing, and so *)
(* does puts of a file that cannot be opened.                                    *)

\* process_command sends the request packet of the next command.
Request(type, number) ==
    /\ cpc = "prompt" /\ cmd < MaxCommands
    /\ cmd' = cmd + 1
    /\ c2s' = Sent(c2s, type, cmd + 1, number)
    /\ UNCHANGED <<link, s2c, garbled, serverVars, strayed>>

GiveSimple == Request("SIMPLE", 0) /\ cpc' = "waitText" /\ UNCHANGED left

GivePuts(size) == Request("PUTS_REQ", size) /\ cpc' = "putsResp" /\ left' = size

GiveGets == Request("GETS_REQ", 0) /\ cpc' = "getsResp" /\ UNCHANGED left

\* A handler of the client takes one packet.
Takes == /\ s2c # <<>> /\ ~garbled
         /\ s2c' = Tail(s2c)
         /\ UNCHANGED <<link, cmd, garbled, serverVars>>

\* recv_text_response, also at the end of puts: ACK, ERROR or what does not belong there.
RecvText == /\ cpc \in {"waitText", "putsReply"}
            /\ Takes
            /\ cpc' = "prompt"
            /\ UNCHANGED <<c2s, left, strayed>>

\* CMD_ERROR, or a packet that is no answer to the request.
RecvRefusal == /\ \/ cpc = "putsResp" /\ ~ClientGets("PUTS_RESP")
                  \/ cpc = "getsResp" /\ ~ClientGets("GETS_RESP")
               /\ Takes
               /\ cpc' = "prompt"
               /\ UNCHANGED <<c2s, left, strayed>>

\* Fault: the offset is not compared with the size.
RecvPutsRespUnchecked == /\ cpc = "putsResp" /\ ClientGets("PUTS_RESP")
                         /\ Takes
                         /\ left' = left - Head(s2c).number
                         /\ cpc' = "putsSend"
                         /\ UNCHANGED <<c2s, strayed>>

RecvPutsResp == /\ cpc = "putsResp" /\ ClientGets("PUTS_RESP")
                /\ Takes
                /\ LET offset == Head(s2c).number
                   IN  left' = IF offset > left THEN left ELSE left - offset
                /\ cpc' = "putsSend"
                /\ UNCHANGED <<c2s, strayed>>

\* The last block is longer than announced if the local file has grown: number is 1.
SendFileData(excess) == /\ cpc = "putsSend" /\ left > 0 /\ Room(c2s)
                        /\ excess = 1 => left = 1
                        /\ ToServer("FILE_DATA", excess)
                        /\ left' = left - 1
                        /\ UNCHANGED <<link, s2c, cpc, cmd, garbled, serverVars, strayed>>

\* Fault: the client does not wait for the final reply.
SendFileEndNoWait == /\ cpc = "putsSend"
                     /\ ToServer("FILE_END", 0)
                     /\ cpc' = "prompt"
                     /\ UNCHANGED <<link, s2c, cmd, left, garbled, serverVars, strayed>>

\* All is sent, or read has come to the end of a file that was cut meanwhile.
SendFileEnd == /\ cpc = "putsSend"
               /\ ToServer("FILE_END", 0)
               /\ cpc' = "putsReply"
               /\ UNCHANGED <<link, s2c, cmd, left, garbled, serverVars, strayed>>

\* lseek or read fails: handle_puts returns without FILE_END.
LocalReadFails == /\ cpc = "putsSend"
                  /\ cpc' = "prompt"
                  /\ strayed' = TRUE
                  /\ UNCHANGED <<link, c2s, s2c, cmd, left, garbled, serverVars>>

RecvGetsResp(offset) == /\ cpc = "getsResp" /\ ClientGets("GETS_RESP")
                        /\ offset <= Head(s2c).number
                        /\ Takes
                        /\ ToServer("RESUME_POS", offset)
                        /\ cpc' = "getsRecv"
                        /\ UNCHANGED <<left, strayed>>

\* open, ftruncate or lseek fails: handle_gets returns without RESUME_POS.
LocalOpenFails == /\ cpc = "getsResp" /\ ClientGets("GETS_RESP")
                  /\ Takes
                  /\ cpc' = "prompt"
                  /\ strayed' = TRUE
                  /\ UNCHANGED <<c2s, left>>

RecvFileData == /\ cpc = "getsRecv" /\ ClientGets("FILE_DATA")
                /\ Takes
                /\ UNCHANGED <<c2s, cpc, left, strayed>>

\* write_n fails: handle_gets returns while the stream goes on.
LocalWriteFails == /\ cpc = "getsRecv" /\ ClientGets("FILE_DATA")
                   /\ Takes
                   /\ cpc' = "prompt"
                   /\ strayed' = TRUE
                   /\ UNCHANGED <<c2s, left>>

\* FILE_END, CMD_ERROR, or a packet of another kind.
RecvEnd == /\ cpc = "getsRecv" /\ ~ClientGets("FILE_DATA")
           /\ Takes
           /\ cpc' = "prompt"
           /\ UNCHANGED <<c2s, left, strayed>>

\* A send or recv fails; the command loop goes on all the same.
ClientIoFails == /\ cpc \notin {"prompt", "exited"} /\ link = "broken"
                 /\ cpc' = "prompt"
                 /\ UNCHANGED <<link, c2s, s2c, cmd, left, garbled, serverVars, strayed>>

\* recv_packet fails on a living link for want of memory: the header is read, the payload
\* is not.
ClientCallocFails == /\ cpc \in {"waitText", "putsResp", "putsReply", "getsResp", "getsRecv"}
                     /\ s2c # <<>> /\ ~garbled /\ Head(s2c).type # "FILE_END"
                     /\ s2c' = Tail(s2c)
                     /\ cpc' = "prompt"
                     /\ garbled' = TRUE /\ strayed' = TRUE
                     /\ UNCHANGED <<link, c2s, cmd, left, serverVars>>

\* The header's worth of bytes that recv_packet then takes is no header.  It may leave more
\* of that payload, end with it, or reach into the next packet.
RecvGarbage == /\ garbled /\ cpc \notin {"prompt", "exited"}
               /\ \/ s2c' = s2c /\ garbled' \in BOOLEAN
                  \/ s2c # <<>> /\ s2c' = Tail(s2c) /\ garbled' = TRUE
               /\ cpc' = "prompt"
               /\ UNCHANGED <<link, c2s, cmd, left, serverVars, strayed>>

\* quit, exit, end of input, or the client is killed.
Exit == /\ cpc # "exited"
        /\ cpc' = "exited"
        /\ link' = "broken"
        /\ UNCHANGED <<c2s, s2c, cmd, left, garbled, serverVars, strayed>>

LinkBreaks == /\ link = "up"
              /\ link' = "broken"
              /\ UNCHANGED <<c2s, s2c, clientVars, serverVars, strayed>>

--------------------------------------------------------------------------------
(* The worker. *)

\* handle_request returns and the connection is closed.
Close == spc' = "gone" /\ link' = "broken" /\ c2s' = <<>>

\* A packet of this type is read in the loop of handle_request.
Dispatch(type) == /\ spc = "request" /\ ServerGets(type)
                  /\ c2s' = Tail(c2s)
                  /\ serves' = Head(c2s).n
                  /\ UNCHANGED <<link, clientVars, strayed>>

\* The one packet that answers the command just read.
Answers(type, number) == s2c' = Sent(s2c, type, Head(c2s).n, number)

Simple == /\ Dispatch("SIMPLE")
          /\ Answers("ACK", 0) \/ Answers("ERROR", 0)
          /\ UNCHANGED <<spc, sleft>>

\* puts or gets is refused: malformed name, or the file cannot be opened.
Refuse == /\ Dispatch("PUTS_REQ") \/ Dispatch("GETS_REQ")
          /\ Answers("ERROR", 0)
          /\ UNCHANGED <<spc, sleft>>

\* A packet that is no request: it is answered, and the session is over.
Unknown == /\ spc = "request" /\ c2s # <<>> /\ Head(c2s).type \notin Requests
           /\ serves' = Head(c2s).n
           /\ Answers("ERROR", 0)
           /\ Close
           /\ UNCHANGED <<clientVars, sleft, strayed>>

OpenForPuts == /\ Dispatch("PUTS_REQ")
               /\ sleft' = Head(c2s).number
               /\ spc' = "putsOpen"
               /\ UNCHANGED s2c

\* The resume point; an upload of nothing is not mapped.
SendPutsResp(offset) == /\ spc = "putsOpen" /\ offset <= sleft
                        /\ ToClient("PUTS_RESP", offset)
                        /\ sleft' = sleft - offset
                        /\ spc' = IF sleft > 0 THEN "putsMap" ELSE "putsRecv"
                        /\ UNCHANGED <<link, c2s, clientVars, serves, strayed>>

MapFile == /\ spc = "putsMap"
           /\ spc' = "putsRecv"
           /\ UNCHANGED <<link, c2s, s2c, clientVars, serves, sleft, strayed>>

\* ftruncate or mmap fails: an error reply, and back to handle_request.
MapFails == /\ spc = "putsMap"
            /\ ToClient("ERROR", 0)
            /\ spc' = "request"
            /\ strayed' = TRUE
            /\ UNCHANGED <<link, c2s, clientVars, serves, sleft>>

\* A block that fits in what was announced.
Fits == ServerGets("FILE_DATA") /\ sleft > 0 /\ Head(c2s).number = 0

StoreBlock == /\ spc = "putsRecv" /\ Fits
              /\ c2s' = Tail(c2s)
              /\ sleft' = sleft - 1
              /\ UNCHANGED <<link, s2c, clientVars, spc, serves, strayed>>

\* FILE_END: success if everything has come.
EndPuts == /\ spc = "putsRecv" /\ ServerGets("FILE_END")
           /\ c2s' = Tail(c2s)
           /\ ToClient(IF sleft = 0 THEN "ACK" ELSE "ERROR", 0)
           /\ spc' = "request"
           /\ UNCHANGED <<link, clientVars, serves, sleft, strayed>>

\* Fault: a packet of another kind is skipped.
PutsOutOfPlaceSkips == /\ spc = "putsRecv" /\ c2s # <<>> /\ ~ServerGets("FILE_END")
                       /\ ~Fits
                       /\ c2s' = Tail(c2s)
                       /\ UNCHANGED <<link, s2c, clientVars, serverVars, strayed>>

\* A packet of another kind, or a block too many: error reply, should_close.
PutsOutOfPlace == /\ spc = "putsRecv" /\ c2s # <<>> /\ ~ServerGets("FILE_END")
                  /\ ~Fits
                  /\ ToClient("ERROR", 0)
                  /\ Close
                  /\ UNCHANGED <<clientVars, serves, sleft, strayed>>

SendGetsResp(size) == /\ Dispatch("GETS_REQ")
                      /\ Answers("GETS_RESP", size)
                      /\ sleft' = size
                      /\ spc' = "getsResume"

RecvResumePos == /\ spc = "getsResume" /\ ServerGets("RESUME_POS")
                 /\ LET offset == Head(c2s).number
                    IN  sleft' = IF offset > sleft THEN sleft ELSE sleft - offset
                 /\ c2s' = Tail(c2s)
                 /\ spc' = "getsSend"
                 /\ UNCHANGED <<link, s2c, clientVars, serves, strayed>>

\* Fault: another packet is skipped and RESUME_POS waited for again.
NoResumePosSkips == /\ spc = "getsResume" /\ c2s # <<>> /\ ~ServerGets("RESUME_POS")
                    /\ c2s' = Tail(c2s)
                    /\ UNCHANGED <<link, s2c, clientVars, serverVars, strayed>>

\* Another packet in its place: should_close, and not a word to the client.
NoResumePos == /\ spc = "getsResume" /\ c2s # <<>> /\ ~ServerGets("RESUME_POS")
               /\ Close
               /\ UNCHANGED <<s2c, clientVars, serves, sleft, strayed>>

SendBlock == /\ spc = "getsSend" /\ sleft > 0 /\ Room(s2c)
             /\ ToClient("FILE_DATA", 0)
             /\ sleft' = sleft - 1
             /\ UNCHANGED <<link, c2s, clientVars, spc, serves, strayed>>

\* The file was cut meanwhile and sendfile has nothing to send.
SendfileRunsDry == /\ spc = "getsSend" /\ sleft > 0
                   /\ Close
                   /\ UNCHANGED <<s2c, clientVars, serves, sleft, strayed>>

EndGets == /\ spc = "getsSend" /\ sleft = 0
           /\ ToClient("FILE_END", 0)
           /\ spc' = "request"
           /\ UNCHANGED <<link, c2s, clientVars, serves, sleft, strayed>>

\* Fault: only handle_request looks at the result of recv_packet.
WorkerIoFailsInLoop == /\ spc = "request" /\ link = "broken"
                       /\ Close
                       /\ UNCHANGED <<s2c, clientVars, serves, sleft, strayed>>

\* A send or recv of the worker fails; unread packets are lost with the connection.
WorkerIoFails == /\ spc # "gone" /\ link = "broken"
                 /\ Close
                 /\ UNCHANGED <<s2c, clientVars, serves, sleft, strayed>>

\* recv_packet fails on a living link for want of memory; only handle_puts still answers.
WorkerCallocFails == /\ spc \in {"request", "putsRecv", "getsResume"}
                     /\ c2s # <<>> /\ Head(c2s).type # "FILE_END"
                     /\ IF spc = "putsRecv" THEN ToClient("ERROR", 0) ELSE UNCHANGED s2c
                     /\ Close
                     /\ UNCHANGED <<clientVars, serves, sleft, strayed>>

--------------------------------------------------------------------------------
User == GiveSimple \/ GiveGets \/ Exit \/ \E size \in 0..MaxBlocks : GivePuts(size)

ClientStep == \/ RecvText \/ RecvRefusal \/ RecvPutsResp \/ SendFileEnd
              \/ LocalReadFails \/ LocalOpenFails \/ RecvFileData \/ LocalWriteFails
              \/ RecvEnd \/ ClientIoFails \/ ClientCallocFails
              \/ \E excess \in {0, 1} : SendFileData(excess)
              \/ \E offset \in 0..MaxBlocks : RecvGetsResp(offset)

Worker == \/ Simple \/ Refuse \/ Unknown
          \/ OpenForPuts \/ MapFile \/ MapFails \/ StoreBlock \/ EndPuts \/ PutsOutOfPlace
          \/ RecvResumePos \/ NoResumePos \/ SendBlock \/ SendfileRunsDry \/ EndGets
          \/ WorkerIoFails \/ WorkerCallocFails
          \/ \E k \in 0..MaxBlocks : SendPutsResp(k) \/ SendGetsResp(k)

Next == User \/ ClientStep \/ RecvGarbage \/ Worker \/ LinkBreaks

Spec == Init /\ [][Next]_vars

\* Client and worker go on when they can; the user and the network need not.  Garbage is
\* sure to be as long as a header only when a whole packet comes after it.
FairSpec == /\ Spec
            /\ WF_vars(ClientStep \/ (s2c # <<>> /\ RecvGarbage))
            /\ WF_vars(Worker)

--------------------------------------------------------------------------------
(* Properties. *)

TypeOK == /\ link \in {"up", "broken"}
          /\ c2s \in Seq(Packets(FromClient)) /\ s2c \in Seq(Packets(FromServer))
          /\ cpc \in ClientPcs /\ cmd \in 0..MaxCommands /\ left \in 0..MaxBlocks /\ garbled \in BOOLEAN
          /\ spc \in ServerPcs /\ serves \in 0..MaxCommands /\ sleft \in 0..MaxBlocks
          /\ strayed \in BOOLEAN

\* On a live connection and as long as no file operation has failed in the middle of a
\* transfer and no payload was left unread, whatever is in the connection belongs to the
\* command being run, and when the client reads the next command both sides are back
\* where they started.
InStep == strayed \/ link = "broken" \/
    /\ \A i \in 1..Len(c2s) : c2s[i].n = cmd
    /\ \A i \in 1..Len(s2c) : s2c[i].n = cmd
    /\ cpc = "prompt" => c2s = <<>> /\ s2c = <<>> /\ spc = "request"

Stream == {"FILE_DATA", "FILE_END"}

\* However far the two are out of step, no file ever gets a block of another one: what
\* a transfer takes for its data was sent for that very command.
BlocksGoHome ==
    /\ cpc = "getsRecv" /\ s2c # <<>> /\ Head(s2c).type \in Stream => Head(s2c).n = cmd
    /\ spc = "putsRecv" /\ c2s # <<>> /\ Head(c2s).type \in Stream => Head(c2s).n = serves

\* Every command comes back to the prompt, also when client and worker no longer agree
\* on who speaks next: never do both wait for the other.
CommandsEnd == cpc \notin {"prompt", "exited"} ~> cpc \in {"prompt", "exited"}

\* Wherever the connection ends, the worker gets free for the next client.
WorkerFreed == link = "broken" ~> spc = "gone"
================================================================================
