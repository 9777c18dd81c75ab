------------------------------- MODULE Framing ---------------------------------
(***************************************************************************)
(* Packets over a byte stream: send_n, recv_n, send_packet and recv_packet *)
(* of protocol.c, for one direction of one connection.                     *)
(*                                                                         *)
(* A packet is a header of HeaderSize bytes and 0 to MaxPayload bytes of   *)
(* payload.  write takes and recv returns any number of bytes the socket   *)
(* has room for or holds, at least one.  A byte names the packet and the   *)
(* place it comes from, which is how magic, version and data_len are       *)
(* abstracted: HeaderSize bytes are a header iff they are one packet's     *)
(* header bytes in order, and the header of packet n tells n's data_len.   *)
(* Payload that happens to look like a header is left out.                 *)
(*                                                                         *)
(* EINTR repeats the call and is a stuttering step.  Definitions marked    *)
(* "Fault" are seeded faults; Next uses none of them.                      *)
(***************************************************************************)
EXTENDS Naturals, Sequences

CONSTANTS
    HeaderSize,  \* sizeof(tlv_header_t)
    MaxPayload,  \* MAX_PACKET_PAYLOAD
    Lengths,     \* payload lengths the callers ask for
    Buffer,      \* bytes the socket holds
    MaxPackets   \* bound: calls of send_packet

ASSUME FramingAssumption ==
    /\ HeaderSize \in Nat \ {0} /\ MaxPayload \in Nat
    /\ Lengths \subseteq Nat
    /\ Buffer \in Nat \ {0}
    /\ MaxPackets \in Nat

VARIABLES
    sent,       \* packets whose sending has begun
    calls,      \* calls of send_packet so far
    unsent,     \* what the current send_n still has to write
    payload,    \* the payload send_packet writes after the header
    wire,       \* bytes in the socket
    link,       \* "up" or "broken"
    need,       \* what recv_n is reading: "header" or "payload"
    got,        \* bytes recv_n has read
    header,     \* number of the packet whose header has been read
    delivered,  \* packets recv_packet has returned
    recvFailed  \* some recv_packet has returned -1

senderVars   == <<sent, calls, unsent, payload>>
receiverVars == <<need, got, header, delivered, recvFailed>>
vars         == <<senderVars, wire, link, receiverVars>>

HeaderByte(n, k)  == <<"header", n, k>>
PayloadByte(n, k) == <<"payload", n, k>>
HeaderOf(n)       == [k \in 1..HeaderSize |-> HeaderByte(n, k)]
PayloadOf(n, len) == [k \in 1..len |-> PayloadByte(n, k)]

\* The packet as the callers see it.
Packet(n, bytes) == [id |-> n, payload |-> [k \in 1..Len(bytes) |-> bytes[k][3]]]

Init == /\ sent = <<>>
        /\ calls = 0
        /\ unsent = <<>>
        /\ payload = <<>>
        /\ wire = <<>>
        /\ link = "up"
        /\ need = "header"
        /\ got = <<>>
        /\ header = 0
        /\ delivered = <<>>
        /\ recvFailed = FALSE

--------------------------------------------------------------------------------
(* send_packet. *)

\* A payload that is too long is refused before anything is written.
RefusePacket(len) == /\ calls < MaxPackets /\ unsent = <<>>
                     /\ len > MaxPayload
                     /\ calls' = calls + 1
                     /\ UNCHANGED <<sent, unsent, payload, wire, link, receiverVars>>

\* Fault: a payload that is too long is refused after its header is written.
SendPacketHeaderFirst(len) ==
    /\ calls < MaxPackets /\ unsent = <<>>
    /\ link = "up"
    /\ LET n == Len(sent) + 1
           kept == IF len > MaxPayload THEN 0 ELSE len
       IN  /\ sent' = Append(sent, Packet(n, PayloadOf(n, len)))
           /\ unsent' = HeaderOf(n)
           /\ payload' = PayloadOf(n, kept)
    /\ calls' = calls + 1
    /\ UNCHANGED <<wire, link, receiverVars>>

SendPacket(len) ==
    /\ calls < MaxPackets /\ unsent = <<>>
    /\ len <= MaxPayload
    /\ link = "up"
    /\ LET n == Len(sent) + 1
       IN  /\ sent' = Append(sent, Packet(n, PayloadOf(n, len)))
           /\ unsent' = HeaderOf(n)
           /\ payload' = PayloadOf(n, len)
    /\ calls' = calls + 1
    /\ UNCHANGED <<wire, link, receiverVars>>

\* Fault: a short write is taken for the whole send_n.
WriteOnce(k) == /\ link = "up"
                /\ k <= Len(unsent) /\ Len(wire) + k <= Buffer
                /\ wire' = wire \o SubSeq(unsent, 1, k)
                /\ unsent' = payload
                /\ payload' = <<>>
                /\ UNCHANGED <<sent, calls, link, receiverVars>>

\* One write of send_n, k bytes; after the header comes the payload.
Write(k) == /\ link = "up"
            /\ k <= Len(unsent) /\ Len(wire) + k <= Buffer
            /\ wire' = wire \o SubSeq(unsent, 1, k)
            /\ IF k = Len(unsent)
               THEN unsent' = payload /\ payload' = <<>>
               ELSE unsent' = SubSeq(unsent, k + 1, Len(unsent)) /\ UNCHANGED payload
            /\ UNCHANGED <<sent, calls, link, receiverVars>>

--------------------------------------------------------------------------------
(* recv_packet. *)

Wanted == IF need = "header" THEN HeaderSize ELSE Len(sent[header].payload)

\* One recv of recv_n, k bytes.
Reads(k) == /\ k <= Len(wire) /\ k <= Wanted - Len(got)
            /\ wire' = SubSeq(wire, k + 1, Len(wire))

ReadSoFar(k) == got \o SubSeq(wire, 1, k)

RecvSome(k) == /\ Reads(k) /\ Len(got) + k < Wanted
               /\ got' = ReadSoFar(k)
               /\ UNCHANGED <<senderVars, link, need, header, delivered, recvFailed>>

ValidHeader(bytes, n) == bytes = HeaderOf(n)

Returns(n, bytes) == /\ delivered' = Append(delivered, Packet(n, bytes))
                     /\ need' = "header"
                     /\ got' = <<>>
                     /\ header' = 0
                     /\ UNCHANGED recvFailed

\* recv_packet returns -1 and forgets what it has read.
Fails == /\ recvFailed' = TRUE
         /\ need' = "header"
         /\ got' = <<>>
         /\ header' = 0
         /\ UNCHANGED delivered

\* The header is complete; without payload so is the packet.
RecvHeader(k, n) == /\ need = "header"
                    /\ Reads(k) /\ Len(got) + k = Wanted
                    /\ ValidHeader(ReadSoFar(k), n)
                    /\ IF sent[n].payload = <<>>
                       THEN Returns(n, <<>>)
                       ELSE /\ need' = "payload" /\ got' = <<>> /\ header' = n
                            /\ UNCHANGED <<delivered, recvFailed>>
                    /\ UNCHANGED <<senderVars, link>>

\* Magic, version or data_len is wrong.
RecvBadHeader(k) == /\ need = "header"
                    /\ Reads(k) /\ Len(got) + k = Wanted
                    /\ \A n \in 1..Len(sent) : ~ValidHeader(ReadSoFar(k), n)
                    /\ Fails
                    /\ UNCHANGED <<senderVars, link>>

\* calloc fails: the payload stays in the stream.
AllocFails == /\ need = "payload" /\ got = <<>>
              /\ Fails
              /\ UNCHANGED <<senderVars, wire, link>>

\* Fault: a short recv is taken for the whole payload.
RecvPayloadOnce(k) == /\ need = "payload"
                      /\ Reads(k)
                      /\ Returns(header, ReadSoFar(k))
                      /\ UNCHANGED <<senderVars, link>>

RecvPayload(k) == /\ need = "payload"
                  /\ Reads(k) /\ Len(got) + k = Wanted
                  /\ Returns(header, ReadSoFar(k))
                  /\ UNCHANGED <<senderVars, link>>

\* recv returns 0 or an error: the connection is gone, what was on the way may be too.
RecvFails == /\ link = "broken"
             /\ Fails
             /\ UNCHANGED <<senderVars, wire, link>>

--------------------------------------------------------------------------------
\* The connection breaks, is closed, or the sender gives up in the middle of a packet.
LinkBreaks == /\ link = "up"
              /\ link' = "broken"
              /\ UNCHANGED <<senderVars, wire, receiverVars>>

Writing == \E k \in 1..Buffer : Write(k)

Receiving == \/ \E k \in 1..Buffer : \/ RecvSome(k)
                                     \/ \E n \in 1..Len(sent) : RecvHeader(k, n)
                                     \/ RecvBadHeader(k)
                                     \/ RecvPayload(k)
             \/ AllocFails
             \/ RecvFails

Next == \/ \E len \in Lengths : RefusePacket(len) \/ SendPacket(len)
        \/ Writing
        \/ Receiving
        \/ LinkBreaks

Spec == Init /\ [][Next]_vars

\* Both ends stay in their loops; the callers and the network owe nothing.
FairSpec == Spec /\ WF_vars(Writing) /\ WF_vars(Receiving)

--------------------------------------------------------------------------------
(* Properties. *)

PacketIds == 1..MaxPackets
Packets == [id : PacketIds, payload : Seq(1..MaxPayload)]
Bytes   == {<<kind, n, k>> : kind \in {"header", "payload"}, n \in PacketIds, k \in 1..(HeaderSize + MaxPayload)}

TypeOK == /\ sent \in Seq(Packets) /\ delivered \in Seq(Packets)
          /\ calls \in 0..MaxPackets
          /\ unsent \in Seq(Bytes) /\ payload \in Seq(Bytes) /\ got \in Seq(Bytes)
          /\ wire \in Seq(Bytes) /\ Len(wire) <= Buffer
          /\ link \in {"up", "broken"}
          /\ need \in {"header", "payload"}
          /\ header \in 0..MaxPackets
          /\ recvFailed \in BOOLEAN

\* The channel has the variables of this module under the same names.
PC == INSTANCE PacketChannel

\* The loops of send_n and recv_n and the header make a packet channel of the byte
\* stream: whole packets, in order, none left out before a recv_packet has failed.
ImplementsPacketChannel == PC!Spec

\* recv_packet never meets bytes that are no header while the connection lives, unless
\* an earlier call has failed: sender and receiver agree where each packet ends.
InStep == [][(\E k \in 1..Buffer : RecvBadHeader(k)) => recvFailed]_vars

\* A packet that send_packet accepted arrives, however small the socket buffer,
\* unless the connection breaks or a recv_packet has failed.
PacketsArrive ==
    \A n \in PacketIds : Len(sent) >= n ~> Len(delivered) >= n \/ link = "broken" \/ recvFailed
================================================================================
