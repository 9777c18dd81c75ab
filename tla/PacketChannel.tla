----------------------------- MODULE PacketChannel -----------------------------
(***************************************************************************)
(* What send_packet and recv_packet promise for one direction of a         *)
(* connection: whole packets arrive, each once, in the order of sending,   *)
(* none left out until a recv_packet has failed.  Upload and Download are  *)
(* built on this channel.                                                  *)
(***************************************************************************)
EXTENDS Naturals, Sequences

VARIABLES
    sent,       \* packets handed to send_packet
    delivered,  \* packets recv_packet returned
    recvFailed  \* some recv_packet has returned -1

vars == <<sent, delivered, recvFailed>>

Init == sent = <<>> /\ delivered = <<>> /\ recvFailed = FALSE

\* A packet carries its number, so that no two are alike.
Send == /\ Len(sent') = Len(sent) + 1
        /\ SubSeq(sent', 1, Len(sent)) = sent
        /\ sent'[Len(sent')].id = Len(sent')
        /\ UNCHANGED <<delivered, recvFailed>>

LastId == IF delivered = <<>> THEN 0 ELSE delivered[Len(delivered)].id

Deliver(n) == /\ n > LastId
              /\ n = LastId + 1 \/ recvFailed
              /\ delivered' = Append(delivered, sent[n])
              /\ UNCHANGED <<sent, recvFailed>>

Fail == recvFailed' = TRUE /\ UNCHANGED <<sent, delivered>>

Next == Send \/ (\E n \in 1..Len(sent) : Deliver(n)) \/ Fail

Spec == Init /\ [][Next]_vars
================================================================================
