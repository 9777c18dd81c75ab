--------------------------- MODULE ConnectionService ---------------------------
(***************************************************************************)
(* What the server promises about the connections it accepts, whatever     *)
(* threads, locks and descriptors it uses to keep the promise: they are    *)
(* taken into service in the order of arrival, each exactly once, never    *)
(* more than Capacity at a time, and from the moment a stop is ordered     *)
(* none is taken any more and those still pending are dropped unserved.    *)
(***************************************************************************)
EXTENDS Naturals, Sequences, FiniteSets

CONSTANTS Conns,     \* connection identifiers; one may be used again after it ends
          Capacity   \* how many connections are in service at most

VARIABLES pending,    \* accepted connections not yet taken, oldest first
          inService,  \* the set of connections being served
          stopping    \* TRUE once a stop has been ordered

csVars == <<pending, inService, stopping>>

IsPending(c) == \E i \in 1..Len(pending) : pending[i] = c

CSInit == /\ pending = <<>>
          /\ inService = {}
          /\ stopping = FALSE

Arrive(c) == /\ ~stopping
             /\ ~IsPending(c)
             /\ c \notin inService
             /\ pending' = Append(pending, c)
             /\ UNCHANGED <<inService, stopping>>

Begin == /\ ~stopping
         /\ pending # <<>>
         /\ Cardinality(inService) < Capacity
         /\ Head(pending) \notin inService
         /\ inService' = inService \cup {Head(pending)}
         /\ pending' = Tail(pending)
         /\ UNCHANGED stopping

Finish(c) == /\ c \in inService
             /\ inService' = inService \ {c}
             /\ UNCHANGED <<pending, stopping>>

Stop == /\ ~stopping
        /\ stopping' = TRUE
        /\ UNCHANGED <<pending, inService>>

DropPending == /\ stopping
               /\ pending' = <<>>
               /\ UNCHANGED <<inService, stopping>>

CSNext == \/ \E c \in Conns : Arrive(c) \/ Finish(c)
          \/ Begin
          \/ Stop
          \/ DropPending

CSSpec == CSInit /\ [][CSNext]_csVars
================================================================================
