------------------------------- MODULE MCServer --------------------------------
(* Instances of Server for TLC. *)
EXTENDS Server, TLC

CONSTANTS c1, c2, v

\* A file of two blocks: it can be cut with one block received.
MCSize == [version \in Versions |-> 2]
================================================================================
