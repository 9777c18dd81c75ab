------------------------------ MODULE MCDirectory ------------------------------
(* An instance of Directory for TLC. *)
EXTENDS Directory

\* Up and down, through names that may not exist, to the root and beyond it, and nothing.
MCArgs == { <<>>, <<"a">>, <<"..">>, <<"a", "b">>, <<"b", "..", ".", "a">>, <<"..", "..", "b">>, <<"/", "a">> }

\* Both names fit into MaxText in one order only, and then without a line end.
MCNameLen == [n \in Names |-> IF n = "a" THEN 1 ELSE 2]
================================================================================
