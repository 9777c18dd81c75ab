------------------------------- MODULE MCFraming -------------------------------
(* An instance of Framing for TLC. *)
EXTENDS Framing
================================================================================
