----------------------------- MODULE MCThreadPool ------------------------------
(* Instances of ThreadPool for TLC. *)
EXTENDS ThreadPool, TLC

\* Only the kernel hands out descriptor numbers, so they are interchangeable.
FdSymmetry == Permutations(Fds)
================================================================================
