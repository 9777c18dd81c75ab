------------------------------- MODULE MCUpload --------------------------------
(* Instances of Upload for TLC. *)
EXTENDS Upload, TLC

CONSTANTS s1, s2, va, vb

\* An old and a longer new version of the same file.
MCSize == [v \in Versions |-> IF v = va THEN 1 ELSE 2]

SessionSymmetry == Permutations(Sessions)
================================================================================
