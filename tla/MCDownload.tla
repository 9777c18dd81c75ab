------------------------------ MODULE MCDownload -------------------------------
(* Instances of Download for TLC. *)
EXTENDS Download, TLC

CONSTANTS va, vb

\* An old and a longer new version of the same file.
MCSize == [v \in Versions |-> IF v = va THEN 1 ELSE 2]

\* Nothing tells two inodes, or two uploading sessions, apart.
DownloadSymmetry == Permutations(Inodes) \cup Permutations(Uploaders)
================================================================================
