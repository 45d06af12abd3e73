----------------------------- MODULE MC_Sessions -----------------------------
(* Sessions for TLC.  Processes are interchangeable.                         *)
EXTENDS Sessions

ProcSymmetry == Permutations(Procs)
=============================================================================
