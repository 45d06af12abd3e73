------------------------------- MODULE MC_Stage -------------------------------
(* Stage for TLC: one file that exists, one that does not.                   *)
EXTENDS Stage
=============================================================================
