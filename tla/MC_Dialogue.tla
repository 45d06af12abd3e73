---------------------------- MODULE MC_Dialogue ----------------------------
(* Dialogue for TLC.                                                         *)
EXTENDS Dialogue
=============================================================================
