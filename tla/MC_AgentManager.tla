--------------------------- MODULE MC_AgentManager ---------------------------
(* AgentManager for TLC.                                                     *)
EXTENDS AgentManager
=============================================================================
