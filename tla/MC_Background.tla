---------------------------- MODULE MC_Background ----------------------------
(* Background for TLC.  The first command prints more than its buffers hold. *)
EXTENDS Background

PrintsUsed == [t \in 1 .. MaxTasks |-> IF t = 1 THEN 4 ELSE 1]
=============================================================================
