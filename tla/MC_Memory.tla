------------------------------ MODULE MC_Memory ------------------------------
(* Memory for TLC: p1 works in the first session, which goes on once, and    *)
(* makes its passes at startup; p2 works elsewhere and uses /memory sync.    *)
EXTENDS Memory, TLC

CONSTANTS p1, p2

SeqUsed    == <<1, 0>>
OwnUsed    == p1 :> 1 @@ p2 :> 0
ForcesUsed == p1 :> {FALSE} @@ p2 :> {TRUE}
=============================================================================
