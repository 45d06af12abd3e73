--------------------------- MODULE MC_TurnControl ---------------------------
(* TurnControl for TLC.  The runs check liveness, so texts are not permuted.  *)
EXTENDS TurnControl
=============================================================================
