----------------------------- MODULE MC_TurnLoop -----------------------------
(* TurnLoop for TLC: the calls an answer may have.                           *)
EXTENDS TurnLoop

ResponsesUsed == {<<"read", "write">>, <<"write", "write">>, <<"free", "plan">>}
=============================================================================
