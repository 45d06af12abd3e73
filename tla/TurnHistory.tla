----------------------------- MODULE TurnHistory -----------------------------
(***************************************************************************)
(* What a turn promises, whatever happens inside it: a history that only   *)
(* grows, in which every effect the turn had is recorded once, by the      *)
(* round that had it, or else belongs to a round an exception cut short,   *)
(* lost whole; and a turn that ends.                                       *)
(***************************************************************************)
EXTENDS Integers, Sequences

VARIABLES
  busy,      \* a turn is running
  log,       \* the transcript
  doing,     \* effects of the round that is not recorded yet
  unheard    \* effects of rounds that were never recorded

vars == <<busy, log, doing, unheard>>

Init ==
  /\ busy = FALSE
  /\ log = <<>>
  /\ doing = {}
  /\ unheard = {}

User == [kind |-> "user", done |-> {}]
Round(had) == [kind |-> "model", done |-> had]

Recorded == UNION {log[i].done : i \in DOMAIN log}

Fresh(e) == e \notin Recorded \union doing \union unheard

Submit ==
  /\ ~busy /\ busy' = TRUE
  /\ log' = Append(log, User)
  /\ UNCHANGED <<doing, unheard>>

(* Work that leaves the history alone, as /compact does. *)
Work ==
  /\ ~busy /\ busy' = TRUE
  /\ UNCHANGED <<log, doing, unheard>>

Have ==
  /\ busy
  /\ \E e \in doing' : Fresh(e) /\ doing' = doing \union {e}
  /\ UNCHANGED <<busy, log, unheard>>

(* A round ends, with its last effect perhaps; an approved plan or a note  *)
(* of the turn itself may follow, and the turn goes on or is over.         *)
Record ==
  /\ busy
  /\ \E last \in {{}} \union {{e} : e \in {e \in Recorded' : Fresh(e)}},
        after \in {<<>>, <<User>>, <<Round({})>>} :
       log' = log \o <<Round(doing \union last)>> \o after
  /\ doing' = {}
  /\ busy' \in BOOLEAN
  /\ UNCHANGED unheard

(* The turn ends, with its round lost, the last effect perhaps included,   *)
(* when an exception left it.                                              *)
End ==
  /\ busy /\ busy' = FALSE
  /\ \E last \in {{}} \union {{e} : e \in {e \in unheard' : Fresh(e)}} :
       unheard' = unheard \union doing \union last
  /\ doing' = {}
  /\ UNCHANGED log

Next == Submit \/ Work \/ Have \/ Record \/ End

Safety == Init /\ [][Next]_vars

Spec == Safety /\ []<>~busy
=============================================================================
