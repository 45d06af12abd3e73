------------------------------ MODULE SavedTurns ------------------------------
(***************************************************************************)
(* What a durable session promises to the processes that share it: its     *)
(* records are only ever added to, each turn is recorded once, by a        *)
(* process whose conversation has every turn recorded before it, and what  *)
(* was confirmed to the user is recorded.  It may be broken, for reasons   *)
(* it does not tell, and records may then be gone; what is recorded is     *)
(* even so recorded once, and only by a process that has it.               *)
(***************************************************************************)
EXTENDS Integers, Sequences, SequencesExt

CONSTANT Procs

VARIABLES
  records,    \* a turn, or 0 for a record of another kind, in their order
  known,      \* the turns in the conversation of each process
  confirmed,  \* turns reported as saved
  broken      \* the promise to those who read and write it is void

vars == <<records, known, confirmed, broken>>

Turns(some) == ToSet(some) \ {0}

Init ==
  /\ records = << >>
  /\ known = [p \in Procs |-> {}]
  /\ confirmed = {}
  /\ broken = FALSE

\* The conversation is made from what is recorded.
Open(p) ==
  /\ known' = [known EXCEPT ![p] = Turns(records)]
  /\ UNCHANGED <<records, confirmed, broken>>

\* A turn is completed that nobody has had before.
Take(p) ==
  /\ \E t \in known'[p] \ Turns(records) :
       /\ t # 0 /\ \A q \in Procs : t \notin known[q]
       /\ known' = [known EXCEPT ![p] = @ \union {t}]
  /\ UNCHANGED <<records, confirmed, broken>>

\* A turn is recorded on top of every other one: none is overwritten unseen.
Save(p) ==
  /\ \E t \in known[p] \ Turns(records) : records' = Append(records, t)
  /\ broken' \in {broken, TRUE}
  /\ ~broken' => known[p] = Turns(records')
  /\ UNCHANGED <<known, confirmed>>

\* Another record, or one that is lost.
Note ==
  /\ records' = Append(records, 0)
  /\ broken' \in {broken, TRUE}
  /\ UNCHANGED <<known, confirmed>>

Confirm(p) ==
  /\ broken' \in {broken, TRUE}
  /\ \E t \in known[p] : /\ ~broken' => t \in Turns(records)
                         /\ confirmed' = confirmed \union {t}
  /\ UNCHANGED <<records, known>>

\* The promise is broken, and the last records may be gone.
Break ==
  /\ broken' = TRUE
  /\ \E n \in 0 .. Len(records) : records' = SubSeq(records, 1, n)
  /\ UNCHANGED <<known, confirmed>>

Leave(p) ==
  /\ known' = [known EXCEPT ![p] = {}]
  /\ UNCHANGED <<records, confirmed, broken>>

Next ==
  \/ Note \/ Break
  \/ \E p \in Procs : Open(p) \/ Take(p) \/ Save(p) \/ Confirm(p) \/ Leave(p)

Spec == Init /\ [][Next]_vars
=============================================================================
