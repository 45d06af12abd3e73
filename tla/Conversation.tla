---------------------------- MODULE Conversation ----------------------------
(***************************************************************************)
(* The conversation of one Agent (context_manager.py) and its compaction   *)
(* (compaction.py), as operators on a record:                              *)
(*   transcript   every real segment, in order: a user message, or one     *)
(*                model round with the effects its tool results report;    *)
(*   active       the view sent to the model: real segments and summaries, *)
(*                each with the indices of the transcript it stands for;   *)
(*   checkpoints  per compaction kept, the indices its summary omitted     *)
(*                because the summary request itself was too long;         *)
(*   start        history: where the last deliberately fresh view begins.  *)
(*                                                                         *)
(* Token estimates decide which model rounds a plan retains and whether a  *)
(* summary is accepted; they are left to choice.  A summary stands for     *)
(* the segments it was made from.                                          *)
(***************************************************************************)
EXTENDS Integers, Sequences, FiniteSets

CONSTANT MaxSummaryDrops   \* MAX_SUMMARY_CONTEXT_RETRIES

ASSUME MaxSummaryDropsAssumption == MaxSummaryDrops \in Nat

EmptyConversation ==
  [transcript |-> <<>>, active |-> <<>>, checkpoints |-> <<>>, start |-> 1]

Real(kind, i) == [kind |-> kind, of |-> {i}]

AppendSegment(c, kind, done) ==
  [c EXCEPT !.transcript = Append(@, [kind |-> kind, done |-> done]),
            !.active = Append(@, Real(kind, Len(c.transcript) + 1))]

AppendUser(c) == AppendSegment(c, "user", {})

AppendRound(c, done) == AppendSegment(c, "model", done)

(* A fresh view that starts with the approved plan. *)
ResetActive(c) ==
  LET plan == Len(c.transcript) + 1 IN
  [c EXCEPT !.transcript = Append(@, [kind |-> "user", done |-> {}]),
            !.active = <<Real("user", plan)>>,
            !.start = plan]

\* Mutant: the view as it is now, with its compactions, is kept as well.
RestoredOnTop(c, snapshot) ==
  LET old == Len(snapshot.transcript) IN
  [c EXCEPT !.active = c.active \o [k \in 1 .. Len(c.transcript) - old |->
                                      Real(c.transcript[old + k].kind, old + k)],
            !.checkpoints = snapshot.checkpoints,
            !.start = snapshot.start]

(* restore_projection_preserving_new_transcript: the view of the snapshot   *)
(* followed by every round committed since.                                *)
Restored(c, snapshot) ==
  LET old == Len(snapshot.transcript) IN
  [c EXCEPT !.active = snapshot.active \o [k \in 1 .. Len(c.transcript) - old |->
                                             Real(c.transcript[old + k].kind, old + k)],
            !.checkpoints = snapshot.checkpoints,
            !.start = snapshot.start]

---------------------------------------------------------------------------
(* Compaction.                                                             *)

\* Mutant: the oldest user message.
OldestUser(c) ==
  CHOOSE i \in DOMAIN c.active :
    /\ c.active[i].kind = "user"
    /\ \A j \in DOMAIN c.active : j < i => c.active[j].kind # "user"

LatestUser(c) ==
  CHOOSE i \in DOMAIN c.active :
    /\ c.active[i].kind = "user"
    /\ \A j \in DOMAIN c.active : j > i => c.active[j].kind # "user"

HasCompactableHistory(c) == \E i \in DOMAIN c.active : i # LatestUser(c)

(* What a plan may retain: the latest user message, and the model rounds   *)
(* that fit; something must be left to compact.                            *)
Plans(c) ==
  {{LatestUser(c)} \union rounds : rounds \in
     SUBSET {i \in DOMAIN c.active : c.active[i].kind = "model"}} \ {DOMAIN c.active}

(* The oldest d segments that are not user messages, of those to summarize.*)
Omitted(c, retained, d) ==
  LET removable == {i \in DOMAIN c.active \ retained : c.active[i].kind # "user"} IN
  {i \in removable : Cardinality({j \in removable : j < i}) < d}

Indices(c, positions) == UNION {c.active[i].of : i \in positions}

(* The number at place k of a set of them. *)
Nth(numbers, k) == CHOOSE i \in numbers : Cardinality({j \in numbers : j <= i}) = k

Retained(c, retained) ==
  [k \in 1 .. Cardinality(retained) |-> c.active[Nth(retained, k)]]

(* apply_compaction, with a summary the d oldest segments are not part of. *)
Compacted(c, retained, d) ==
  LET omitted == Omitted(c, retained, d)
      summary == Indices(c, DOMAIN c.active \ (retained \union omitted))
  IN [c EXCEPT !.active = <<[kind |-> "summary", of |-> summary]>> \o Retained(c, retained),
               !.checkpoints = Append(@, Indices(c, omitted))]

---------------------------------------------------------------------------
IsConversation(c, Effect) ==
  /\ c.transcript \in Seq([kind : {"user", "model"}, done : SUBSET Effect])
  /\ c.active \in Seq([kind : {"user", "model", "summary"}, of : SUBSET DOMAIN c.transcript])
  /\ c.checkpoints \in Seq(SUBSET DOMAIN c.transcript)
  /\ c.start \in 1 .. Len(c.transcript) + 1

(* The segment i of the transcript is where the model or the user can tell: *)
(* in one place of the view, or reported as omitted by one compaction.     *)
Accounted(c, i) ==
  LET places == {k \in DOMAIN c.active : i \in c.active[k].of}
      omissions == {k \in DOMAIN c.checkpoints : i \in c.checkpoints[k]}
  IN Cardinality(places) + Cardinality(omissions) = 1
=============================================================================
