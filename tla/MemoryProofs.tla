---------------------------- MODULE MemoryProofs ----------------------------
(***************************************************************************)
(* Theorems about Memory, for any number of processes, sessions, records   *)
(* and memories: what a cursor may skip, when two passes may overlap, and  *)
(* that what was forgotten stays forgotten.                                *)
(***************************************************************************)
EXTENDS Memory, SequenceTheorems, TLAPS

---------------------------------------------------------------------------
(* What a stored value stands for.                                         *)

LEMMA SeqsType == Seqs \subseteq Int /\ \A n \in Seqs : n >= Nothing
  BY BoundsAssumption DEF Seqs, Nothing, Sessions

LEMMA MaxOfTwo ==
  ASSUME NEW m \in Int, NEW n \in Int
  PROVE  Max({m, n}) \in {m, n}
<1>1. \E x \in {m, n} : \A y \in {m, n} : x >= y
  OBVIOUS
<1> QED BY <1>1 DEF Max

---------------------------------------------------------------------------
(* Types.  TypeOK alone is not inductive: what is about to be stored must  *)
(* be known to have been read no earlier than the row was selected, and    *)
(* from records the session has.                                           *)

Row == [session : Sessions, seq : Seqs]

RowsOK ==
  /\ seq \in [Sessions -> Nat] /\ \A s \in Sessions : seq[s] <= MaxSeq[s]
  /\ cursor \in [Sessions -> Int] /\ found \in [Sessions -> Int]
  /\ \A s \in Sessions : /\ cursor[s] \in Nothing .. seq[s]
                         /\ found[s] = Nothing \/ found[s] \in cursor[s] .. seq[s]

SelectedOK ==
  \A p \in Procs :
    /\ todo[p] \in Seq(Row) /\ Len(todo[p]) <= MaxStartup
    /\ \A i \in DOMAIN todo[p] : todo[p][i].seq <= seq[todo[p][i].session]

ReadOK ==
  /\ evidence \in [Procs -> Seqs]
  /\ \A p \in Procs : pc[p] = "asking" =>
       /\ todo[p] # << >>
       /\ evidence[p] \in Head(todo[p]).seq .. seq[Head(todo[p]).session]

OrderOK == updated \in [Sessions -> Sessions] /\ IsInjective(updated)

RestOK ==
  /\ pc \in [Procs -> {"idle", "extracting", "asking", "consolidating", "releasing"}]
  /\ owner \in Procs \union {Dead, Free}
  /\ status \in [Ids -> {"none", "active", "superseded", "forgotten"}]
  /\ offered \in [Procs -> [Sessions -> Seqs]] /\ existing \in [Procs -> SUBSET Ids]
  /\ reached \in [Sessions -> Seqs]
  /\ erased \subseteq Ids

FlagsOK ==
  /\ resting \in [Sessions -> BOOLEAN]
  /\ expired \in BOOLEAN
  /\ due \in [Procs -> BOOLEAN]
  /\ ranOut \in [Procs -> BOOLEAN]

TodoOK == todo \in [Procs -> Seq(Row)]

TypeInv == RowsOK /\ TodoOK /\ SelectedOK /\ ReadOK /\ OrderOK /\ RestOK /\ FlagsOK

LEMMA RowType ==
  ASSUME NEW rows \in Seq(Row)
  PROVE  /\ \A i \in DOMAIN rows : rows[i].session \in Sessions /\ rows[i].seq \in Int
         /\ rows # << >> => Head(rows).session \in Sessions /\ Head(rows).seq \in Int
<1>1. \A r \in Row : r.session \in Sessions /\ r.seq \in Int
  BY SeqsType DEF Row
<1>2. \A i \in DOMAIN rows : rows[i] \in Row
  BY ElementOfSeq
<1>3. rows # << >> => Head(rows) \in Row
  BY HeadTailProperties
<1> QED BY <1>1, <1>2, <1>3

LEMMA TypeInvTypeOK == TypeInv => TypeOK
<1> SUFFICES ASSUME TypeInv PROVE TypeOK
  OBVIOUS
<1>1. \A s \in Sessions : /\ seq[s] \in 0 .. MaxSeq[s]
                          /\ cursor[s] \in Nothing .. seq[s]
                          /\ found[s] = Nothing \/ found[s] \in cursor[s] .. seq[s]
  BY BoundsAssumption DEF TypeInv, RowsOK, Sessions
<1> QED BY <1>1 DEF TypeInv, SelectedOK, ReadOK, OrderOK, RestOK, FlagsOK, TypeOK, Row

LEMMA InitTypeInv == Init => TypeInv
<1> SUFFICES ASSUME Init PROVE TypeInv
  OBVIOUS
<1> USE BoundsAssumption, SeqsType
<1>1. RowsOK
  BY DEF Init, RowsOK, NoEvidence, Nothing, Sessions
<1>2. TodoOK /\ SelectedOK
  BY DEF Init, TodoOK, SelectedOK
<1>3. ReadOK
  BY DEF Init, ReadOK, Seqs
<1>4. OrderOK
  BY DEF Init, OrderOK, IsInjective
<1>5. RestOK
  BY DEF Init, RestOK, NoEvidence, Seqs
<1>6. FlagsOK
  BY DEF Init, FlagsOK
<1> QED BY <1>1, <1>2, <1>3, <1>4, <1>5, <1>6 DEF TypeInv

LEMMA ExtendTypeInv ==
  ASSUME TypeInv, NEW s \in Sessions, Extend(s)
  PROVE  TypeInv'
<1>1. seq' = [seq EXCEPT ![s] = seq[s] + 1] /\ seq[s] < MaxSeq[s]
  BY DEF Extend, Set
<1>2. seq \in [Sessions -> Nat] /\ MaxSeq \in [Sessions -> Nat]
  BY BoundsAssumption DEF TypeInv, RowsOK, Sessions
<1>3. seq' \in [Sessions -> Nat] /\ \A r \in Sessions : seq[r] <= seq'[r] /\ seq[r] \in Nat /\ seq'[r] \in Nat
  BY <1>1, <1>2
<1>4. RowsOK'
  <2>1. \A r \in Sessions : seq'[r] <= MaxSeq[r]
    BY <1>1, <1>2 DEF TypeInv, RowsOK
  <2>2. UNCHANGED <<cursor, found>>
    BY DEF Extend, candidates
  <2>3. \A r \in Sessions : /\ cursor[r] \in Int /\ found[r] \in Int
                            /\ cursor[r] \in Nothing .. seq'[r]
                            /\ found[r] = Nothing \/ found[r] \in cursor[r] .. seq'[r]
    BY <1>3 DEF TypeInv, RowsOK, Nothing
  <2> QED BY <1>3, <2>1, <2>2, <2>3 DEF TypeInv, RowsOK
<1>5. TodoOK' /\ SelectedOK'
  <2>1. todo' = todo
    BY DEF Extend, pass
  <2>2. ASSUME NEW p \in Procs, NEW i \in DOMAIN todo[p]
        PROVE  todo[p][i].seq <= seq'[todo[p][i].session]
    <3>1. todo[p] \in Seq(Row)
      BY DEF TypeInv, SelectedOK
    <3>2. todo[p][i].seq \in Int /\ todo[p][i].session \in Sessions
      BY <3>1, RowType
    <3> QED BY <1>3, <3>2 DEF TypeInv, SelectedOK
  <2> QED BY <2>1, <2>2 DEF TypeInv, TodoOK, SelectedOK
<1>6. ReadOK'
  <2>1. UNCHANGED <<todo, evidence, pc>>
    BY DEF Extend, pass
  <2>2. ASSUME NEW p \in Procs, pc[p] = "asking"
        PROVE  evidence[p] \in Head(todo[p]).seq .. seq'[Head(todo[p]).session]
    <3>1. todo[p] \in Seq(Row) /\ todo[p] # << >>
      BY <2>2 DEF TypeInv, ReadOK, SelectedOK
    <3>2. Head(todo[p]).session \in Sessions /\ Head(todo[p]).seq \in Int
      BY <3>1, RowType
    <3> QED BY <1>3, <2>2, <3>2 DEF TypeInv, ReadOK
  <2> QED BY <2>1, <2>2 DEF TypeInv, ReadOK
<1>7. OrderOK'
  <2>1. /\ updated \in [Sessions -> 1 .. MaxSessions]
        /\ \A a, b \in Sessions : updated[a] = updated[b] => a = b
    BY DEF TypeInv, OrderOK, IsInjective, Sessions
  <2>2. updated' = [t \in Sessions |-> IF t = s THEN MaxSessions
                                       ELSE IF updated[t] > updated[s] THEN updated[t] - 1
                                       ELSE updated[t]]
    BY DEF Extend
  <2>3. \A t \in Sessions : /\ updated'[t] = IF t = s THEN MaxSessions
                                      ELSE IF updated[t] > updated[s] THEN updated[t] - 1
                                      ELSE updated[t]
                            /\ updated[t] \in 1 .. MaxSessions
                            /\ t # s => updated[t] # updated[s]
    BY <2>1, <2>2
  <2>4. \A t \in Sessions : updated'[t] \in 1 .. MaxSessions /\ (t # s => updated'[t] < MaxSessions)
    BY <2>3, BoundsAssumption
  <2>5. \A a, b \in Sessions : updated'[a] = updated'[b] => a = b
    BY <2>1, <2>3, <2>4, BoundsAssumption
  <2> QED BY <2>2, <2>4, <2>5 DEF OrderOK, IsInjective, Sessions
<1>8. RestOK'
  BY DEF TypeInv, Extend, RestOK, pass, lease
<1>9. FlagsOK'
  BY DEF TypeInv, Extend, FlagsOK, Set, pass, lease
<1> QED BY <1>4, <1>5, <1>6, <1>7, <1>8, <1>9 DEF TypeInv

\* The steps of the session, the user and the clock.
LEMMA WorldTypeInv ==
  ASSUME TypeInv,
         \/ \E s \in Sessions : Rest(s)
         \/ \E m \in Ids : Forget(m)
         \/ Expire
         \/ UNCHANGED vars
  PROVE  TypeInv'
<1> USE DEF Rest, Forget, Expire, vars, sessions, candidates, lease, pass, Set
<1>1. UNCHANGED <<seq, updated, cursor, found, pc, todo, evidence, offered, existing, reached, owner>>
  OBVIOUS
<1>2. RowsOK' /\ TodoOK' /\ SelectedOK' /\ ReadOK' /\ OrderOK'
  BY <1>1 DEF TypeInv, RowsOK, TodoOK, SelectedOK, ReadOK, OrderOK
<1>3. RestOK'
  <2>1. status' \in [Ids -> {"none", "active", "superseded", "forgotten"}] /\ erased' \subseteq Ids
    BY DEF TypeInv, RestOK
  <2> QED BY <1>1, <2>1 DEF TypeInv, RestOK
<1>4. FlagsOK'
  BY DEF TypeInv, FlagsOK
<1> QED BY <1>2, <1>3, <1>4 DEF TypeInv

\* The rows selected are rows of the sessions as they are now.
LEMMA RowsOfSelection ==
  ASSUME RowsOK, NEW ids \in BoundedSeq(Sessions, MaxStartup)
  PROVE  /\ Rows(ids) \in Seq(Row) /\ Len(Rows(ids)) <= MaxStartup
         /\ \A i \in DOMAIN Rows(ids) : Rows(ids)[i].seq <= seq[Rows(ids)[i].session]
<1>1. PICK n \in 0 .. MaxStartup : ids \in [1 .. n -> Sessions]
  BY BoundsAssumption DEF BoundedSeq, SeqOf
<1>2. n \in Nat /\ n <= MaxStartup
  BY BoundsAssumption
<1>3. \A s \in Sessions : seq[s] \in Seqs /\ seq[s] \in Nat
  BY BoundsAssumption DEF RowsOK, Seqs, Sessions
<1>4. Rows(ids) = [i \in 1 .. n |-> [session |-> ids[i], seq |-> seq[ids[i]]]]
  BY <1>1 DEF Rows
<1>5. Rows(ids) \in [1 .. n -> Row]
  BY <1>1, <1>3, <1>4 DEF Row
<1>6. Rows(ids) \in Seq(Row) /\ Len(Rows(ids)) = n
  BY <1>2, <1>5
<1>7. \A i \in 1 .. n : Rows(ids)[i].seq = seq[ids[i]] /\ Rows(ids)[i].session = ids[i]
  BY <1>4
<1> QED BY <1>1, <1>2, <1>3, <1>4, <1>6, <1>7

LEMMA AcquireTypeInv ==
  ASSUME TypeInv, NEW p \in Procs, NEW f \in BOOLEAN, Acquire(p, f)
  PROVE  TypeInv'
<1>1. UNCHANGED <<seq, updated, resting, cursor, found, status, evidence, offered, existing,
                  ranOut, reached, erased>>
  BY DEF Acquire, sessions, candidates
<1>2. pc' = [pc EXCEPT ![p] = "extracting"] /\ owner' = p
  BY DEF Acquire, Set
<1>3. PICK ids \in BoundedSeq(Sessions, MaxStartup) : todo' = [todo EXCEPT ![p] = Rows(ids)]
  BY DEF Acquire, EligibleSessions, Set
<1>4. RowsOK' /\ OrderOK'
  BY <1>1 DEF TypeInv, RowsOK, OrderOK
<1>5. TodoOK' /\ SelectedOK'
  BY <1>1, <1>3, RowsOfSelection DEF TypeInv, TodoOK, SelectedOK
<1>6. ReadOK'
  BY <1>1, <1>2, <1>3 DEF TypeInv, ReadOK, RestOK, TodoOK
<1>7. RestOK'
  BY <1>1, <1>2 DEF TypeInv, RestOK
<1>8. FlagsOK'
  BY <1>1 DEF TypeInv, FlagsOK, Acquire, Set, DueAtFirst
<1> QED BY <1>4, <1>5, <1>6, <1>7, <1>8 DEF TypeInv

LEMMA ReadEvidenceTypeInv ==
  ASSUME TypeInv, NEW p \in Procs, ReadEvidence(p)
  PROVE  TypeInv'
<1>1. UNCHANGED <<seq, updated, resting, cursor, found, owner, expired, status, due, todo,
                  offered, existing, ranOut, reached, erased>>
  BY DEF ReadEvidence, sessions, candidates, lease
<1>2. /\ pc' = [pc EXCEPT ![p] = "asking"] /\ todo[p] # << >>
      /\ evidence' = [evidence EXCEPT ![p] = seq[Head(todo[p]).session]]
  BY DEF ReadEvidence, Set
<1>3. RowsOK' /\ OrderOK' /\ TodoOK' /\ SelectedOK'
  BY <1>1 DEF TypeInv, RowsOK, OrderOK, TodoOK, SelectedOK
<1>4. ReadOK'
  <2>1. todo[p] \in Seq(Row)
    BY DEF TypeInv, SelectedOK
  <2>2. /\ Head(todo[p]).session \in Sessions /\ Head(todo[p]).seq \in Int
        /\ Head(todo[p]).seq <= seq[Head(todo[p]).session]
    BY <1>2, <2>1, RowType DEF TypeInv, SelectedOK
  <2>3. seq[Head(todo[p]).session] \in Seqs /\ seq[Head(todo[p]).session] \in Int
    BY <2>2, BoundsAssumption DEF TypeInv, RowsOK, Seqs, Sessions
  <2> QED BY <1>1, <1>2, <2>2, <2>3 DEF TypeInv, ReadOK, RestOK
<1>5. RestOK'
  BY <1>1, <1>2 DEF TypeInv, RestOK
<1>6. FlagsOK'
  BY <1>1 DEF TypeInv, FlagsOK
<1> QED BY <1>3, <1>4, <1>5, <1>6 DEF TypeInv

LEMMA StoreExtractionTypeInv ==
  ASSUME TypeInv, NEW p \in Procs, StoreExtraction(p)
  PROVE  TypeInv'
<1> DEFINE row == Head(todo[p])
<1>1. /\ UNCHANGED <<seq, updated, resting, owner, expired, status, offered, existing, ranOut,
                     reached, erased>>
      /\ pc[p] = "asking" /\ pc' = [pc EXCEPT ![p] = "extracting"]
      /\ evidence' = [evidence EXCEPT ![p] = Nothing]
      /\ todo' = [todo EXCEPT ![p] = Tail(todo[p])]
      /\ cursor' = [cursor EXCEPT ![row.session] = row.seq]
      /\ \E result \in {evidence[p], Nothing} : found' = [found EXCEPT ![row.session] = result]
  BY DEF StoreExtraction, sessions, lease, Set, CursorAfter
<1>2. todo[p] \in Seq(Row) /\ todo[p] # << >>
  BY <1>1 DEF TypeInv, SelectedOK, ReadOK
<1>3. /\ row.session \in Sessions /\ row.seq \in Int /\ row.seq >= Nothing
      /\ evidence[p] \in row.seq .. seq[row.session] /\ evidence[p] \in Int
  <2>1. row \in Row
    BY <1>2, HeadTailProperties
  <2>2. row.session \in Sessions /\ row.seq \in Int /\ row.seq >= Nothing
    BY <2>1, SeqsType DEF Row
  <2> QED BY <1>1, <2>2 DEF TypeInv, ReadOK
<1>4. RowsOK'
  BY <1>1, <1>3 DEF TypeInv, RowsOK, Nothing
<1>5. /\ Tail(todo[p]) \in Seq(Row) /\ Len(Tail(todo[p])) <= MaxStartup
      /\ \A i \in DOMAIN Tail(todo[p]) : Tail(todo[p])[i].seq <= seq[Tail(todo[p])[i].session]
  <2>1. /\ Tail(todo[p]) \in Seq(Row) /\ Len(Tail(todo[p])) = Len(todo[p]) - 1
        /\ Len(todo[p]) \in Nat
        /\ \A i \in 1 .. Len(Tail(todo[p])) : Tail(todo[p])[i] = todo[p][i + 1]
    BY <1>2, HeadTailProperties
  <2>2. \A i \in 1 .. Len(Tail(todo[p])) : i + 1 \in DOMAIN todo[p]
    BY <1>2, <2>1
  <2>3. Len(todo[p]) <= MaxStartup /\ \A i \in DOMAIN todo[p] : todo[p][i].seq <= seq[todo[p][i].session]
    BY DEF TypeInv, SelectedOK
  <2>4. DOMAIN Tail(todo[p]) = 1 .. Len(Tail(todo[p]))
    BY <2>1, LenProperties
  <2> QED BY <2>1, <2>2, <2>3, <2>4, BoundsAssumption
<1>6. TodoOK' /\ SelectedOK'
  BY <1>1, <1>5 DEF TypeInv, TodoOK, SelectedOK
<1>7. ReadOK'
  BY <1>1, SeqsType DEF TypeInv, ReadOK, RestOK, TodoOK, Seqs
<1>8. OrderOK' /\ RestOK'
  BY <1>1 DEF TypeInv, OrderOK, RestOK
<1>9. FlagsOK'
  BY <1>1 DEF TypeInv, FlagsOK, StoreExtraction, Set
<1> QED BY <1>4, <1>6, <1>7, <1>8, <1>9 DEF TypeInv

LEMMA AskConsolidationTypeInv ==
  ASSUME TypeInv, NEW p \in Procs, AskConsolidation(p)
  PROVE  TypeInv'
<1>1. /\ UNCHANGED <<seq, updated, resting, cursor, found, owner, expired, status, todo,
                     evidence, ranOut, reached, erased>>
      /\ pc' = [pc EXCEPT ![p] = "consolidating"]
      /\ offered' = [offered EXCEPT ![p] = found]
      /\ existing' = [existing EXCEPT ![p] = ActiveAutomatic]
  BY DEF AskConsolidation, sessions, candidates, lease, Set
<1>2. RowsOK' /\ OrderOK' /\ TodoOK' /\ SelectedOK'
  BY <1>1 DEF TypeInv, RowsOK, OrderOK, TodoOK, SelectedOK
<1>3. ReadOK'
  BY <1>1 DEF TypeInv, ReadOK, RestOK
<1>4. found \in [Sessions -> Seqs]
  <2>1. ASSUME NEW s \in Sessions PROVE found[s] \in Seqs
    <3>1. /\ found[s] \in Int /\ seq[s] \in Nat /\ seq[s] <= MaxSeq[s]
          /\ cursor[s] \in Nothing .. seq[s]
          /\ found[s] = Nothing \/ found[s] \in cursor[s] .. seq[s]
      BY DEF TypeInv, RowsOK
    <3>2. MaxSeq[s] \in Nat
      BY BoundsAssumption DEF Sessions
    <3>3. found[s] = Nothing \/ found[s] \in 0 .. MaxSeq[s]
      BY <3>1, <3>2 DEF Nothing
    <3> QED BY <3>3 DEF Seqs
  <2> QED BY <2>1 DEF TypeInv, RowsOK
<1>5. RestOK'
  BY <1>1, <1>4 DEF TypeInv, RestOK, ActiveAutomatic
<1>6. FlagsOK'
  BY <1>1 DEF TypeInv, FlagsOK, AskConsolidation, Set
<1> QED BY <1>2, <1>3, <1>5, <1>6 DEF TypeInv

\* What Finish leaves of a pass, whatever ended it.
LEMMA FinishTypeInv ==
  ASSUME TypeInv, NEW p \in Procs, SkipConsolidation(p) \/ Promote(p) \/ Fail(p)
  PROVE  TypeInv'
<1>1. /\ UNCHANGED <<seq, updated, resting, cursor, found, owner, expired, ranOut, erased>>
      /\ pc' = [pc EXCEPT ![p] = "releasing"]
      /\ due' = [due EXCEPT ![p] = FALSE]
      /\ todo' = [todo EXCEPT ![p] = << >>] /\ evidence' = [evidence EXCEPT ![p] = Nothing]
      /\ offered' = [offered EXCEPT ![p] = NoEvidence] /\ existing' = [existing EXCEPT ![p] = {}]
  BY DEF SkipConsolidation, Promote, Fail, Finish, sessions, candidates, lease, Set
<1>2. RowsOK' /\ OrderOK' /\ FlagsOK'
  BY <1>1 DEF TypeInv, RowsOK, OrderOK, FlagsOK
<1>3. TodoOK' /\ SelectedOK'
  BY <1>1, BoundsAssumption DEF TypeInv, TodoOK, SelectedOK
<1>4. ReadOK'
  BY <1>1, SeqsType DEF TypeInv, ReadOK, RestOK, TodoOK, Seqs
<1>5. status' \in [Ids -> {"none", "active", "superseded", "forgotten"}]
  <2>1. CASE Promote(p)
    BY <2>1 DEF TypeInv, RestOK, Promote
  <2>2. CASE SkipConsolidation(p) \/ Fail(p)
    BY <2>2 DEF TypeInv, RestOK, SkipConsolidation, Fail
  <2> QED BY <2>1, <2>2
<1>6. reached' \in [Sessions -> Seqs]
  <2>1. CASE Promote(p)
    <3>1. \A s \in Sessions : reached[s] \in Seqs /\ offered[p][s] \in Seqs
      BY DEF TypeInv, RestOK
    <3>2. \A s \in Sessions : Max({reached[s], offered[p][s]}) \in Seqs
      BY <3>1, SeqsType, MaxOfTwo
    <3> QED BY <2>1, <3>2 DEF Promote
  <2>2. CASE SkipConsolidation(p) \/ Fail(p)
    BY <2>2 DEF TypeInv, RestOK, SkipConsolidation, Fail
  <2> QED BY <2>1, <2>2
<1>7. NoEvidence \in [Sessions -> Seqs]
  BY DEF NoEvidence, Seqs
<1>8. RestOK'
  BY <1>1, <1>5, <1>6, <1>7 DEF TypeInv, RestOK
<1> QED BY <1>2, <1>3, <1>4, <1>8 DEF TypeInv

LEMMA LeaveTypeInv ==
  ASSUME TypeInv, NEW p \in Procs, Release(p) \/ Crash(p)
  PROVE  TypeInv'
<1>1. /\ UNCHANGED <<seq, updated, resting, cursor, found, status, reached, erased>>
      /\ pc' = [pc EXCEPT ![p] = "idle"] /\ ranOut' = [ranOut EXCEPT ![p] = FALSE]
  BY DEF Release, Crash, sessions, candidates, Set
<1>2. \/ UNCHANGED <<due, todo, evidence, offered, existing>>
      \/ /\ due' = [due EXCEPT ![p] = FALSE]
         /\ todo' = [todo EXCEPT ![p] = << >>] /\ evidence' = [evidence EXCEPT ![p] = Nothing]
         /\ offered' = [offered EXCEPT ![p] = NoEvidence]
         /\ existing' = [existing EXCEPT ![p] = {}]
  BY DEF Release, Crash, pass, Set
<1>3. RowsOK' /\ OrderOK'
  BY <1>1 DEF TypeInv, RowsOK, OrderOK
<1>4. TodoOK' /\ SelectedOK'
  <2>1. CASE todo' = todo
    BY <1>1, <2>1 DEF TypeInv, TodoOK, SelectedOK
  <2>2. CASE todo' = [todo EXCEPT ![p] = << >>]
    BY <1>1, <2>2, BoundsAssumption DEF TypeInv, TodoOK, SelectedOK
  <2> QED BY <1>2, <2>1, <2>2
<1>5. ReadOK'
  <2>1. /\ evidence \in [Procs -> Seqs] /\ Nothing \in Seqs
        /\ \A q \in Procs : pc[q] = "asking" =>
             /\ todo[q] # << >>
             /\ evidence[q] \in Head(todo[q]).seq .. seq[Head(todo[q]).session]
    BY DEF TypeInv, ReadOK, Seqs
  <2>2. evidence' \in [Procs -> Seqs]
    BY <1>2, <2>1
  <2>3. ASSUME NEW q \in Procs, pc'[q] = "asking"
        PROVE  pc[q] = "asking" /\ todo'[q] = todo[q] /\ evidence'[q] = evidence[q]
    <3>1. q # p /\ pc[q] = "asking"
      BY <1>1, <2>3 DEF TypeInv, RestOK
    <3>2. todo \in [Procs -> Seq(Row)]
      BY DEF TypeInv, TodoOK
    <3> QED BY <1>2, <2>1, <3>1, <3>2
  <2>4. seq' = seq
    BY <1>1
  <2> QED BY <2>1, <2>2, <2>3, <2>4 DEF ReadOK
<1>6. NoEvidence \in [Sessions -> Seqs]
  BY DEF NoEvidence, Seqs
<1>7. owner' \in Procs \union {Dead, Free}
  BY DEF TypeInv, RestOK, Release, Crash, OwnerAfter
<1>8. RestOK'
  <2>1. RestOK
    BY DEF TypeInv
  <2>2. pc' \in [Procs -> {"idle", "extracting", "asking", "consolidating", "releasing"}]
    BY <1>1, <2>1 DEF RestOK
  <2>3. offered' \in [Procs -> [Sessions -> Seqs]] /\ existing' \in [Procs -> SUBSET Ids]
    <3>1. offered \in [Procs -> [Sessions -> Seqs]] /\ existing \in [Procs -> SUBSET Ids]
      BY <2>1 DEF RestOK
    <3>2. offered' \in [Procs -> [Sessions -> Seqs]]
      <4> HIDE DEF TypeInv
      <4>1. offered' = offered \/ offered' = [offered EXCEPT ![p] = NoEvidence]
        BY <1>2
      <4> QED BY <1>6, <3>1, <4>1
    <3>3. existing' \in [Procs -> SUBSET Ids]
      BY <1>2, <3>1
    <3> QED BY <3>2, <3>3
  <2> QED BY <1>1, <1>7, <2>1, <2>2, <2>3 DEF RestOK
<1>9. FlagsOK'
  <2>1. expired' \in BOOLEAN
    BY DEF TypeInv, FlagsOK, Release, Crash
  <2> QED BY <1>1, <1>2, <2>1 DEF TypeInv, FlagsOK
<1> QED BY <1>3, <1>4, <1>5, <1>8, <1>9 DEF TypeInv

LEMMA NextTypeInv == TypeInv /\ [Next]_vars => TypeInv'
<1> SUFFICES ASSUME TypeInv, [Next]_vars PROVE TypeInv'
  OBVIOUS
<1>1. ASSUME NEW p \in Procs, Step(p) PROVE TypeInv'
  BY <1>1, ReadEvidenceTypeInv, StoreExtractionTypeInv, AskConsolidationTypeInv,
     FinishTypeInv, LeaveTypeInv DEF Step
<1>2. ASSUME NEW p \in Procs, NEW f \in Forces[p], Acquire(p, f) PROVE TypeInv'
  BY <1>2, CallersAssumption, AcquireTypeInv
<1> QED BY <1>1, <1>2, ExtendTypeInv, WorldTypeInv, LeaveTypeInv DEF Next

\* Whatever passes overlap or fail, a row's cursor never says more was read than
\* its candidates were extracted from: sync() advances the cursor to the record
\* it selected, and reads the log, which only grows, later.
THEOREM CandidatesCoverCursor == Spec => []TypeOK
<1> QED BY InitTypeInv, NextTypeInv, TypeInvTypeOK, PTL DEF Spec

---------------------------------------------------------------------------
(* The lease.  A pass whose lease never ran out still has it.              *)

LeaseInv ==
  /\ pc \in [Procs -> {"idle", "extracting", "asking", "consolidating", "releasing"}]
  /\ ranOut \in [Procs -> BOOLEAN]
  /\ \A p \in Procs : pc[p] # "idle" /\ ~ranOut[p] => owner = p /\ ~expired

LEMMA LeaseInvOneMaintainer == LeaseInv => OneMaintainer
  BY DEF LeaseInv, OneMaintainer

LEMMA NextLeaseInv == LeaseInv /\ [Next]_vars => LeaseInv'
<1> SUFFICES ASSUME LeaseInv, [Next]_vars PROVE LeaseInv'
  OBVIOUS
<1>1. ASSUME NEW p \in Procs, NEW f \in Forces[p], Acquire(p, f) PROVE LeaseInv'
  BY <1>1, CallersAssumption DEF Acquire, LeaseInv, Set
<1>2. ASSUME NEW p \in Procs,
             ReadEvidence(p) \/ StoreExtraction(p) \/ AskConsolidation(p)
               \/ SkipConsolidation(p) \/ Promote(p) \/ Fail(p)
      PROVE  LeaseInv'
  <2>1. /\ UNCHANGED <<owner, expired, ranOut>> /\ pc[p] # "idle"
        /\ \E there \in {"extracting", "asking", "consolidating", "releasing"} :
             pc' = [pc EXCEPT ![p] = there]
    BY <1>2 DEF ReadEvidence, StoreExtraction, AskConsolidation, SkipConsolidation, Promote,
                Fail, Finish, lease, Set
  <2> QED BY <2>1 DEF LeaseInv
<1>3. ASSUME NEW p \in Procs, Release(p) PROVE LeaseInv'
  BY <1>3, CallersAssumption DEF Release, OwnerAfter, LeaseInv, Set
<1>4. ASSUME NEW p \in Procs, Crash(p) PROVE LeaseInv'
  BY <1>4 DEF Crash, LeaseInv, Set
<1>5. CASE Expire
  BY <1>5 DEF Expire, LeaseInv
<1>6. CASE \/ \E s \in Sessions : Extend(s) \/ Rest(s)
           \/ \E m \in Ids : Forget(m)
           \/ UNCHANGED vars
  <2>1. UNCHANGED <<pc, ranOut, owner, expired>>
    BY <1>6 DEF Extend, Rest, Forget, vars, lease
  <2> QED BY <2>1 DEF LeaseInv
<1> QED BY <1>1, <1>2, <1>3, <1>4, <1>5, <1>6 DEF Next, Step

\* However passes, crashes, expiries and late releases interleave, two processes
\* maintain the memory at once only if the lease of one ran out while it worked:
\* _acquire_pipeline and _release_pipeline never give a lease in force away.
THEOREM MaintenanceExclusive == Spec => []OneMaintainer
<1>1. Init => LeaseInv
  BY DEF Init, LeaseInv
<1> QED BY <1>1, NextLeaseInv, LeaseInvOneMaintainer, PTL DEF Spec

---------------------------------------------------------------------------
(* Forgetting.  The id of an erased memory is with no pass, and a pass     *)
(* only revives ids it has.                                                *)

ErasedInv ==
  /\ pc \in [Procs -> {"idle", "extracting", "asking", "consolidating", "releasing"}]
  /\ existing \in [Procs -> SUBSET Ids]
  /\ status \in [Ids -> {"none", "active", "superseded", "forgotten"}]
  /\ erased \subseteq Ids
  /\ ForgottenStaysForgotten
  /\ \A p \in Procs : pc[p] = "consolidating" => existing[p] \intersect erased = {}

LEMMA NextErasedInv == ErasedInv /\ [Next]_vars => ErasedInv'
<1> SUFFICES ASSUME ErasedInv, [Next]_vars PROVE ErasedInv'
  OBVIOUS
<1> USE DEF ErasedInv, ForgottenStaysForgotten, Set
<1>1. ASSUME NEW m \in Ids, Forget(m) PROVE ErasedInv'
  BY <1>1 DEF Forget, pass
<1>2. ASSUME NEW p \in Procs, AskConsolidation(p) PROVE ErasedInv'
  BY <1>2 DEF AskConsolidation, ActiveAutomatic
<1>3. ASSUME NEW p \in Procs, Promote(p) PROVE ErasedInv'
  <2>1. /\ UNCHANGED erased /\ pc[p] = "consolidating"
        /\ pc' = [pc EXCEPT ![p] = "releasing"] /\ existing' = [existing EXCEPT ![p] = {}]
    BY <1>3 DEF Promote, Finish
  <2>2. PICK kept \in SUBSET existing[p], new \in SUBSET {m \in Ids : NewId(m)} :
          status' = [m \in Ids |-> IF m \in kept \union new THEN "active"
                                   ELSE IF m \in ActiveAutomatic THEN "superseded" ELSE status[m]]
    BY <1>3 DEF Promote
  <2>3. \A m \in erased : status'[m] = "forgotten"
    BY <2>1, <2>2 DEF NewId, Unused, ActiveAutomatic
  <2>4. status' \in [Ids -> {"none", "active", "superseded", "forgotten"}]
    BY <2>2
  <2> QED BY <2>1, <2>3, <2>4
<1>4. ASSUME NEW p \in Procs,
             \/ \E f \in Forces[p] : Acquire(p, f)
             \/ ReadEvidence(p) \/ StoreExtraction(p) \/ SkipConsolidation(p) \/ Fail(p)
             \/ Release(p) \/ Crash(p)
      PROVE  ErasedInv'
  <2>1. /\ UNCHANGED <<status, erased>>
        /\ \E there \in {"idle", "extracting", "asking", "releasing"} :
             pc' = [pc EXCEPT ![p] = there]
        /\ existing' = existing \/ existing' = [existing EXCEPT ![p] = {}]
    BY <1>4 DEF Acquire, ReadEvidence, StoreExtraction, SkipConsolidation, Fail, Finish,
                Release, Crash, pass
  <2> QED BY <2>1
<1>5. CASE \/ \E s \in Sessions : Extend(s) \/ Rest(s)
           \/ Expire
           \/ UNCHANGED vars
  BY <1>5 DEF Extend, Rest, Expire, vars, pass
<1> QED BY <1>1, <1>2, <1>3, <1>4, <1>5 DEF Next, Step

\* Whatever passes promote later, a memory forgotten while no pass had sent its
\* id to the model stays forgotten: _consolidate offers and revives active ids.
THEOREM ForgettingIsFinal == Spec => []ForgottenStaysForgotten
<1>1. Init => ErasedInv
  BY DEF Init, ErasedInv, ForgottenStaysForgotten
<1>2. ErasedInv => ForgottenStaysForgotten
  BY DEF ErasedInv
<1> QED BY <1>1, <1>2, NextErasedInv, PTL DEF Spec
=============================================================================
