-------------------------- MODULE BackgroundProofs --------------------------
(***************************************************************************)
(* Theorems about Background, for any number of sessions, any size of the  *)
(* buffers and any limits: what the answers account for, how many records  *)
(* are kept, how often an end is reported and what is collected by then.   *)
(***************************************************************************)
EXTENDS Background, FiniteSetTheorems, TLAPS

---------------------------------------------------------------------------
(* What is computed.                                                       *)

LEMMA MaxOfTwo ==
  ASSUME NEW m \in Int, NEW n \in Int
  PROVE  Max({m, n}) = IF m >= n THEN m ELSE n
<1>1. \E x \in {m, n} : \A y \in {m, n} : x >= y
  OBVIOUS
<1>2. Max({m, n}) \in {m, n} /\ \A y \in {m, n} : Max({m, n}) >= y
  BY <1>1 DEF Max
<1> QED BY <1>2

LEMMA MinOfNaturals ==
  ASSUME NEW S, S \subseteq Nat, S # {}
  PROVE  Min(S) \in S
<1>1. PICK m \in S : \A n \in S : <<n, m>> \notin OpToRel(<, Nat)
  BY NatLessThanWellFounded, WFMin
<1>2. \A n \in S : ~(n < m)
  BY <1>1, Zenon DEF OpToRel
<1>3. \A n \in S : m <= n
  BY <1>2
<1> QED BY <1>3 DEF Min

\* An incremental answer accounts for each byte since the cursor: it is in the
\* answer or in the gap that the answer reports.
LEMMA SinceCovers ==
  ASSUME NEW n \in Nat, NEW from \in 0 .. n
  PROVE  /\ Cardinality(Since(from, n).bytes) \in Nat /\ Since(from, n).gap \in Int
         /\ Cardinality(Since(from, n).bytes) + Since(from, n).gap = n - from
<1> DEFINE start == Max({0, n - Limit})
<1>1. CASE from = 0
  <2>1. Since(from, n) = [bytes |-> Rendered(n), gap |-> n - Cardinality(Rendered(n))]
    BY <1>1 DEF Since
  <2>2. IsFiniteSet(1 .. n)
    BY FS_Interval
  <2>3. Rendered(n) \in SUBSET (1 .. n)
    BY DEF Rendered
  <2>4. Cardinality(Rendered(n)) \in Nat
    BY <2>2, <2>3, FS_Subset, FS_CardinalityType
  <2> QED BY <1>1, <2>1, <2>4
<1>2. CASE from # 0
  <2>1. Since(from, n) = [bytes |-> Max({from, start}) + 1 .. n, gap |-> Max({0, start - from})]
    BY <1>2 DEF Since
  <2>2. start \in 0 .. n
    BY MaxOfTwo, BoundsAssumption
  <2> HIDE DEF start
  <2>3. Max({from, start}) \in 0 .. n /\ Max({from, start}) = IF from >= start THEN from ELSE start
    BY <2>2, MaxOfTwo
  <2>4. Max({0, start - from}) = IF from >= start THEN 0 ELSE start - from
    BY <2>2, MaxOfTwo
  <2>5. Cardinality(Max({from, start}) + 1 .. n) = n - Max({from, start})
    BY <2>3, FS_Interval
  <2> QED BY <2>1, <2>2, <2>3, <2>4, <2>5
<1> QED BY <1>1, <1>2

---------------------------------------------------------------------------
(* The invariant.                                                          *)

EnumsOK ==
  /\ status \in [Tasks -> Statuses]
  /\ process \in [Tasks -> {"none", "alive", "zero", "nonzero"}]
  /\ watcher \in [Tasks -> {"none", "waiting", "draining", "finishing", "done"}]
  /\ stop \in [Tasks -> {"none", "called", "killing", "waiting"}]
  /\ close \in {"open", "stopping", "closed", "failed"} /\ doomed \subseteq Tasks
  /\ closer \in Tasks \union {0}

FlagsOK ==
  /\ held \in [Tasks -> BOOLEAN] /\ open \in [Tasks -> BOOLEAN]
  /\ reader \in [Tasks -> BOOLEAN] /\ condition \in [Tasks -> BOOLEAN]
  /\ interrupted \in [Tasks -> BOOLEAN] /\ stopping \in [Tasks -> BOOLEAN]
  /\ late \in [Tasks -> BOOLEAN] /\ unlogged \in [Tasks -> BOOLEAN]

BytesOK ==
  /\ printed \in [Tasks -> Nat] /\ total \in [Tasks -> Nat] /\ cursor \in [Tasks -> Nat]
  /\ \A t \in Tasks : cursor[t] <= total[t] /\ total[t] <= printed[t] /\ printed[t] <= Prints[t]
  /\ accounted = cursor

RoomOK ==
  /\ Cardinality(Running) <= MaxRunning
  /\ Cardinality(Running \union Ended) <= MaxRetained

\* A terminal event is appended with the terminal status, once.
EndsOK ==
  announced = [t \in Tasks |-> IF status[t] \in {"none", "running"} THEN 0 ELSE 1]

TypeInv == EnumsOK /\ FlagsOK /\ BytesOK /\ RoomOK /\ EndsOK

LEMMA TypeInvTypeOK == TypeInv => TypeOK
<1> SUFFICES ASSUME TypeInv PROVE TypeOK
  OBVIOUS
<1>1. \A t \in Tasks : cursor[t] \in 0 .. total[t] /\ total[t] \in 0 .. printed[t]
                      /\ printed[t] \in 0 .. Prints[t]
  BY BoundsAssumption DEF TypeInv, BytesOK, Tasks
<1>2. accounted \in [Tasks -> Nat] /\ announced \in [Tasks -> 0 .. 2]
  BY DEF TypeInv, BytesOK, EndsOK
<1>3. /\ held \in [Tasks -> BOOLEAN] /\ open \in [Tasks -> BOOLEAN]
      /\ reader \in [Tasks -> BOOLEAN] /\ condition \in [Tasks -> BOOLEAN]
      /\ interrupted \in [Tasks -> BOOLEAN] /\ stopping \in [Tasks -> BOOLEAN]
      /\ late \in [Tasks -> BOOLEAN] /\ unlogged \in [Tasks -> BOOLEAN]
  BY DEF TypeInv, FlagsOK
<1> QED BY <1>1, <1>2, <1>3 DEF TypeInv, EnumsOK, RoomOK, TypeOK

LEMMA TasksFinite ==
  /\ IsFiniteSet(Tasks)
  /\ \A S : S \subseteq Tasks => IsFiniteSet(S) /\ Cardinality(S) \in Nat
<1>1. IsFiniteSet(Tasks)
  BY FS_Interval, BoundsAssumption DEF Tasks
<1> QED BY <1>1, FS_Subset, FS_CardinalityType

LEMMA InitTypeInv == Init => TypeInv
<1> SUFFICES ASSUME Init PROVE TypeInv
  OBVIOUS
<1>1. EnumsOK
  BY DEF Init, EnumsOK, Statuses
<1>2. FlagsOK
  BY DEF Init, FlagsOK
<1>3. BytesOK
  BY BoundsAssumption DEF Init, BytesOK, Tasks
<1>4. RoomOK
  <2>1. Running = {} /\ Ended = {}
    BY DEF Init, Running, Ended, Terminal
  <2> QED BY <2>1, FS_EmptySet, RetentionAssumption DEF RoomOK
<1>5. EndsOK
  BY DEF Init, EndsOK
<1> QED BY <1>1, <1>2, <1>3, <1>4, <1>5 DEF TypeInv

---------------------------------------------------------------------------
(* Making room.                                                            *)

\* There is always an ended record to evict when the table is full.
LEMMA EvictedFacts ==
  ASSUME TypeInv, NEW t \in Tasks, MayStart(t)
  PROVE  \E gone \in SUBSET Ended :
           /\ Evicted = [u \in Tasks |-> IF u \in gone THEN "evicted" ELSE status[u]]
           /\ Cardinality((Running \union Ended) \ gone) + 1 <= MaxRetained
<1> DEFINE Kept == Running \union Ended
<1>1. /\ Running \subseteq Tasks /\ Ended \subseteq Tasks /\ Ended \subseteq Nat
      /\ Kept \subseteq Tasks /\ status \in [Tasks -> Statuses]
  BY BoundsAssumption DEF Running, Ended, Tasks, TypeInv, EnumsOK
<1>2. Cardinality(Kept) \in Nat /\ Cardinality(Kept) <= MaxRetained /\ IsFiniteSet(Kept)
  BY <1>1, TasksFinite DEF TypeInv, RoomOK
<1>3. CASE Cardinality(Kept) < MaxRetained
  <2>1. Evicted = [u \in Tasks |-> IF u \in {} THEN "evicted" ELSE status[u]]
    BY <1>1, <1>3 DEF Evicted
  <2>2. Kept \ {} = Kept
    OBVIOUS
  <2>3. Cardinality(Kept \ {}) + 1 <= MaxRetained
    BY <1>2, <1>3, <2>2, RetentionAssumption
  <2> QED BY <2>1, <2>3
<1>4. CASE ~(Cardinality(Kept) < MaxRetained)
  <2>1. Ended # {}
    <3>1. SUFFICES ASSUME Ended = {} PROVE FALSE
      OBVIOUS
    <3>2. Cardinality(Kept) < MaxRunning
      BY <3>1 DEF MayStart
    <3> HIDE DEF Kept
    <3> QED BY <1>2, <1>4, <3>2, RetentionAssumption
  <2>2. Min(Ended) \in Ended
    BY <1>1, <2>1, MinOfNaturals
  <2>3. Evicted = [u \in Tasks |-> IF u \in {Min(Ended)} THEN "evicted" ELSE status[u]]
    BY <1>1, <1>4, <2>2 DEF Evicted, Set
  <2>4. Cardinality(Kept \ {Min(Ended)}) = Cardinality(Kept) - 1
    BY <1>2, <2>2, FS_RemoveElement
  <2>5. Cardinality(Kept \ {Min(Ended)}) + 1 <= MaxRetained
    BY <1>2, <2>4, RetentionAssumption
  <2> QED BY <2>2, <2>3, <2>5
<1> QED BY <1>3, <1>4

\* What is forgotten with a record, whether or not the session then starts.
LEMMA MakeRoomFacts ==
  ASSUME BytesOK, FlagsOK, MakeRoom
  PROVE  BytesOK' /\ /\ interrupted' \in [Tasks -> BOOLEAN] /\ stopping' \in [Tasks -> BOOLEAN]
                     /\ late' \in [Tasks -> BOOLEAN] /\ unlogged' \in [Tasks -> BOOLEAN]
<1>1. BytesOK'
  <2>1. /\ printed' \in [Tasks -> Nat] /\ total' \in [Tasks -> Nat] /\ cursor' \in [Tasks -> Nat]
        /\ accounted' = cursor'
    BY DEF MakeRoom, Forget, BytesOK
  <2>2. ASSUME NEW t \in Tasks
        PROVE  cursor'[t] <= total'[t] /\ total'[t] <= printed'[t] /\ printed'[t] <= Prints[t]
    BY BoundsAssumption DEF MakeRoom, Forget, BytesOK, Tasks
  <2> QED BY <2>1, <2>2 DEF BytesOK
<1>2. /\ interrupted' \in [Tasks -> BOOLEAN] /\ stopping' \in [Tasks -> BOOLEAN]
      /\ late' \in [Tasks -> BOOLEAN] /\ unlogged' \in [Tasks -> BOOLEAN]
  BY DEF MakeRoom, Forget, FlagsOK
<1> QED BY <1>1, <1>2

LEMMA StartFailsTypeInv == TypeInv /\ StartFails => TypeInv'
<1> SUFFICES ASSUME TypeInv, StartFails PROVE TypeInv'
  OBVIOUS
<1>1. PICK t \in Tasks : MayStart(t)
  BY DEF StartFails
<1>2. PICK gone \in SUBSET Ended :
        /\ Evicted = [u \in Tasks |-> IF u \in gone THEN "evicted" ELSE status[u]]
        /\ Cardinality((Running \union Ended) \ gone) + 1 <= MaxRetained
  BY <1>1, EvictedFacts
<1>3. /\ status' = [u \in Tasks |-> IF u \in gone THEN "evicted" ELSE status[u]]
      /\ UNCHANGED <<process, held, open, reader, condition, watcher, stop, close, doomed, closer,
                     announced>>
      /\ MakeRoom
  BY <1>2 DEF StartFails, closing
<1>4. BytesOK' /\ FlagsOK'
  BY <1>3, MakeRoomFacts DEF TypeInv, FlagsOK
<1>5. EnumsOK'
  BY <1>3 DEF TypeInv, EnumsOK, Statuses
<1>6. RoomOK'
  <2>1. Running' = Running /\ (Running \union Ended)' = (Running \union Ended) \ gone
    BY <1>2, <1>3 DEF Running, Ended, Terminal
  <2>2. Cardinality((Running \union Ended) \ gone) \in Nat
    BY TasksFinite DEF Running, Ended
  <2>3. /\ Cardinality(Running') = Cardinality(Running)
        /\ Cardinality((Running \union Ended)') = Cardinality((Running \union Ended) \ gone)
    BY <2>1
  <2>4. Cardinality((Running \union Ended)') <= MaxRetained
    BY <1>2, <2>2, <2>3, RetentionAssumption
  <2> QED BY <2>3, <2>4 DEF TypeInv, RoomOK
<1>7. EndsOK'
  BY <1>2, <1>3 DEF TypeInv, EndsOK, Ended, Terminal
<1> QED BY <1>4, <1>5, <1>6, <1>7 DEF TypeInv

LEMMA StartTypeInv ==
  ASSUME TypeInv, NEW t \in Tasks, Start(t)
  PROVE  TypeInv'
<1>1. MayStart(t) /\ status[t] = "none"
  BY DEF Start, MayStart
<1>2. PICK gone \in SUBSET Ended :
        /\ Evicted = [u \in Tasks |-> IF u \in gone THEN "evicted" ELSE status[u]]
        /\ Cardinality((Running \union Ended) \ gone) + 1 <= MaxRetained
  BY <1>1, EvictedFacts
<1>3. /\ status' = [u \in Tasks |-> IF u = t THEN "running"
                                    ELSE IF u \in gone THEN "evicted" ELSE status[u]]
      /\ process' = [process EXCEPT ![t] = "alive"] /\ watcher' = [watcher EXCEPT ![t] = "waiting"]
      /\ UNCHANGED <<held, condition, stop, close, doomed, closer, announced>>
      /\ MakeRoom
  BY <1>2 DEF Start, Set, closing
<1>4. BytesOK' /\ FlagsOK'
  <2>1. open' \in [Tasks -> BOOLEAN] /\ reader' \in [Tasks -> BOOLEAN]
    BY DEF TypeInv, FlagsOK, Start, Set
  <2> QED BY <1>3, <2>1, MakeRoomFacts DEF TypeInv, FlagsOK
<1>5. EnumsOK'
  BY <1>3 DEF TypeInv, EnumsOK, Statuses
<1>6. RoomOK'
  <2>1. /\ Running' = Running \union {t} /\ t \notin Running /\ t \notin (Running \union Ended) \ gone
        /\ (Running \union Ended)' = ((Running \union Ended) \ gone) \union {t}
    BY <1>1, <1>2, <1>3 DEF Running, Ended, Terminal
  <2>2. /\ IsFiniteSet(Running) /\ Cardinality(Running) \in Nat
        /\ IsFiniteSet((Running \union Ended) \ gone)
        /\ Cardinality((Running \union Ended) \ gone) \in Nat
    BY TasksFinite DEF Running, Ended
  <2>3. /\ Cardinality(Running \union {t}) = Cardinality(Running) + 1
        /\ Cardinality(((Running \union Ended) \ gone) \union {t})
             = Cardinality((Running \union Ended) \ gone) + 1
    BY <2>1, <2>2, FS_AddElement
  <2>4. Cardinality(Running) < MaxRunning
    BY <1>1 DEF MayStart
  <2>5. /\ Cardinality(Running') = Cardinality(Running) + 1
        /\ Cardinality((Running \union Ended)') = Cardinality((Running \union Ended) \ gone) + 1
    BY <2>1, <2>3
  <2>6. Cardinality(Running') <= MaxRunning
    BY <2>2, <2>4, <2>5, RetentionAssumption
  <2>7. Cardinality((Running \union Ended)') <= MaxRetained
    BY <1>2, <2>5
  <2> QED BY <2>6, <2>7 DEF RoomOK
<1>7. EndsOK'
  BY <1>1, <1>2, <1>3 DEF TypeInv, EndsOK, Ended, Terminal
<1> QED BY <1>4, <1>5, <1>6, <1>7 DEF TypeInv

---------------------------------------------------------------------------
(* The other steps.                                                        *)

LEMMA EndTypeInv ==
  ASSUME TypeInv, NEW t \in Tasks, Finish(t) \/ ForceStopped(t)
  PROVE  TypeInv'
<1>1. /\ UNCHANGED <<process, held, printed, open, reader, total, cursor, accounted, condition,
                     interrupted, stopping, stop, close, doomed, closer, unlogged>>
      /\ watcher' = watcher \/ watcher' = [watcher EXCEPT ![t] = "done"]
      /\ \/ /\ status[t] = "running"
            /\ \E end \in Terminal : status' = [status EXCEPT ![t] = end]
            /\ announced' = [announced EXCEPT ![t] = announced[t] + 1]
         \/ UNCHANGED <<status, announced>>
  BY DEF Finish, ForceStopped, Outcome, Terminal, Set, proc, output, flags, closing
<1>2. BytesOK'
  BY <1>1 DEF TypeInv, BytesOK
<1>3. FlagsOK'
  <2>1. late' \in [Tasks -> BOOLEAN]
    BY DEF TypeInv, FlagsOK, Finish, ForceStopped, Set
  <2> QED BY <1>1, <2>1 DEF TypeInv, FlagsOK
<1>4. EnumsOK'
  BY <1>1 DEF TypeInv, EnumsOK, Statuses
<1>5. CASE UNCHANGED <<status, announced>>
  <2>1. RoomOK' /\ EndsOK'
    BY <1>5 DEF TypeInv, RoomOK, EndsOK, Running, Ended
  <2> QED BY <1>2, <1>3, <1>4, <2>1 DEF TypeInv
<1>6. ASSUME status[t] = "running",
             NEW end \in Terminal, status' = [status EXCEPT ![t] = end],
             announced' = [announced EXCEPT ![t] = announced[t] + 1]
      PROVE  TypeInv'
  <2>1. Running' \subseteq Running /\ (Running \union Ended)' = Running \union Ended
    BY <1>6 DEF TypeInv, EnumsOK, Running, Ended, Terminal
  <2>2. Cardinality(Running') <= Cardinality(Running) /\ Cardinality(Running) \in Nat
        /\ Cardinality(Running') \in Nat
    <3>1. IsFiniteSet(Running) /\ Running \subseteq Tasks
      BY TasksFinite DEF Running
    <3> QED BY <2>1, <3>1, FS_Subset, TasksFinite
  <2>3. RoomOK'
    BY <2>1, <2>2, RetentionAssumption DEF TypeInv, RoomOK
  <2>4. EndsOK'
    BY <1>6 DEF TypeInv, EnumsOK, EndsOK, Terminal
  <2> QED BY <1>2, <1>3, <1>4, <2>3, <2>4 DEF TypeInv
<1> QED BY <1>1, <1>5, <1>6

LEMMA BytesTypeInv ==
  ASSUME TypeInv, NEW t \in Tasks, Emit(t) \/ Read(t) \/ Consume(t)
  PROVE  TypeInv'
<1>1. UNCHANGED <<status, process, held, open, reader, condition, interrupted, stopping, watcher,
                  stop, close, doomed, closer, late, unlogged, announced>>
  BY DEF Emit, Read, Consume, proc, output, flags, closing
<1>2. EnumsOK' /\ FlagsOK' /\ RoomOK' /\ EndsOK'
  BY <1>1 DEF TypeInv, EnumsOK, FlagsOK, RoomOK, EndsOK, Running, Ended
<1>3. Prints \in [Tasks -> Nat]
  BY BoundsAssumption DEF Tasks
<1>4. BytesOK'
  <2>1. CASE Emit(t)
    BY <1>3, <2>1 DEF TypeInv, BytesOK, Emit, Set, output
  <2>2. CASE Read(t)
    BY <1>3, <2>2 DEF TypeInv, BytesOK, Read, Set, proc
  <2>3. CASE Consume(t)
    <3>1. /\ UNCHANGED <<printed, total>> /\ cursor' = [cursor EXCEPT ![t] = total[t]]
          /\ accounted' = [accounted EXCEPT ![t] = accounted[t]
                + Cardinality(Since(cursor[t], total[t]).bytes) + Since(cursor[t], total[t]).gap]
      BY <2>3 DEF Consume, Set, proc
    <3>2. total[t] \in Nat /\ cursor[t] \in 0 .. total[t] /\ accounted[t] = cursor[t]
      BY DEF TypeInv, BytesOK
    <3> DEFINE given == Cardinality(Since(cursor[t], total[t]).bytes)
               omitted == Since(cursor[t], total[t]).gap
    <3>3. given \in Nat /\ omitted \in Int /\ given + omitted = total[t] - cursor[t]
      BY <3>2, SinceCovers
    <3> HIDE DEF given, omitted
    <3>4. accounted[t] + given + omitted = total[t]
      BY <3>2, <3>3
    <3>5. accounted' = cursor'
      BY <3>1, <3>4 DEF TypeInv, BytesOK, given, omitted
    <3>6. \A u \in Tasks : cursor'[u] <= total[u] /\ cursor'[u] \in Nat
      BY <3>1 DEF TypeInv, BytesOK
    <3>7. cursor' \in [Tasks -> Nat]
      BY <3>1, <3>6 DEF TypeInv, BytesOK
    <3> QED BY <3>1, <3>5, <3>6, <3>7 DEF TypeInv, BytesOK
  <2> QED BY <2>1, <2>2, <2>3
<1> QED BY <1>2, <1>4 DEF TypeInv

\* The steps that move no byte and no status.
Others(t) ==
  \/ Exit(t) \/ DescendantExits(t) \/ ReaderEnds(t) \/ ReaderFails(t)
  \/ Reap(t) \/ Drained(t) \/ DrainTimesOut(t)
  \/ Write(t) \/ WriteReturns(t) \/ Interrupt(t)
  \/ CallStop(t) \/ RequestStop(t) \/ Kill(t) \/ KillRaises(t) \/ Join(t) \/ CloseStops(t)

LEMMA OthersTypeInv ==
  ASSUME TypeInv,
         \/ \E t \in Tasks : Others(t)
         \/ Close \/ CloseReturns \/ UNCHANGED vars
  PROVE  TypeInv'
<1>1. UNCHANGED <<status, printed, total, cursor, accounted, announced>>
  BY DEF Others, Exit, DescendantExits, ReaderEnds, ReaderFails, Reap, Drained, DrainTimesOut, Write,
         WriteReturns, Interrupt, CallStop, RequestStop, Kill, KillRaises, Join, CloseStops, Returns, Close,
         CloseReturns, vars, proc, output
<1>2. BytesOK' /\ RoomOK' /\ EndsOK'
  BY <1>1 DEF TypeInv, BytesOK, RoomOK, EndsOK, Running, Ended
<1>3. EnumsOK'
  <2>1. ASSUME NEW t \in Tasks, Others(t) PROVE EnumsOK'
    <3>1. CASE Exit(t) \/ DescendantExits(t) \/ ReaderEnds(t) \/ ReaderFails(t) \/ Write(t) \/ WriteReturns(t)
                 \/ Interrupt(t)
      BY <3>1 DEF TypeInv, EnumsOK, Exit, DescendantExits, ReaderEnds, ReaderFails, Write, WriteReturns,
                  Interrupt, Set, proc, closing
    <3>2. CASE Reap(t) \/ Drained(t) \/ DrainTimesOut(t)
      BY <3>2 DEF TypeInv, EnumsOK, Reap, Drained, DrainTimesOut, Set, proc, closing
    <3>3. CASE CallStop(t) \/ RequestStop(t) \/ KillRaises(t) \/ Join(t) \/ CloseStops(t)
      BY <3>3 DEF TypeInv, EnumsOK, CallStop, RequestStop, KillRaises, Join, CloseStops, Returns, Set, proc, closing
    <3>4. CASE Kill(t)
      BY <3>4 DEF TypeInv, EnumsOK, Kill, Killed, Set, proc, closing
    <3> QED BY <2>1, <3>1, <3>2, <3>3, <3>4 DEF Others
  <2>2. CASE Close \/ UNCHANGED vars
    BY <2>2 DEF TypeInv, EnumsOK, Close, Running, vars, proc, closing
  <2>3. CASE CloseReturns
    BY <2>3 DEF TypeInv, EnumsOK, CloseReturns
  <2> QED BY <2>1, <2>2, <2>3
<1>4. FlagsOK'
  <2>1. ASSUME NEW t \in Tasks, Others(t) PROVE FlagsOK'
    <3>1. CASE Exit(t) \/ DescendantExits(t) \/ ReaderEnds(t) \/ ReaderFails(t)
      BY <3>1 DEF TypeInv, FlagsOK, Exit, DescendantExits, ReaderEnds, ReaderFails, Set, proc, flags
    <3>2. CASE Reap(t) \/ Drained(t) \/ DrainTimesOut(t)
      BY <3>2 DEF TypeInv, FlagsOK, Reap, Drained, DrainTimesOut, Set, proc, flags
    <3>3. CASE Write(t) \/ WriteReturns(t) \/ Interrupt(t)
      BY <3>3 DEF TypeInv, FlagsOK, Write, WriteReturns, Interrupt, Set, proc, flags
    <3>4. CASE CallStop(t) \/ RequestStop(t) \/ Kill(t) \/ KillRaises(t) \/ Join(t) \/ CloseStops(t)
      BY <3>4 DEF TypeInv, FlagsOK, CallStop, RequestStop, Kill, KillRaises, Join, CloseStops, Returns, Set, proc, flags
    <3> QED BY <2>1, <3>1, <3>2, <3>3, <3>4 DEF Others
  <2>2. CASE Close \/ CloseReturns \/ UNCHANGED vars
    BY <2>2 DEF TypeInv, FlagsOK, Close, CloseReturns, vars, proc, flags
  <2> QED BY <2>1, <2>2
<1> QED BY <1>2, <1>3, <1>4 DEF TypeInv

LEMMA NextTypeInv == TypeInv /\ [Next]_vars => TypeInv'
<1> SUFFICES ASSUME TypeInv, [Next]_vars PROVE TypeInv'
  OBVIOUS
<1>1. ASSUME NEW t \in Tasks,
             Start(t) \/ Emit(t) \/ Read(t) \/ Consume(t) \/ Finish(t) \/ ForceStopped(t)
               \/ Others(t)
      PROVE  TypeInv'
  BY <1>1, StartTypeInv, BytesTypeInv, EndTypeInv, OthersTypeInv
<1> QED BY <1>1, StartFailsTypeInv, OthersTypeInv DEF Next, Watch, Reader, Stopper, Others

\* The limits of the manager hold, no end is reported twice, no counter leaves its
\* range, whatever the order in which readers, watchers, stops and close() run.
THEOREM BackgroundTypes == Spec => []TypeOK
<1> QED BY InitTypeInv, NextTypeInv, TypeInvTypeOK, PTL DEF Spec

\* Incremental answers neither repeat nor silently skip a byte, however large the
\* output is next to the head, the tail and the window of _OutputBytes.
THEOREM AnswersAccountForOutput == Spec => []EveryByteAccounted
<1>1. TypeInv => EveryByteAccounted
  BY DEF TypeInv, BytesOK, EveryByteAccounted
<1> QED BY <1>1, InitTypeInv, NextTypeInv, PTL DEF Spec

---------------------------------------------------------------------------
(* What is collected by the end.  Only the watcher of a terminal and a     *)
(* stop close the read end of a reader that still runs; any other reader   *)
(* ends when its log fails, or nobody is left who could print.             *)

Started(t) == status[t] \in Terminal \union {"running"}
AllRead(t) == Exited(t) /\ ~held[t] /\ total[t] = printed[t]

CollectOK(t) ==
  /\ Started(t) /\ stop[t] \in {"killing", "waiting"} => stopping[t]
  /\ status[t] = "none" => stop[t] = "none" /\ t \notin doomed
  /\ Started(t) /\ t \notin Interactive /\ ~stopping[t] =>
       /\ open[t]
       /\ ~reader[t] /\ ~unlogged[t] => AllRead(t)
       /\ ~late[t] /\ (watcher[t] \in {"finishing", "done"} \/ status[t] \in Terminal) => ~reader[t]

CollectInv == TypeInv /\ \A t \in Tasks : CollectOK(t)

LEMMA CollectInvEnds == CollectInv => EndHasAllOutput
  BY DEF CollectInv, CollectOK, Started, AllRead, EndHasAllOutput, Ended

LEMMA InitCollectInv == Init => CollectInv
<1> SUFFICES ASSUME Init PROVE CollectInv
  OBVIOUS
<1>1. \A t \in Tasks : CollectOK(t)
  BY DEF Init, CollectOK, Started, Terminal
<1> QED BY <1>1, InitTypeInv DEF CollectInv

LEMMA StartCollectOK ==
  ASSUME CollectInv, StartFails \/ \E t \in Tasks : Start(t), NEW u \in Tasks
  PROVE  CollectOK(u)'
<1>1. PICK t \in Tasks : MayStart(t) /\ (Start(t) \/ StartFails)
  BY DEF Start, StartFails
<1>2. PICK gone \in SUBSET Ended :
        Evicted = [v \in Tasks |-> IF v \in gone THEN "evicted" ELSE status[v]]
  BY <1>1, EvictedFacts DEF CollectInv
<1>3. CollectOK(u) /\ UNCHANGED <<held, stop, doomed>>
  BY <1>1 DEF CollectInv, Start, StartFails, closing
<1>4. CASE Start(t) /\ u = t
  <2>1. status[u] = "none" /\ status'[u] = "running" /\ watcher'[u] = "waiting"
        /\ open'[u] = TRUE /\ reader'[u] = TRUE
    BY <1>2, <1>4 DEF Start, MayStart, Set, CollectInv, TypeInv, EnumsOK, FlagsOK
  <2> QED BY <1>3, <2>1 DEF CollectOK, Terminal
<1>5. CASE StartFails \/ u # t
  <2>1. /\ status'[u] = Evicted[u]
        /\ process'[u] = process[u] /\ open'[u] = open[u] /\ reader'[u] = reader[u]
        /\ watcher'[u] = watcher[u]
    BY <1>1, <1>2, <1>5 DEF Start, StartFails, Set, CollectInv, TypeInv, EnumsOK, FlagsOK
  <2>2. CASE Evicted[u] = "evicted"
    BY <2>1, <2>2 DEF CollectOK, Started, Terminal
  <2>3. CASE Evicted[u] # "evicted"
    <3>1. status'[u] = status[u]
      BY <1>2, <2>1, <2>3
    <3>2. MakeRoom
      BY <1>1 DEF Start, StartFails
    <3>3. /\ printed'[u] = printed[u] /\ total'[u] = total[u] /\ stopping'[u] = stopping[u]
          /\ late'[u] = late[u] /\ unlogged'[u] = unlogged[u]
      BY <2>3, <3>2 DEF MakeRoom, Forget
    <3> QED BY <1>3, <2>1, <3>1, <3>3 DEF CollectOK, Started, AllRead, Exited
  <2> QED BY <2>2, <2>3
<1> QED BY <1>1, <1>4, <1>5

\* What an action leaves alone, of what CollectOK is about.
Same(u) ==
  /\ status'[u] = status[u] /\ process'[u] = process[u] /\ held'[u] = held[u]
  /\ printed'[u] = printed[u] /\ open'[u] = open[u] /\ reader'[u] = reader[u]
  /\ total'[u] = total[u] /\ stopping'[u] = stopping[u] /\ watcher'[u] = watcher[u]
  /\ stop'[u] = stop[u] /\ (u \in doomed' => u \in doomed) /\ late'[u] = late[u] /\ unlogged'[u] = unlogged[u]

LEMMA SameCollectOK ==
  ASSUME NEW u \in Tasks, CollectOK(u), Same(u)
  PROVE  CollectOK(u)'
  BY DEF CollectOK, Same, Started, AllRead, Exited

\* The process, its descendant and the reader.
LEMMA OutputCollectOK ==
  ASSUME CollectInv, NEW t \in Tasks,
         Emit(t) \/ Exit(t) \/ DescendantExits(t) \/ Read(t) \/ ReaderEnds(t) \/ ReaderFails(t),
         NEW u \in Tasks
  PROVE  CollectOK(u)'
<1>1. CollectOK(u) /\ UNCHANGED <<status, open, stopping, watcher, stop, doomed, late>>
  BY DEF CollectInv, Emit, Exit, DescendantExits, Read, ReaderEnds, ReaderFails, proc, output, flags,
         closing
<1>2. CASE u # t
  <2>1. Same(u)
    <3> USE DEF CollectInv, TypeInv, EnumsOK, FlagsOK, BytesOK, Same, Set, proc, output
    <3>1. CASE Emit(t)
      BY <1>1, <1>2, <3>1 DEF Emit
    <3>2. CASE Exit(t) \/ DescendantExits(t)
      BY <1>1, <1>2, <3>2 DEF Exit, DescendantExits
    <3>3. CASE Read(t)
      BY <1>1, <1>2, <3>3 DEF Read
    <3>4. CASE ReaderEnds(t) \/ ReaderFails(t)
      BY <1>1, <1>2, <3>4 DEF ReaderEnds, ReaderFails
    <3> QED BY <3>1, <3>2, <3>3, <3>4
  <2> QED BY <1>1, <2>1, SameCollectOK
<1>3. ASSUME u = t, Started(t), t \notin Interactive, ~stopping[t], open[t], ~reader'[t], ~unlogged'[t]
      PROVE  AllRead(t)'
  <2>1. CASE ReaderEnds(t)
    BY <1>3, <2>1 DEF ReaderEnds, AllRead, Exited, proc, output
  <2>2. CASE Emit(t) \/ Exit(t) \/ DescendantExits(t) \/ Read(t)
    <3>1. ~reader[t] /\ ~unlogged[t] /\ AllRead(t)
      BY <1>1, <1>3, <2>2 DEF CollectOK, Emit, Exit, DescendantExits, Read
    <3> QED BY <1>1, <2>2, <3>1 DEF Emit, Exit, DescendantExits, Read, AllRead, Exited, proc,
            output, Set, CollectInv, TypeInv, EnumsOK, FlagsOK, BytesOK
  <2>3. CASE ReaderFails(t)
    BY <1>3, <2>3 DEF ReaderFails, Set, CollectInv, TypeInv, FlagsOK
  <2> QED BY <2>1, <2>2, <2>3
<1>4. u = t /\ ~reader[t] => ~reader'[t]
  BY DEF Emit, Exit, DescendantExits, Read, ReaderEnds, ReaderFails, Set, CollectInv, TypeInv, FlagsOK
<1> QED BY <1>1, <1>2, <1>3, <1>4 DEF CollectOK, Started

LEMMA WatchCollectOK ==
  ASSUME CollectInv, NEW t \in Tasks, Watch(t) \/ ForceStopped(t), NEW u \in Tasks
  PROVE  CollectOK(u)'
<1> USE DEF CollectInv, TypeInv, EnumsOK, FlagsOK
<1>1. CollectOK(u) /\ UNCHANGED <<process, held, printed, reader, total, stopping, stop, doomed,
                                  unlogged>>
  BY DEF Watch, Reap, Drained, DrainTimesOut, Finish, ForceStopped, proc, output, flags, closing
<1>2. CASE u # t
  <2>1. Same(u)
    BY <1>1, <1>2 DEF Same, Watch, Reap, Drained, DrainTimesOut, Finish, ForceStopped, Set
  <2> QED BY <1>1, <2>1, SameCollectOK
<1>3. CASE u = t /\ Reap(t)
  BY <1>1, <1>3 DEF Reap, Set, CollectOK, Started, AllRead, Exited
<1>4. CASE u = t /\ Drained(t)
  BY <1>1, <1>4 DEF Drained, Set, CollectOK, Started, AllRead, Exited
<1>5. CASE u = t /\ DrainTimesOut(t)
  BY <1>1, <1>5 DEF DrainTimesOut, Set, CollectOK, Started, AllRead, Exited
<1>6. CASE u = t /\ Finish(t)
  <2>1. /\ watcher[t] = "finishing" /\ UNCHANGED <<open, late>>
        /\ \/ status'[t] = status[t]
           \/ status[t] = "running" /\ status'[t] \in Terminal
    BY <1>6 DEF Finish, Outcome, Terminal, Set
  <2> QED BY <1>1, <1>6, <2>1 DEF CollectOK, Started, AllRead, Exited, Terminal
<1>7. CASE u = t /\ ForceStopped(t)
  <2>1. /\ status[t] = "running" /\ status'[t] = "stopped" /\ late'[t] = TRUE
        /\ UNCHANGED <<open, watcher>>
    BY <1>7 DEF ForceStopped, Set
  <2> QED BY <1>1, <1>7, <2>1 DEF CollectOK, Started, AllRead, Exited, Terminal
<1> QED BY <1>2, <1>3, <1>4, <1>5, <1>6, <1>7 DEF Watch

LEMMA StopCollectOK ==
  ASSUME CollectInv, NEW t \in Tasks,
         CallStop(t) \/ CloseStops(t) \/ RequestStop(t) \/ Kill(t) \/ KillRaises(t) \/ Join(t),
         NEW u \in Tasks
  PROVE  CollectOK(u)'
<1> USE DEF CollectInv, TypeInv, EnumsOK, FlagsOK
<1>1. CollectOK(u)
      /\ UNCHANGED <<status, printed, reader, total, watcher, late, unlogged>>
      /\ doomed' \subseteq doomed
  BY DEF CallStop, CloseStops, RequestStop, Kill, KillRaises, Join, Returns, proc, output, closing
<1>2. CASE u # t
  <2>1. Same(u)
    BY <1>1, <1>2 DEF Same, CallStop, CloseStops, RequestStop, Kill, Killed, KillRaises, Join, Returns, Set, proc, flags
  <2> QED BY <1>1, <2>1, SameCollectOK
<1>3. CASE u = t /\ CallStop(t)
  BY <1>1, <1>3 DEF CallStop, Set, CollectOK, Started, AllRead, Exited, proc, flags
<1>4. CASE u = t /\ RequestStop(t)
  <2>1. /\ UNCHANGED <<process, held, open>> /\ stop[t] = "called"
        /\ \/ stop'[t] = "killing" /\ stopping'[t] = TRUE
           \/ stop'[t] = "none" /\ stopping'[t] = stopping[t]
    BY <1>4 DEF RequestStop, Returns, Set, proc
  <2> QED BY <1>1, <1>4, <2>1 DEF CollectOK, Started, AllRead, Exited
<1>5. CASE u = t /\ Kill(t)
  <2>1. /\ UNCHANGED <<open, stopping>> /\ stop[t] = "killing" /\ stop'[t] = "waiting"
        /\ Exited(t) => Exited(t)'
        /\ ~held[t] => ~held'[t]
    BY <1>5 DEF Kill, Killed, Set, flags, Exited
  <2> QED BY <1>1, <1>5, <2>1 DEF CollectOK, Started, AllRead
<1>6. CASE u = t /\ Join(t)
  <2>1. /\ UNCHANGED <<process, held, stopping>> /\ stop[t] = "waiting" /\ stop'[t] = "none"
    BY <1>6 DEF Join, Returns, Set, proc, flags
  <2> QED BY <1>1, <1>6, <2>1 DEF CollectOK, Started, AllRead, Exited
<1>7. CASE u = t /\ KillRaises(t)
  BY <1>1, <1>7 DEF KillRaises, Set, CollectOK, Started, AllRead, Exited, proc, flags
<1>8. CASE u = t /\ CloseStops(t)
  <2>1. doomed \subseteq Nat
    BY BoundsAssumption DEF Tasks
  <2>2. t \in doomed
    BY <1>8, <2>1, MinOfNaturals DEF CloseStops
  <2> QED BY <1>1, <1>8, <2>2 DEF CloseStops, Set, CollectOK, Started, AllRead, Exited, proc, flags
<1> QED BY <1>2, <1>3, <1>4, <1>5, <1>6, <1>7, <1>8

\* The callers and close().
LEMMA CallersCollectOK ==
  ASSUME CollectInv,
         \/ \E t \in Tasks : \/ Consume(t) \/ Write(t) \/ WriteReturns(t) \/ Interrupt(t)
         \/ Close \/ CloseReturns \/ UNCHANGED vars,
         NEW u \in Tasks
  PROVE  CollectOK(u)'
<1>1. CollectOK(u) /\ UNCHANGED <<status, held, printed, open, reader, total, stopping, watcher,
                                  stop, late, unlogged>>
  BY DEF CollectInv, Consume, Write, WriteReturns, Interrupt, Close, CloseReturns,
         vars, proc, output, flags
<1>2. Exited(u) => Exited(u)'
  <2>1. CASE CloseReturns
    <3>1. PICK dead \in SUBSET {t \in Running \union Ended : process[t] = "alive"} :
            process' = [t \in Tasks |-> IF t \in dead THEN "nonzero" ELSE process[t]]
      BY <2>1 DEF CloseReturns
    <3> QED BY <3>1 DEF Exited
  <2>2. CASE UNCHANGED process
    BY <2>2 DEF Exited
  <2> QED BY <2>1, <2>2 DEF Consume, Write, WriteReturns, Interrupt, Close, vars, proc
<1>3. u \in doomed' => u \in doomed \/ status[u] = "running"
  BY DEF Consume, Write, WriteReturns, Interrupt, Close, CloseReturns, Running, vars, closing
<1> QED BY <1>1, <1>2, <1>3 DEF CollectOK, Started, AllRead

LEMMA NextCollectInv == CollectInv /\ [Next]_vars => CollectInv'
<1> SUFFICES ASSUME CollectInv, [Next]_vars PROVE CollectInv'
  OBVIOUS
<1>1. TypeInv'
  BY NextTypeInv DEF CollectInv
<1>2. ASSUME NEW u \in Tasks PROVE CollectOK(u)'
  BY StartCollectOK, OutputCollectOK, WatchCollectOK, StopCollectOK, CallersCollectOK
  DEF Next, Reader, Watch, Stopper
<1> QED BY <1>1, <1>2 DEF CollectInv

\* A session of pipes that ends by itself within the drain time, and whose reader
\* did not give up because of its log, is reported ended only when everything it
\* printed is collected: no later answer has more.  For any number of sessions,
\* sizes of output, stops, evictions and sessions with a failing log.
THEOREM EndsAreComplete == Spec => []EndHasAllOutput
<1> QED BY InitCollectInv, NextCollectInv, CollectInvEnds, PTL DEF Spec
=============================================================================
