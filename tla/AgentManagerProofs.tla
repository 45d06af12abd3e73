------------------------- MODULE AgentManagerProofs -------------------------
(***************************************************************************)
(* Theorems about AgentManager, for any set of identities and any limits:  *)
(* which records exist and run, how often a run is reported, and what      *)
(* close() leaves.  The second half is about the workspaces of the same    *)
(* Agents, modules Workspaces and Worktrees: where the delta of a child    *)
(* is, and that none is lost.                                              *)
(***************************************************************************)
EXTENDS AgentManager, Workspaces, SequenceTheorems, FiniteSetTheorems, TLAPS

---------------------------------------------------------------------------
(* What is computed.                                                       *)

LEMMA MinOfNaturals ==
  ASSUME NEW S, S \subseteq Nat, S # {}
  PROVE  Min(S) \in S
<1>1. PICK m \in S : \A n \in S : <<n, m>> \notin OpToRel(<, Nat)
  BY NatLessThanWellFounded, WFMin
<1>2. \A n \in S : ~(n < m)
  BY <1>1, Zenon DEF OpToRel
<1>3. \A n \in S : m <= n
  BY <1>2
<1> QED BY <1>3 DEF Min

LEMMA ElementsFinite ==
  ASSUME NEW S, NEW s \in Seq(S)
  PROVE  IsFiniteSet(ToSet(s)) /\ ToSet(s) \subseteq S
<1>1. s \in [1 .. Len(s) -> S] /\ Len(s) \in Nat /\ DOMAIN s = 1 .. Len(s)
  BY LenProperties
<1>2. s \in Surjection(1 .. Len(s), ToSet(s))
  BY <1>1 DEF Surjection, ToSet
<1>3. IsFiniteSet(ToSet(s))
  BY <1>1, <1>2, FS_Interval, FS_Surjection
<1> QED BY <1>1, <1>3 DEF ToSet

\* One element less, in the same order.
LEMMA RemoveAtProperties ==
  ASSUME NEW S, NEW s \in Seq(S), NEW k \in 1 .. Len(s)
  PROVE  /\ RemoveAt(s, k) \in Seq(S) /\ Len(RemoveAt(s, k)) = Len(s) - 1
         /\ \A j \in 1 .. Len(s) - 1 : RemoveAt(s, k)[j] = IF j < k THEN s[j] ELSE s[j + 1]
<1>1. Len(s) \in Nat /\ \A i \in 1 .. Len(s) : s[i] \in S
  BY LenProperties, ElementOfSeq
<1>2. k \in Nat /\ k >= 1 /\ k <= Len(s)
  BY <1>1
<1> DEFINE before == SubSeq(s, 1, k - 1)
           after  == SubSeq(s, k + 1, Len(s))
<1>3. /\ before \in Seq(S) /\ Len(before) = k - 1
      /\ \A i \in 1 .. k - 1 : before[i] = s[i]
  <2>1. \A i \in 1 .. k - 1 : s[i] \in S
    BY <1>1, <1>2
  <2>2. /\ before \in Seq(S) /\ Len(before) = IF 1 <= k - 1 THEN k - 1 - 1 + 1 ELSE 0
        /\ \A i \in 1 .. k - 1 - 1 + 1 : before[i] = s[1 + i - 1]
    BY <1>2, <2>1, SubSeqProperties
  <2> HIDE DEF before
  <2> QED BY <1>2, <2>2
<1>4. /\ after \in Seq(S) /\ Len(after) = Len(s) - k
      /\ \A i \in 1 .. Len(s) - k : after[i] = s[k + i]
  <2>1. \A i \in k + 1 .. Len(s) : s[i] \in S
    BY <1>1, <1>2
  <2>2. /\ after \in Seq(S)
        /\ Len(after) = IF k + 1 <= Len(s) THEN Len(s) - (k + 1) + 1 ELSE 0
        /\ \A i \in 1 .. Len(s) - (k + 1) + 1 : after[i] = s[(k + 1) + i - 1]
    BY <1>1, <1>2, <2>1, SubSeqProperties
  <2> HIDE DEF after
  <2> QED BY <1>1, <1>2, <2>2
<1>5. RemoveAt(s, k) = before \o after
  BY DEF RemoveAt
<1> HIDE DEF before, after
<1>6. /\ before \o after \in Seq(S) /\ Len(before \o after) = Len(before) + Len(after)
      /\ \A j \in 1 .. Len(before) + Len(after) :
           (before \o after)[j] = IF j <= Len(before) THEN before[j] ELSE after[j - Len(before)]
  BY <1>3, <1>4, ConcatProperties
<1>7. ASSUME NEW j \in 1 .. Len(s) - 1
      PROVE  RemoveAt(s, k)[j] = IF j < k THEN s[j] ELSE s[j + 1]
  <2>1. j \in 1 .. Len(before) + Len(after) /\ Len(before) = k - 1
    BY <1>1, <1>2, <1>3, <1>4
  <2>2. CASE j < k
    BY <1>1, <1>2, <1>3, <1>5, <1>6, <2>1, <2>2
  <2>3. CASE ~(j < k)
    <3>1. (before \o after)[j] = after[j - (k - 1)]
      BY <1>1, <1>2, <1>6, <2>1, <2>3
    <3>2. j - (k - 1) \in 1 .. Len(s) - k /\ k + (j - (k - 1)) = j + 1
      BY <1>1, <1>2, <2>3
    <3>3. after[j - (k - 1)] = s[j + 1]
      BY <1>4, <3>2
    <3> QED BY <1>5, <2>3, <3>1, <3>3
  <2> QED BY <2>2, <2>3
<1> QED BY <1>1, <1>2, <1>3, <1>4, <1>5, <1>6, <1>7

---------------------------------------------------------------------------
(* The invariant.  A thread that has not reported yet belongs to the       *)
(* record's last generation, and the record is active until it reports:    *)
(* that is why followup never leaves a run behind that would find itself   *)
(* superseded.                                                             *)

Reporting == {"enter", "body", "finalize", "finish"}
Pending(a) == {g \in Generations : run[a][g] \notin {"none", "done"}}

ListOK == retained \in Seq(Agents) /\ Len(retained) <= MaxRetained /\ IsInjective(retained)

StatusOK ==
  /\ status \in [Agents -> Statuses]
  /\ generation \in [Agents -> 0 .. MaxTurns]
  /\ Cardinality(Running) <= MaxRunning
  /\ \A a \in Agents : /\ IsActive(status[a]) => a \in Retained
                       /\ a \in Retained => status[a] # "unknown"
                       /\ status[a] = "unknown" => generation[a] = 0

RunsOK ==
  /\ run \in [Agents -> [Generations -> RunPoints]]
  /\ verdict \in [Agents -> [Generations -> Statuses]]
  /\ \A a \in Agents, g \in Generations :
       /\ g > generation[a] => run[a][g] = "none"
       /\ run[a][g] \in Reporting => g = generation[a] /\ IsActive(status[a])
       /\ run[a][g] = "finish" => verdict[a][g] \in TerminalStatus

CountsOK ==
  /\ reported \in [Agents -> Nat]
  /\ \A a \in Agents : reported[a] + Cardinality(Pending(a)) = generation[a]

CallersOK ==
  /\ lock \in {"free", "controller", "closer"}
  /\ condition \in [Agents -> 0 .. MaxTurns]
  /\ caller \in [op : {"idle", "followup", "wait"}, agent : Agents \cup {"none"}]
  /\ closer \in {"away", "signal", "join", "closed"}
  /\ toSignal \in Seq(Agents)
  /\ stops \in 0 .. MaxStops
  /\ caller.op = "followup" => caller.agent \in Retained

FlagsOK == cancelled \in [Agents -> BOOLEAN] /\ closed \in BOOLEAN

LifecycleInv == ListOK /\ StatusOK /\ RunsOK /\ CountsOK /\ CallersOK /\ FlagsOK

LEMMA LifecycleInvTypeOK == LifecycleInv => TypeOK
<1> SUFFICES ASSUME LifecycleInv PROVE TypeOK
  OBVIOUS
<1>1. cancelled \in [Agents -> BOOLEAN] /\ closed \in BOOLEAN
  BY DEF LifecycleInv, FlagsOK
<1>2. caller.op \in {"idle", "followup", "wait"} /\ caller.agent \in Agents \cup {"none"}
  BY DEF LifecycleInv, CallersOK
<1> QED BY <1>1, <1>2 DEF LifecycleInv, ListOK, StatusOK, RunsOK, CountsOK, CallersOK, TypeOK

LEMMA LifecycleInvReports == LifecycleInv => EveryRunReportedOnce
  BY DEF LifecycleInv, CountsOK, Pending, EveryRunReportedOnce

LEMMA PendingFinite ==
  ASSUME NEW a \in Agents
  PROVE  /\ IsFiniteSet(Pending(a)) /\ Cardinality(Pending(a)) \in Nat
         /\ IsFiniteSet(Pending(a)') /\ Cardinality(Pending(a)') \in Nat
<1>1. IsFiniteSet(Generations)
  <2>1. MaxTurns \in Nat
    BY LimitsAssumption
  <2> QED BY <2>1, FS_Interval DEF Generations
<1>2. Pending(a) \in SUBSET Generations /\ Pending(a)' \in SUBSET Generations
  BY DEF Pending
<1> QED BY <1>1, <1>2, FS_Subset, FS_CardinalityType

LEMMA RunningFinite ==
  ASSUME ListOK
  PROVE  Running \subseteq Agents /\ IsFiniteSet(Running) /\ Cardinality(Running) \in Nat
<1>1. IsFiniteSet(Retained) /\ Retained \subseteq Agents
  BY ElementsFinite DEF ListOK, Retained
<1>2. Running \in SUBSET Retained
  BY DEF Running
<1> QED BY <1>1, <1>2, FS_Subset, FS_CardinalityType

LEMMA InitLifecycleInv == Init => LifecycleInv
<1> SUFFICES ASSUME Init PROVE LifecycleInv
  OBVIOUS
<1> USE LimitsAssumption
<1>1. ListOK
  BY DEF Init, ListOK, IsInjective
<1>2. StatusOK
  <2>1. Retained = {} /\ Running = {}
    BY DEF Init, Retained, Running, ToSet
  <2>2. Cardinality(Running) <= MaxRunning
    BY <2>1, FS_EmptySet
  <2> QED BY <2>1, <2>2 DEF Init, StatusOK, Statuses, IsActive, ActiveStatus
<1>3. RunsOK
  BY DEF Init, RunsOK, RunPoints, Statuses, Reporting
<1>4. CountsOK
  <2>1. \A a \in Agents : Pending(a) = {}
    BY DEF Init, Pending
  <2>2. \A a \in Agents : Cardinality(Pending(a)) = 0
    BY <2>1, FS_EmptySet
  <2> QED BY <2>2 DEF Init, CountsOK
<1>5. CallersOK
  BY StopsAssumption DEF Init, CallersOK, Idle
<1>6. FlagsOK
  BY DEF Init, FlagsOK
<1> QED BY <1>1, <1>2, <1>3, <1>4, <1>5, <1>6 DEF LifecycleInv

---------------------------------------------------------------------------
(* The records.                                                            *)

\* Eviction makes room and drops no active record.
LEMMA EvictedFacts ==
  ASSUME ListOK, Len(retained) < MaxRetained \/ Oldest(retained) # 0
  PROVE  /\ Evicted(retained) \in Seq(Agents) /\ Len(Evicted(retained)) + 1 <= MaxRetained
         /\ IsInjective(Evicted(retained))
         /\ ToSet(Evicted(retained)) \subseteq Retained
         /\ \A a \in Retained : IsActive(status[a]) => a \in ToSet(Evicted(retained))
<1>1. /\ Len(retained) \in Nat /\ DOMAIN retained = 1 .. Len(retained)
      /\ Len(retained) <= MaxRetained /\ retained \in Seq(Agents)
      /\ \A i, j \in 1 .. Len(retained) : retained[i] = retained[j] => i = j
  BY LenProperties DEF ListOK, IsInjective
<1>2. CASE Len(retained) < MaxRetained
  <2>1. Evicted(retained) = retained
    BY <1>2 DEF Evicted
  <2> QED BY <1>1, <1>2, <2>1, LimitsAssumption DEF ListOK, Retained
<1>3. CASE ~(Len(retained) < MaxRetained)
  <2> DEFINE terminal == {i \in DOMAIN retained : ~IsActive(status[retained[i]])}
             k == Oldest(retained)
             kept == RemoveAt(retained, k)
  <2>1. k \in 1 .. Len(retained) /\ ~IsActive(status[retained[k]])
    <3>1. terminal # {} /\ k = Min(terminal)
      BY <1>3 DEF Oldest
    <3>2. terminal \subseteq Nat
      BY <1>1
    <3>3. Min(terminal) \in terminal
      BY <3>1, <3>2, MinOfNaturals
    <3> QED BY <1>1, <3>1, <3>3
  <2>2. Evicted(retained) = kept
    BY <1>3 DEF Evicted
  <2> HIDE DEF k
  <2>3. /\ kept \in Seq(Agents) /\ Len(kept) = Len(retained) - 1
        /\ \A j \in 1 .. Len(retained) - 1 :
             kept[j] = IF j < k THEN retained[j] ELSE retained[j + 1]
    BY <1>1, <2>1, RemoveAtProperties
  <2>4. DOMAIN kept = 1 .. Len(retained) - 1
    BY <2>3, LenProperties
  <2> HIDE DEF kept
  <2>5. IsInjective(kept)
    <3> DEFINE n == Len(retained)
               at(j) == IF j < k THEN j ELSE j + 1
    <3>0. n \in Nat /\ k \in 1 .. n /\ \A i, j \in 1 .. n : retained[i] = retained[j] => i = j
      BY <1>1, <2>1
    <3> HIDE DEF n
    <3>2. /\ \A j \in 1 .. n - 1 : at(j) \in 1 .. n
          /\ \A i, j \in 1 .. n - 1 : at(i) = at(j) => i = j
      BY <3>0
    <3>3. \A j \in 1 .. n - 1 : kept[j] = retained[at(j)]
      BY <2>3 DEF n
    <3> HIDE DEF at
    <3>1. \A i, j \in 1 .. Len(retained) - 1 : kept[i] = kept[j] => i = j
      BY <3>0, <3>2, <3>3 DEF n
    <3> QED BY <2>4, <3>1 DEF IsInjective
  <2>6. ToSet(kept) \subseteq Retained
    <3>1. \A j \in 1 .. Len(retained) - 1 : kept[j] \in Retained
      <4>1. \A j \in 1 .. Len(retained) - 1 :
              (IF j < k THEN j ELSE j + 1) \in 1 .. Len(retained)
        BY <1>1, <2>1
      <4>2. \A i \in 1 .. Len(retained) : retained[i] \in Retained
        BY <1>1 DEF ToSet, Retained
      <4> QED BY <2>3, <4>1, <4>2
    <3> QED BY <2>4, <3>1 DEF ToSet
  <2>7. ASSUME NEW a \in Retained, IsActive(status[a]) PROVE a \in ToSet(kept)
    <3>1. PICK i \in 1 .. Len(retained) : retained[i] = a
      BY <1>1 DEF Retained, ToSet
    <3>2. i # k
      BY <2>1, <2>7, <3>1
    <3>3. CASE i < k
      <4>1. i \in 1 .. Len(retained) - 1 /\ kept[i] = a
        BY <1>1, <2>1, <2>3, <3>1, <3>3
      <4> QED BY <2>4, <4>1 DEF ToSet
    <3>4. CASE i > k
      <4>1. i - 1 \in 1 .. Len(retained) - 1 /\ kept[i - 1] = a
        BY <1>1, <2>1, <2>3, <3>1, <3>4
      <4> QED BY <2>4, <4>1 DEF ToSet
    <3> QED BY <1>1, <2>1, <3>2, <3>3, <3>4
  <2>8. Len(kept) + 1 <= MaxRetained
    BY <1>1, <2>3
  <2> QED BY <2>2, <2>3, <2>5, <2>6, <2>7, <2>8
<1> QED BY <1>2, <1>3

\* A record that settles, or is told to.
LEMMA StatusStep ==
  ASSUME ListOK, StatusOK, UNCHANGED <<retained, generation>>,
         NEW a \in Agents, NEW s \in Statuses \ {"unknown"},
         status' = [status EXCEPT ![a] = s],
         status[a] # "unknown", IsActive(s) => IsActive(status[a])
  PROVE  StatusOK'
<1>1. Retained' = Retained
  BY DEF Retained
<1>2. Running' \in SUBSET Running
  BY <1>1 DEF StatusOK, Running
<1>3. Cardinality(Running') <= MaxRunning
  <2>1. Cardinality(Running') <= Cardinality(Running) /\ Cardinality(Running') \in Nat
    BY <1>2, RunningFinite, FS_Subset, FS_CardinalityType
  <2>2. MaxRunning \in Nat
    BY LimitsAssumption
  <2> QED BY <2>1, <2>2, RunningFinite DEF StatusOK
<1> QED BY <1>1, <1>3 DEF StatusOK

\* A run more: its record was not active, and is one of those that stay.
LEMMA NewRunStatus ==
  ASSUME ListOK, StatusOK, NEW a \in Agents, NewRun(a), HasCapacity,
         ~IsActive(status[a]), generation[a] < MaxTurns,
         ListOK', a \in Retained', Retained' \subseteq Retained \union {a},
         \A b \in Retained : IsActive(status[b]) => b \in Retained'
  PROVE  StatusOK'
<1>1. /\ status' = [status EXCEPT ![a] = "starting"]
      /\ generation' = [generation EXCEPT ![a] = generation[a] + 1]
  BY DEF NewRun
<1>2. Running' = Running \union {a} /\ a \notin Running
  BY <1>1 DEF StatusOK, Running, IsActive, ActiveStatus
<1>3. Cardinality(Running') <= MaxRunning
  <2>1. Cardinality(Running \union {a}) = Cardinality(Running) + 1
    BY <1>2, RunningFinite, FS_AddElement
  <2>2. Cardinality(Running) < MaxRunning /\ MaxRunning \in Nat /\ Cardinality(Running) \in Nat
    BY LimitsAssumption, RunningFinite DEF HasCapacity
  <2>3. Cardinality(Running') = Cardinality(Running) + 1
    BY <1>2, <2>1
  <2> QED BY <2>2, <2>3
<1>4. generation' \in [Agents -> 0 .. MaxTurns]
  BY <1>1, LimitsAssumption DEF StatusOK
<1>5. \A b \in Agents : /\ IsActive(status'[b]) => b \in Retained'
                        /\ b \in Retained' => status'[b] # "unknown"
                        /\ status'[b] = "unknown" => generation'[b] = 0
  BY <1>1 DEF StatusOK
<1>6. status' \in [Agents -> Statuses]
  BY <1>1 DEF StatusOK, Statuses, ActiveStatus
<1> QED BY <1>3, <1>4, <1>5, <1>6 DEF StatusOK

\* ... and its thread is the only one of the record that has not reported.
LEMMA NewRunRuns ==
  ASSUME RunsOK, CountsOK, StatusOK, NEW a \in Agents, NewRun(a), ~IsActive(status[a]),
         generation[a] < MaxTurns,
         run' = [run EXCEPT ![a][generation[a] + 1] = "enter"],
         UNCHANGED <<verdict, reported>>
  PROVE  RunsOK' /\ CountsOK'
<1> DEFINE g == generation[a] + 1
<1>1. /\ status' = [status EXCEPT ![a] = "starting"]
      /\ generation' = [generation EXCEPT ![a] = g]
  BY DEF NewRun
<1>2. /\ g \in Generations /\ g \in Nat /\ Generations \subseteq Nat
      /\ \A b \in Agents : generation[b] \in Nat
  BY LimitsAssumption DEF StatusOK, Generations
<1>3. g > generation[a] /\ run[a][g] = "none"
  BY <1>2 DEF RunsOK
<1>4. \A b \in Agents, h \in Generations :
        run'[b][h] = IF b = a /\ h = g THEN "enter" ELSE run[b][h]
  BY <1>2 DEF RunsOK
<1>5. \A b \in Agents : /\ generation'[b] = IF b = a THEN g ELSE generation[b]
                        /\ status'[b] = IF b = a THEN "starting" ELSE status[b]
  BY <1>1 DEF StatusOK
<1>6. RunsOK'
  <2>1. run' \in [Agents -> [Generations -> RunPoints]]
    BY <1>2 DEF RunsOK, RunPoints
  <2>2. ASSUME NEW b \in Agents, NEW h \in Generations
        PROVE  /\ h > generation'[b] => run'[b][h] = "none"
               /\ run'[b][h] \in Reporting => h = generation'[b] /\ IsActive(status'[b])
               /\ run'[b][h] = "finish" => verdict'[b][h] \in TerminalStatus
    <3>1. CASE b = a /\ h = g
      BY <1>2, <1>4, <1>5, <3>1 DEF IsActive, ActiveStatus
    <3>2. CASE b = a /\ h # g
      <4>1. run[a][h] \notin Reporting /\ (h > g => run[a][h] = "none")
        BY <1>2, <3>2 DEF RunsOK
      <4> HIDE DEF g
      <4> QED BY <1>4, <1>5, <3>2, <4>1 DEF RunsOK
    <3>3. CASE b # a
      <4> HIDE DEF g
      <4> QED BY <1>4, <1>5, <3>3 DEF RunsOK
    <3> QED BY <3>1, <3>2, <3>3
  <2> QED BY <2>1, <2>2 DEF RunsOK
<1>7. CountsOK'
  <2>1. ASSUME NEW b \in Agents, b # a
        PROVE  reported'[b] + Cardinality(Pending(b)') = generation'[b]
    <3>1. Pending(b)' = Pending(b)
      BY <1>4, <2>1 DEF Pending
    <3>2. Cardinality(Pending(b)') = Cardinality(Pending(b))
      BY <3>1
    <3> HIDE DEF g
    <3> QED BY <1>5, <2>1, <3>2 DEF CountsOK
  <2>2. reported'[a] + Cardinality(Pending(a)') = generation'[a]
    <3>1. Pending(a)' = Pending(a) \union {g} /\ g \notin Pending(a)
      BY <1>2, <1>3, <1>4 DEF Pending
    <3> HIDE DEF g
    <3>2. Cardinality(Pending(a) \union {g}) = Cardinality(Pending(a)) + 1
      BY <3>1, PendingFinite, FS_AddElement
    <3>3. Cardinality(Pending(a)') = Cardinality(Pending(a)) + 1
      BY <3>1, <3>2
    <3>4. reported[a] + Cardinality(Pending(a)) = generation[a] /\ reported[a] \in Nat
      BY DEF CountsOK
    <3> QED BY <1>5, <3>3, <3>4, PendingFinite DEF g
  <2> QED BY <2>1, <2>2 DEF CountsOK
<1> QED BY <1>6, <1>7

---------------------------------------------------------------------------
(* The controller and close().                                             *)

LEMMA StartLifecycleInv ==
  ASSUME LifecycleInv, NEW a \in Agents, Start(a)
  PROVE  LifecycleInv'
<1>1. /\ status[a] = "unknown" /\ HasCapacity /\ NewRun(a)
      /\ Len(retained) < MaxRetained \/ Oldest(retained) # 0
      /\ retained' = Append(Evicted(retained), a)
      /\ run' = [run EXCEPT ![a][1] = "enter"]
      /\ UNCHANGED <<verdict, reported, lock, condition, caller, closer, toSignal, closed, stops>>
  BY DEF Start, StartAdmitted, NextIdentity, Fresh, closeVars
<1>2. generation[a] = 0 /\ ~IsActive(status[a]) /\ a \notin Retained /\ 0 < MaxTurns
  BY <1>1, LimitsAssumption DEF LifecycleInv, StatusOK, IsActive, ActiveStatus
<1>3. /\ Evicted(retained) \in Seq(Agents) /\ Len(Evicted(retained)) + 1 <= MaxRetained
      /\ IsInjective(Evicted(retained)) /\ ToSet(Evicted(retained)) \subseteq Retained
      /\ \A b \in Retained : IsActive(status[b]) => b \in ToSet(Evicted(retained))
  BY <1>1, EvictedFacts DEF LifecycleInv
<1> DEFINE kept == Evicted(retained)
<1> HIDE DEF kept
<1>4. /\ kept \in Seq(Agents) /\ Len(kept) + 1 <= MaxRetained /\ retained' = Append(kept, a)
      /\ Len(kept) \in Nat /\ DOMAIN kept = 1 .. Len(kept)
      /\ \A i, j \in 1 .. Len(kept) : kept[i] = kept[j] => i = j
      /\ \A i \in 1 .. Len(kept) : kept[i] # a
  BY <1>1, <1>2, <1>3, LenProperties DEF kept, IsInjective, ToSet
<1>5. /\ retained' \in Seq(Agents) /\ Len(retained') = Len(kept) + 1
      /\ \A i \in 1 .. Len(kept) : retained'[i] = kept[i]
      /\ retained'[Len(kept) + 1] = a
      /\ DOMAIN retained' = 1 .. Len(kept) + 1
  BY <1>4, AppendProperties, LenProperties
<1>6. ListOK'
  <2>1. \A i, j \in 1 .. Len(kept) + 1 : retained'[i] = retained'[j] => i = j
    BY <1>4, <1>5
  <2> QED BY <1>4, <1>5, <2>1 DEF ListOK, IsInjective
<1>7. Retained' = ToSet(kept) \union {a}
  <2>1. \A b : b \in ToSet(retained') <=> b \in ToSet(kept) \union {a}
    BY <1>4, <1>5 DEF ToSet
  <2> QED BY <2>1 DEF Retained
<1>8. StatusOK'
  BY <1>1, <1>2, <1>3, <1>6, <1>7, NewRunStatus DEF LifecycleInv, kept
<1>9. RunsOK' /\ CountsOK'
  <2>1. run' = [run EXCEPT ![a][generation[a] + 1] = "enter"]
    BY <1>1, <1>2
  <2>2. generation[a] < MaxTurns
    BY <1>2
  <2> QED BY <1>1, <1>2, <2>1, <2>2, NewRunRuns DEF LifecycleInv
<1>10. CallersOK'
  <2>1. caller.op # "followup"
    BY DEF Start, StartAdmitted, Idle
  <2> QED BY <1>1, <2>1 DEF LifecycleInv, CallersOK
<1>11. FlagsOK'
  BY <1>1 DEF LifecycleInv, FlagsOK, NewRun
<1> QED BY <1>6, <1>8, <1>9, <1>10, <1>11 DEF LifecycleInv

LEMMA StartFailsLifecycleInv ==
  ASSUME LifecycleInv, NEW a \in Agents, StartFails(a)
  PROVE  LifecycleInv'
<1>1. /\ Len(retained) < MaxRetained \/ Oldest(retained) # 0
      /\ retained' = Evicted(retained)
      /\ UNCHANGED <<status, generation, cancelled, run, verdict, reported, lock, condition, caller,
                     closer, toSignal, closed, stops>>
  BY DEF StartFails, StartAdmitted, closeVars
<1>2. /\ retained' \in Seq(Agents) /\ Len(retained') + 1 <= MaxRetained
      /\ IsInjective(retained') /\ Retained' \subseteq Retained
      /\ \A b \in Retained : IsActive(status[b]) => b \in Retained'
  BY <1>1, EvictedFacts DEF LifecycleInv, Retained
<1>3. ListOK'
  <2>1. Len(retained') \in Nat /\ MaxRetained \in Nat
    BY <1>2, LenProperties, LimitsAssumption
  <2> QED BY <1>2, <2>1 DEF ListOK
<1>4. StatusOK'
  <2>1. Running' = Running
    BY <1>1, <1>2 DEF Running
  <2>2. Cardinality(Running') = Cardinality(Running)
    BY <2>1
  <2> QED BY <1>1, <1>2, <2>2 DEF LifecycleInv, StatusOK
<1>5. RunsOK' /\ CountsOK' /\ CallersOK' /\ FlagsOK'
  <2>1. caller.op # "followup"
    BY DEF StartFails, StartAdmitted, Idle
  <2> QED BY <1>1, <2>1 DEF LifecycleInv, RunsOK, CountsOK, CallersOK, FlagsOK, Pending
<1> QED BY <1>3, <1>4, <1>5 DEF LifecycleInv

LEMMA FollowupLifecycleInv ==
  ASSUME LifecycleInv, NEW a \in Agents, Followup(a)
  PROVE  LifecycleInv'
<1>1. /\ UNCHANGED <<retained, verdict, reported, condition, closer, toSignal, closed, stops>>
      /\ lock' = "free" /\ caller' = Idle
  BY DEF Followup, closeVars
<1>2. ListOK' /\ CallersOK' /\ Retained' = Retained
  BY <1>1 DEF LifecycleInv, ListOK, CallersOK, Idle, Retained
<1>3. CASE UNCHANGED <<status, generation, cancelled, run>>
  <2>1. Running' = Running /\ \A b \in Agents : Pending(b)' = Pending(b)
    BY <1>2, <1>3 DEF Running, Pending
  <2>2. StatusOK'
    BY <1>2, <1>3, <2>1 DEF LifecycleInv, StatusOK
  <2>3. RunsOK' /\ CountsOK'
    BY <1>1, <1>3, <2>1 DEF LifecycleInv, RunsOK, CountsOK
  <2>4. FlagsOK'
    BY <1>1, <1>3 DEF LifecycleInv, FlagsOK
  <2> QED BY <1>2, <2>2, <2>3, <2>4 DEF LifecycleInv
<1>4. CASE /\ FollowupAccepted(a) /\ generation[a] < MaxTurns /\ NewRun(a)
           /\ run' = [run EXCEPT ![a][generation[a] + 1] = "enter"]
  <2>1. a \in Retained /\ ~IsActive(status[a]) /\ HasCapacity
    BY <1>4 DEF Followup, Calling, FollowupAccepted, LifecycleInv, CallersOK
  <2>2. StatusOK'
    BY <1>2, <1>4, <2>1, NewRunStatus DEF LifecycleInv
  <2>3. RunsOK' /\ CountsOK'
    BY <1>1, <1>4, <2>1, NewRunRuns DEF LifecycleInv
  <2>4. FlagsOK'
    BY <1>1, <1>4 DEF LifecycleInv, FlagsOK, NewRun
  <2> QED BY <1>2, <2>2, <2>3, <2>4 DEF LifecycleInv
<1> QED BY <1>3, <1>4 DEF Followup

LEMMA SignalLifecycleInv ==
  ASSUME LifecycleInv, NEW a \in Agents, a \in Retained, Signal(a),
         UNCHANGED <<retained, generation, run, verdict, reported, closed>>, CallersOK'
  PROVE  LifecycleInv'
<1>1. ListOK' /\ CountsOK'
  BY DEF LifecycleInv, ListOK, CountsOK, Pending
<1>2. FlagsOK'
  BY DEF LifecycleInv, FlagsOK, Signal
<1>3. CASE IsActive(status[a])
  <2>1. status' = [status EXCEPT ![a] = "stopping"]
    BY <1>3 DEF Signal
  <2>2. StatusOK'
    BY <1>3, <2>1, StatusStep DEF LifecycleInv, Statuses, IsActive, ActiveStatus
  <2>3. RunsOK'
    BY <2>1 DEF LifecycleInv, StatusOK, RunsOK, IsActive, ActiveStatus
  <2> QED BY <1>1, <1>2, <2>2, <2>3 DEF LifecycleInv
<1>4. CASE ~IsActive(status[a])
  <2>1. status' = status /\ Retained' = Retained
    BY <1>4 DEF Signal, Retained
  <2>2. Running' = Running
    BY <2>1 DEF Running
  <2>3. StatusOK' /\ RunsOK'
    BY <2>1, <2>2 DEF LifecycleInv, StatusOK, RunsOK
  <2> QED BY <1>1, <1>2, <2>3 DEF LifecycleInv
<1> QED BY <1>3, <1>4

LEMMA StopLifecycleInv ==
  ASSUME LifecycleInv, NEW a \in Agents, Stop(a)
  PROVE  LifecycleInv'
<1>1. /\ UNCHANGED <<retained, generation, run, verdict, reported, lock, condition, closer, toSignal,
                     closed>>
      /\ a \in Retained /\ Signal(a) /\ stops < MaxStops /\ stops' = stops + 1
      /\ caller' = Calling("wait", a) \/ caller' = Idle
  BY DEF Stop, closeVars
<1>2. CallersOK'
  BY <1>1, StopsAssumption DEF LifecycleInv, CallersOK, Calling, Idle
<1> QED BY <1>1, <1>2, SignalLifecycleInv

LEMMA CloseSignalLifecycleInv ==
  ASSUME LifecycleInv, CloseSignal
  PROVE  LifecycleInv'
<1>1. /\ UNCHANGED <<retained, generation, run, verdict, reported, lock, condition, caller, closer,
                     closed, stops>>
      /\ toSignal # << >> /\ toSignal' = Tail(toSignal) /\ Signal(Head(toSignal))
  BY DEF CloseSignal
<1>2. /\ toSignal \in Seq(Agents) /\ Head(toSignal) \in Agents /\ Tail(toSignal) \in Seq(Agents)
  BY <1>1, HeadTailProperties DEF LifecycleInv, CallersOK
<1>3. CallersOK' /\ Retained' = Retained
  BY <1>1, <1>2 DEF LifecycleInv, CallersOK, Retained
<1>4. CASE Head(toSignal) \in Retained
  BY <1>1, <1>2, <1>3, <1>4, SignalLifecycleInv
<1>5. CASE Head(toSignal) \notin Retained
  <2>1. UNCHANGED <<status, cancelled>>
    BY <1>1, <1>2, <1>5 DEF Signal, LifecycleInv, StatusOK
  <2>2. Running' = Running
    BY <1>3, <2>1 DEF Running
  <2>3. StatusOK' /\ RunsOK'
    BY <1>1, <1>3, <2>1, <2>2 DEF LifecycleInv, StatusOK, RunsOK
  <2>4. ListOK' /\ CountsOK' /\ FlagsOK'
    BY <1>1, <2>1 DEF LifecycleInv, ListOK, CountsOK, FlagsOK, Pending
  <2> QED BY <1>3, <2>3, <2>4 DEF LifecycleInv
<1> QED BY <1>4, <1>5

\* The steps that change no record and no run.
LEMMA CallersLifecycleInv ==
  ASSUME LifecycleInv,
         \/ \E a \in Agents : FollowupLock(a)
         \/ WaitReturns \/ CloseBegin \/ CloseRelease \/ CloseJoin \/ UNCHANGED vars
  PROVE  LifecycleInv'
<1> USE DEF FollowupLock, WaitReturns, CloseBegin, CloseRelease, CloseJoin, vars, closeVars
<1>1. UNCHANGED <<retained, status, generation, cancelled, run, verdict, reported, condition, stops>>
  OBVIOUS
<1>2. Retained' = Retained /\ Running' = Running /\ \A a : Pending(a)' = Pending(a)
  BY <1>1 DEF Retained, Running, Pending
<1>3. ListOK' /\ StatusOK' /\ RunsOK' /\ CountsOK'
  BY <1>1, <1>2 DEF LifecycleInv, ListOK, StatusOK, RunsOK, CountsOK
<1>4. CallersOK'
  BY <1>1, <1>2 DEF LifecycleInv, ListOK, CallersOK, Calling, Idle
<1>5. FlagsOK'
  BY <1>1 DEF LifecycleInv, FlagsOK
<1> QED BY <1>3, <1>4, <1>5 DEF LifecycleInv

---------------------------------------------------------------------------
(* The threads.                                                            *)

\* A step of a run that has not reported: the record stays active until the run
\* goes for its event.
LEMMA RunStep ==
  ASSUME LifecycleInv, NEW a \in Agents, NEW g \in Generations, run[a][g] \in Reporting,
         NEW point \in {"body", "finalize", "finish", "append"},
         NEW s \in Statuses, NEW v \in Statuses,
         run' = [run EXCEPT ![a][g] = point],
         status' = [status EXCEPT ![a] = s], s # "unknown", point # "append" => IsActive(s),
         verdict' = [verdict EXCEPT ![a][g] = v], point = "finish" => v \in TerminalStatus,
         condition' = condition \/ condition' = [condition EXCEPT ![a] = g],
         UNCHANGED <<retained, generation, cancelled, reported, lock, caller, closeVars, stops>>
  PROVE  LifecycleInv'
<1> USE DEF LifecycleInv, closeVars
<1>1. g = generation[a] /\ IsActive(status[a]) /\ status[a] # "unknown"
  BY DEF RunsOK, IsActive, ActiveStatus
<1>2. ListOK' /\ FlagsOK' /\ Retained' = Retained
  BY DEF ListOK, FlagsOK, Retained
<1>3. CallersOK'
  <2>1. condition' \in [Agents -> 0 .. MaxTurns]
    BY LimitsAssumption DEF CallersOK, Generations
  <2> QED BY <1>2, <2>1 DEF CallersOK
<1>4. StatusOK'
  BY <1>1, StatusStep
<1>5. \A b \in Agents, h \in Generations :
        /\ run'[b][h] = IF b = a /\ h = g THEN point ELSE run[b][h]
        /\ verdict'[b][h] = IF b = a /\ h = g THEN v ELSE verdict[b][h]
  BY DEF RunsOK
<1>6. \A b \in Agents : status'[b] = IF b = a THEN s ELSE status[b]
  BY DEF StatusOK
<1>7. RunsOK'
  <2>1. run' \in [Agents -> [Generations -> RunPoints]]
    BY DEF RunsOK, RunPoints
  <2>2. verdict' \in [Agents -> [Generations -> Statuses]]
    BY DEF RunsOK
  <2>3. ASSUME NEW b \in Agents, NEW h \in Generations
        PROVE  /\ h > generation[b] => run'[b][h] = "none"
               /\ run'[b][h] \in Reporting => h = generation[b] /\ IsActive(status'[b])
               /\ run'[b][h] = "finish" => verdict'[b][h] \in TerminalStatus
    <3>1. CASE b = a /\ h = g
      <4>1. ~(g > generation[a])
        BY <1>1, LimitsAssumption DEF StatusOK
      <4> QED BY <1>1, <1>5, <1>6, <3>1, <4>1 DEF Reporting
    <3>2. CASE b = a /\ h # g
      <4>1. run[a][h] \notin Reporting
        BY <1>1, <3>2 DEF RunsOK
      <4> QED BY <1>5, <3>2, <4>1 DEF RunsOK
    <3>3. CASE b # a
      BY <1>5, <1>6, <3>3 DEF RunsOK
    <3> QED BY <3>1, <3>2, <3>3
  <2> QED BY <2>1, <2>2, <2>3 DEF RunsOK
<1>8. CountsOK'
  <2>1. \A b \in Agents : Pending(b)' = Pending(b)
    BY <1>5 DEF Pending, Reporting
  <2>2. \A b \in Agents : Cardinality(Pending(b)') = Cardinality(Pending(b))
    BY <2>1
  <2> QED BY <2>2 DEF CountsOK
<1> QED BY <1>2, <1>3, <1>4, <1>7, <1>8

LEMMA EnterLifecycleInv ==
  ASSUME LifecycleInv, NEW a \in Agents, NEW g \in Generations, Enter(a, g)
  PROVE  LifecycleInv'
<1>1. /\ run[a][g] = "enter" /\ run[a][g] \in Reporting /\ verdict[a][g] \in Statuses
      /\ UNCHANGED <<retained, generation, cancelled, verdict, reported, lock, caller, closeVars, stops>>
  BY DEF Enter, Reporting, LifecycleInv, RunsOK
<1>2. generation[a] = g
  BY <1>1 DEF LifecycleInv, RunsOK
<1>3. verdict' = [verdict EXCEPT ![a][g] = verdict[a][g]]
  BY <1>1 DEF LifecycleInv, RunsOK
<1>4. CASE cancelled[a]
  <2>1. /\ run' = [run EXCEPT ![a][g] = "append"] /\ status' = [status EXCEPT ![a] = "stopped"]
        /\ condition' = [condition EXCEPT ![a] = g]
    BY <1>2, <1>4 DEF Enter, Goto
  <2>2. "stopped" \in Statuses
    BY DEF Statuses, TerminalStatus
  <2> QED BY <1>1, <1>3, <2>1, <2>2, RunStep
<1>5. CASE ~cancelled[a]
  <2>1. /\ run' = [run EXCEPT ![a][g] = "body"] /\ status' = [status EXCEPT ![a] = "running"]
        /\ condition' = condition
    BY <1>2, <1>5 DEF Enter, Goto
  <2>2. "running" \in Statuses /\ IsActive("running")
    BY DEF Statuses, IsActive, ActiveStatus
  <2> QED BY <1>1, <1>3, <2>1, <2>2, RunStep
<1> QED BY <1>4, <1>5

LEMMA BodyLifecycleInv ==
  ASSUME LifecycleInv, NEW a \in Agents, NEW g \in Generations,
         BodyEnds(a, g) \/ Finalize(a, g)
  PROVE  LifecycleInv'
<1>1. /\ run[a][g] \in Reporting /\ verdict[a][g] \in Statuses
      /\ UNCHANGED <<retained, status, generation, cancelled, reported, lock, condition, caller,
                     closeVars, stops>>
  BY DEF BodyEnds, Finalize, Reporting, LifecycleInv, RunsOK
<1>2. /\ status[a] \in Statuses /\ status' = [status EXCEPT ![a] = status[a]]
      /\ IsActive(status[a]) /\ status[a] # "unknown"
  BY <1>1 DEF LifecycleInv, StatusOK, RunsOK, IsActive, ActiveStatus
<1>3. ASSUME NEW s \in TerminalStatus, Decide(a, g, s) PROVE LifecycleInv'
  <2>1. /\ verdict' = [verdict EXCEPT ![a][g] = s] /\ run' = [run EXCEPT ![a][g] = "finish"]
        /\ s \in Statuses
    BY <1>3 DEF Decide, Goto, Statuses
  <2> QED BY <1>1, <1>2, <1>3, <2>1, RunStep
<1>4. ASSUME Goto(a, g, "finalize"), UNCHANGED verdict PROVE LifecycleInv'
  <2>1. run' = [run EXCEPT ![a][g] = "finalize"] /\ verdict' = [verdict EXCEPT ![a][g] = verdict[a][g]]
    BY <1>4 DEF Goto, LifecycleInv, RunsOK
  <2> QED BY <1>1, <1>2, <2>1, RunStep
<1> QED BY <1>3, <1>4 DEF BodyEnds, Finalize, DecideRaised, TerminalStatus

LEMMA FinishLifecycleInv ==
  ASSUME LifecycleInv, NEW a \in Agents, NEW g \in Generations, Finish(a, g)
  PROVE  LifecycleInv'
<1>1. /\ run[a][g] = "finish" /\ run[a][g] \in Reporting
      /\ verdict' = [verdict EXCEPT ![a][g] = "unknown"]
      /\ UNCHANGED <<retained, generation, cancelled, reported, lock, condition, caller, closeVars,
                     stops>>
  BY DEF Finish, Reporting
<1>2. generation[a] = g /\ IsActive(status[a]) /\ verdict[a][g] \in TerminalStatus
  BY <1>1 DEF LifecycleInv, RunsOK
<1>3. run' = [run EXCEPT ![a][g] = "append"] /\ status' = [status EXCEPT ![a] = verdict[a][g]]
  BY <1>2 DEF Finish, Goto
<1>4. /\ "unknown" \in Statuses
      /\ verdict[a][g] \in Statuses /\ verdict[a][g] # "unknown"
  BY <1>2 DEF Statuses, TerminalStatus
<1> QED BY <1>1, <1>3, <1>4, RunStep

\* The event is the run's one report: it is pending no longer.
LEMMA AppendLifecycleInv ==
  ASSUME LifecycleInv, NEW a \in Agents, NEW g \in Generations, AppendEvent(a, g)
  PROVE  LifecycleInv'
<1> USE DEF LifecycleInv
<1>1. /\ run[a][g] = "append" /\ run' = [run EXCEPT ![a][g] = "done"]
      /\ reported' = [reported EXCEPT ![a] = reported[a] + 1]
      /\ condition' = [condition EXCEPT ![a] = IF condition[a] = g THEN 0 ELSE condition[a]]
      /\ UNCHANGED <<retained, status, generation, cancelled, verdict, lock, caller, closer,
                     toSignal, closed, stops>>
  BY DEF AppendEvent, Goto, closeVars
<1>2. ListOK' /\ FlagsOK' /\ Retained' = Retained /\ Running' = Running
  BY <1>1 DEF ListOK, FlagsOK, Retained, Running
<1>3. CallersOK'
  <2>1. condition' \in [Agents -> 0 .. MaxTurns]
    BY <1>1, LimitsAssumption DEF CallersOK
  <2> QED BY <1>1, <1>2, <2>1 DEF CallersOK
<1>4. StatusOK'
  BY <1>1, <1>2 DEF StatusOK
<1>5. \A b \in Agents, h \in Generations :
        run'[b][h] = IF b = a /\ h = g THEN "done" ELSE run[b][h]
  BY <1>1 DEF RunsOK
<1>6. RunsOK'
  <2>1. run' \in [Agents -> [Generations -> RunPoints]]
    BY <1>1 DEF RunsOK, RunPoints
  <2>2. ~(g > generation[a])
    BY <1>1 DEF RunsOK
  <2> QED BY <1>1, <1>5, <2>1, <2>2 DEF RunsOK, Reporting
<1>7. CountsOK'
  <2>1. ASSUME NEW b \in Agents, b # a
        PROVE  reported'[b] + Cardinality(Pending(b)') = generation'[b]
    <3>1. Pending(b)' = Pending(b)
      BY <1>5, <2>1 DEF Pending
    <3>2. Cardinality(Pending(b)') = Cardinality(Pending(b))
      BY <3>1
    <3> QED BY <1>1, <2>1, <3>2 DEF CountsOK
  <2>2. reported'[a] + Cardinality(Pending(a)') = generation'[a]
    <3>1. Pending(a)' = Pending(a) \ {g} /\ g \in Pending(a)
      BY <1>1, <1>5 DEF Pending
    <3>2. Cardinality(Pending(a) \ {g}) = Cardinality(Pending(a)) - 1
      BY <3>1, PendingFinite, FS_RemoveElement
    <3>3. Cardinality(Pending(a)') = Cardinality(Pending(a)) - 1
      BY <3>1, <3>2
    <3>4. reported[a] + Cardinality(Pending(a)) = generation[a] /\ reported[a] \in Nat
      BY DEF CountsOK
    <3>5. reported'[a] = reported[a] + 1 /\ generation'[a] = generation[a]
      BY <1>1 DEF CountsOK
    <3> QED BY <3>3, <3>4, <3>5, PendingFinite
  <2>3. reported' \in [Agents -> Nat]
    BY <1>1 DEF CountsOK
  <2> QED BY <2>1, <2>2, <2>3 DEF CountsOK
<1> QED BY <1>2, <1>3, <1>4, <1>6, <1>7

LEMMA NextLifecycleInv == LifecycleInv /\ [Next]_vars => LifecycleInv'
<1> SUFFICES ASSUME LifecycleInv, [Next]_vars PROVE LifecycleInv'
  OBVIOUS
<1>1. CASE Controller
  BY <1>1, StartLifecycleInv, StartFailsLifecycleInv, FollowupLifecycleInv, StopLifecycleInv,
     CallersLifecycleInv DEF Controller
<1>2. CASE Closer
  BY <1>2, CloseSignalLifecycleInv, CallersLifecycleInv DEF Closer
<1>3. ASSUME NEW a \in Agents, NEW g \in Generations, Thread(a, g) PROVE LifecycleInv'
  BY <1>3, EnterLifecycleInv, BodyLifecycleInv, FinishLifecycleInv, AppendLifecycleInv DEF Thread
<1> QED BY <1>1, <1>2, <1>3, CallersLifecycleInv DEF Next

\* The manager's limits hold and eviction drops no record with a live child, for
\* any interleaving of starts, follow-ups, stops, close() and the runs' threads.
THEOREM LifecycleTypes == Spec => []TypeOK
<1> QED BY InitLifecycleInv, NextLifecycleInv, LifecycleInvTypeOK, PTL DEF Spec

\* Each run of a child appends one terminal event: none is lost to a follow-up, a
\* stop or close(), and none is appended twice.
THEOREM RunsReportOnce == Spec => []EveryRunReportedOnce
<1> QED BY InitLifecycleInv, NextLifecycleInv, LifecycleInvReports, PTL DEF Spec

---------------------------------------------------------------------------
(* close().  Once the manager is closed nothing comes to life, so every    *)
(* live child is one that close() has yet to signal.                       *)

Live(a) == IsActive(status[a]) /\ ~cancelled[a]

CloseInv ==
  /\ LifecycleInv
  /\ closer # "away" => closed
  /\ closer = "signal" => \A a \in Agents : Live(a) => a \in ToSet(toSignal)
  /\ closer \in {"join", "closed"} => \A a \in Agents : ~Live(a)

LEMMA ClosedStaysQuiet ==
  ASSUME LifecycleInv, closed, [Next]_vars, NEW b \in Agents
  PROVE  Live(b)' => Live(b)
<1> USE DEF LifecycleInv
<1>1. ASSUME NEW a \in Agents, Start(a) \/ StartFails(a) PROVE FALSE
  BY <1>1 DEF Start, StartFails, StartAdmitted, HasCapacity
<1>2. ASSUME NEW a \in Agents, Followup(a) PROVE UNCHANGED <<status, cancelled>>
  BY <1>2 DEF Followup, FollowupAccepted, HasCapacity
<1>3. ASSUME NEW a \in Agents, Signal(a) PROVE Live(b)' => Live(b)
  BY <1>3 DEF Signal, Live, StatusOK, FlagsOK
<1>4. ASSUME NEW a \in Agents, NEW g \in Generations, Enter(a, g) PROVE Live(b)' => Live(b)
  <2>1. run[a][g] = "enter" => IsActive(status[a])
    BY DEF RunsOK, Reporting
  <2> QED BY <1>4, <2>1 DEF Enter, Live, StatusOK, IsActive, ActiveStatus
<1>5. ASSUME NEW a \in Agents, NEW g \in Generations, Finish(a, g) PROVE Live(b)' => Live(b)
  <2>1. run[a][g] = "finish" => verdict[a][g] \in TerminalStatus
    BY DEF RunsOK
  <2>2. verdict[a][g] \in TerminalStatus => ~IsActive(verdict[a][g])
    BY DEF TerminalStatus, IsActive, ActiveStatus
  <2> QED BY <1>5, <2>1, <2>2 DEF Finish, Live, StatusOK
<1>6. UNCHANGED <<status, cancelled>> => (Live(b)' => Live(b))
  BY DEF Live
<1>7. CASE Controller
  BY <1>1, <1>2, <1>3, <1>6, <1>7 DEF Controller, FollowupLock, Stop, WaitReturns
<1>8. CASE Closer
  <2>1. CloseSignal => Head(toSignal) \in Agents
    BY HeadTailProperties DEF CloseSignal, CallersOK
  <2> QED BY <1>3, <1>6, <1>8, <2>1 DEF Closer, CloseBegin, CloseSignal, CloseRelease, CloseJoin
<1>9. ASSUME NEW a \in Agents, NEW g \in Generations, Thread(a, g) PROVE Live(b)' => Live(b)
  BY <1>4, <1>5, <1>6, <1>9 DEF Thread, BodyEnds, Finalize, AppendEvent
<1> QED BY <1>6, <1>7, <1>8, <1>9 DEF Next, vars

LEMMA NextCloseInv == CloseInv /\ [Next]_vars => CloseInv'
<1> SUFFICES ASSUME CloseInv, [Next]_vars PROVE CloseInv'
  OBVIOUS
<1>1. LifecycleInv /\ LifecycleInv'
  BY NextLifecycleInv DEF CloseInv
<1>2. CASE CloseBegin
  <2>1. \A a \in Agents : Live(a)' => a \in ToSet(toSignal')
    BY <1>1, <1>2 DEF CloseBegin, Live, LifecycleInv, StatusOK, Retained
  <2> QED BY <1>1, <1>2, <2>1 DEF CloseInv, CloseBegin
<1>3. CASE CloseSignal
  <2>1. /\ closer = "signal" /\ closed /\ UNCHANGED <<closer, closed>> /\ toSignal # << >>
        /\ toSignal' = Tail(toSignal) /\ Signal(Head(toSignal))
    BY <1>3 DEF CloseSignal, CloseInv
  <2>2. toSignal \in Seq(Agents)
    BY <1>1 DEF LifecycleInv, CallersOK
  <2>3. /\ Head(toSignal) \in Agents /\ Tail(toSignal) \in Seq(Agents)
        /\ Len(Tail(toSignal)) = Len(toSignal) - 1
        /\ \A i \in 1 .. Len(Tail(toSignal)) : Tail(toSignal)[i] = toSignal[i + 1]
        /\ Head(toSignal) = toSignal[1] /\ Len(toSignal) \in Nat
    BY <2>1, <2>2, HeadTailProperties, LenProperties
  <2>4. PICK first \in Agents : first = Head(toSignal) /\ ~Live(first)'
    <3>1. ASSUME NEW a \in Agents, a = Head(toSignal) PROVE ~Live(a)'
      BY <1>1, <2>1, <3>1 DEF Signal, Live, LifecycleInv, StatusOK, FlagsOK
    <3> QED BY <2>3, <3>1
  <2>5. ASSUME NEW a \in Agents, Live(a)' PROVE a \in ToSet(toSignal')
    <3>1. Live(a) /\ a # Head(toSignal)
      BY <1>1, <2>1, <2>4, <2>5, ClosedStaysQuiet
    <3>2. PICK i \in 1 .. Len(toSignal) : toSignal[i] = a
      BY <2>1, <2>2, <3>1, LenProperties DEF CloseInv, ToSet
    <3>3. i - 1 \in 1 .. Len(Tail(toSignal)) /\ Tail(toSignal)[i - 1] = a
      BY <2>3, <3>1, <3>2
    <3>4. DOMAIN Tail(toSignal) = 1 .. Len(Tail(toSignal))
      BY <2>3, LenProperties
    <3> QED BY <2>1, <3>3, <3>4 DEF ToSet
  <2> QED BY <1>1, <2>1, <2>5 DEF CloseInv
<1>4. CASE CloseRelease
  <2>1. \A a \in Agents : ~Live(a)'
    BY <1>4, ClosedStaysQuiet, <1>1 DEF CloseRelease, CloseInv, ToSet
  <2> QED BY <1>1, <1>4, <2>1 DEF CloseInv, CloseRelease
<1>5. CASE ~CloseBegin /\ ~CloseSignal /\ ~CloseRelease
  <2>1. /\ UNCHANGED <<toSignal, closed>>
        /\ closer' = closer \/ (closer = "join" /\ closer' = "closed")
    BY <1>5 DEF Next, Controller, Closer, Thread, Start, StartFails, FollowupLock, Followup, Stop,
       WaitReturns, CloseJoin, Enter, BodyEnds, Finalize, Finish, AppendEvent, vars, closeVars
  <2>2. closer # "away" => \A a \in Agents : Live(a)' => Live(a)
    BY <1>1, ClosedStaysQuiet DEF CloseInv
  <2> QED BY <1>1, <2>1, <2>2 DEF CloseInv
<1> QED BY <1>2, <1>3, <1>4, <1>5

\* No child runs on uncancelled once close() has signalled every record, whatever
\* start, followup and stop were doing when it began: it signals under _lock, and
\* whoever needs capacity looks at _closed under the same lock.
THEOREM CloseLeavesNothingRunning == Spec => []NoneRunsPastClose
<1>1. Init => CloseInv
  BY InitLifecycleInv DEF Init, CloseInv
<1>2. CloseInv => NoneRunsPastClose
  BY DEF CloseInv, Live, NoneRunsPastClose
<1> QED BY <1>1, <1>2, NextCloseInv, PTL DEF Spec

---------------------------------------------------------------------------
(* The isolated workspaces of the Agents above, which create, finalize and *)
(* fail of this manager drive.  Their state, its types and promises are    *)
(* those of module Workspaces; their operations are instantiated, so that  *)
(* they do not meet the operations of AgentManager of the same names.      *)

W == INSTANCE Worktrees

\* What Worktrees assumes of its constants.
WorkspaceAssumptions == W!ContentsAssumption /\ W!BoundsAssumption

\* The types of the stage, of the operation in hand, of what a run changed.
StageType ==
  [open : BOOLEAN, full : BOOLEAN, start : W!Files, observed : W!Files, before : SUBSET Owners]
OpType ==
  [kind : {"idle", "integrate", "reconcile", "accept", "rollback"},
   agent : Owners \union {"none"}, snapshot : W!Files]
Changes == SUBSET (Paths \X (Contents \union {Markers}))

\* The files, the worktrees and commits, and what runs have changed.
FilesOK ==
  /\ root \in W!Files
  /\ work \in [Owners -> W!Files \union {Gone}]
  /\ baseline \in [Owners -> W!Files \union {Gone}]
  /\ head \in [Owners -> W!Files \union {Gone}]
  /\ finished \in [Owners -> Changes]

\* The manifests, the records, the stage and the operation in hand.
RecordsOK ==
  /\ manifest \in [Owners -> W!ManifestStatuses]
  /\ child \in [Owners -> {"unknown", "running", "terminal"}]
  /\ stage \in StageType
  /\ op \in OpType
  /\ applied \subseteq Owners

\* The bounded counters, and what went wrong.
BoundsOK ==
  /\ writes \in 0 .. MaxWrites /\ stages \in 0 .. MaxStages /\ starts \in 0 .. MaxStarts
  /\ mishaps \subseteq W!Mishaps

(* An Agent without a worktree has none of the rest.  A worktree is there  *)
(* for a child that runs, and for what may be followed up or reviewed.     *)
Known(a) ==
  /\ head[a] = Gone => /\ baseline[a] = Gone /\ work[a] = Gone
                       /\ child[a] = "unknown" /\ manifest[a] = "none"
                       /\ finished[a] = {} /\ a \notin applied
  /\ head[a] # Gone => baseline[a] # Gone
  /\ child[a] = "running" => work[a] # Gone /\ manifest[a] \in {"active", "orphaned"}
  /\ child[a] = "terminal" /\ manifest[a] \in W!Kept => work[a] # Gone
  /\ child[a] = "terminal" /\ manifest[a] = "integrated_pending" /\ op.kind # "accept" =>
       work[a] # Gone

\* The same of every Agent.
KnownOK == \A a \in Owners : Known(a)

\* The Agent whose delta is on its way is in no other hands.
OpOK ==
  op.kind \in {"integrate", "reconcile"} =>
    /\ op.agent \in Owners /\ child[op.agent] = "terminal"
    /\ op.kind = "integrate" => manifest[op.agent] \in {"ready", "orphaned"}
    /\ op.kind = "reconcile" => manifest[op.agent] = "none"

\* The type of the state, with what it rests on.
TypeInv == WorkspaceAssumptions /\ FilesOK /\ RecordsOK /\ BoundsOK /\ KnownOK /\ OpOK

\* Where a delta is.
InRoot ==
  /\ op.kind = "integrate" => op.agent \in applied
  /\ op.kind # "rollback" /\ W!Without({"half rolled back"}) =>
       \A a \in Owners : manifest[a] = "integrated_pending" => a \in applied

\* And it is nowhere else: nothing is left over from an earlier stage.
InNoRoot ==
  W!Without({"half integrated", "earlier"}) =>
    /\ \A a \in applied : \/ manifest[a] = "integrated_pending"
                          \/ op.kind = "integrate" /\ op.agent = a
    /\ stage.before = {}
    /\ op.kind = "rollback" => applied = {}

DeltaInv == TypeInv /\ InRoot /\ InNoRoot

\* These files hold no marker.
Clean(files) == \A p \in Paths : files[p] # Markers

\* The root, what it is restored or replayed from, and every commit are clean.
MarkersOK ==
  W!Without({"unresolved"}) =>
    /\ Clean(root) /\ Clean(stage.start) /\ Clean(op.snapshot)
    /\ \A a \in Owners : head[a] # Gone => Clean(baseline[a]) /\ Clean(head[a])

MarkersInv == TypeInv /\ MarkersOK

\* What can lose a change of a completed run.
Excepted == {"cut short", "uncommitted", "unresolved", "half rolled back"}

\* Reconcile holds the delta of this Agent in memory.
Reconciling(a) == op.kind = "reconcile" /\ op.agent = a

\* Where a change is: in the commit being replayed, in the worktree, or in the
\* root, where the rollback of a stage leaves it.  It always is a change.
StillThere(a, p, c) ==
  /\ Reconciling(a) => head[a][p] = c /\ baseline[a][p] # c
  /\ ~Reconciling(a) /\ work[a] # Gone => work[a][p] \in {c, Markers} /\ baseline[a][p] # c
  /\ ~Reconciling(a) /\ work[a] = Gone =>
       a \in applied /\ (op.kind # "accept" /\ stage.full => a \in stage.before)

\* Every change of a completed run is in one of these places.
KeptOK ==
  /\ stage.full => stage.open
  /\ W!Without(Excepted) =>
       \A a \in Owners : \A change \in finished[a] : StillThere(a, change[1], change[2])

KeptInv == MarkersInv /\ InRoot /\ KeptOK

---------------------------------------------------------------------------
(* The types of the workspaces.                                            *)

\* The instance speaks of the same files, manifests and mishaps as Workspaces.
LEMMA SameDefinitions ==
  /\ WorkspaceAssumptions
  /\ W!Files = Files /\ W!ManifestStatuses = ManifestStatuses /\ W!Mishaps = Mishaps
  /\ \A bad : W!Without(bad) = Without(bad)
<1>1. WorkspaceAssumptions
  BY ContentsAssumption, BoundsAssumption
  DEF WorkspaceAssumptions, W!ContentsAssumption, W!BoundsAssumption
<1>2. /\ W!Files = Files /\ W!ManifestStatuses = ManifestStatuses /\ W!Mishaps = Mishaps
  BY DEF W!Files, Files, W!ManifestStatuses, ManifestStatuses, W!Kept, Kept, W!Mishaps, Mishaps
<1>3. \A bad : W!Without(bad) = Without(bad)
  BY DEF W!Without, Without
<1> QED BY <1>1, <1>2, <1>3

LEMMA TypeInvTypeOK == TypeInv => WorkspacesTypeOK
<1> SUFFICES ASSUME TypeInv PROVE WorkspacesTypeOK
  OBVIOUS
<1> USE DEF TypeInv, FilesOK, RecordsOK, BoundsOK
<1>1. \A files \in {work, baseline, head} : files \in [Owners -> W!Files \union {Gone}]
  OBVIOUS
<1> QED BY <1>1, SameDefinitions DEF WorkspacesTypeOK, StageType, OpType, Changes

\* What every file holds at first is no marker and no missing worktree.
LEMMA InitialFiles ==
  ASSUME WorkspaceAssumptions
  PROVE  W!Initial \in W!Files
  BY DEF WorkspaceAssumptions, W!ContentsAssumption, W!Initial, W!Files

\* The typed part of the invariant, initially and under each step.
LEMMA TypeInit ==
  ASSUME WorkspaceAssumptions, W!Init
  PROVE  TypeInv
<1> USE InitialFiles DEF W!Init
<1>1. FilesOK
  BY DEF FilesOK, Changes
<1>2. RecordsOK
  BY DEF RecordsOK, W!ManifestStatuses, W!Kept, W!NoStage, StageType, W!Idle, OpType
<1>3. BoundsOK
  BY DEF WorkspaceAssumptions, W!BoundsAssumption, BoundsOK
<1>4. KnownOK /\ OpOK
  BY DEF KnownOK, Known, OpOK, W!Idle, W!Kept
<1> QED BY <1>1, <1>2, <1>3, <1>4 DEF TypeInv

\* What the record of the stage and of the operation hold.
LEMMA StageParts ==
  ASSUME RecordsOK
  PROVE  /\ stage.open \in BOOLEAN /\ stage.full \in BOOLEAN
         /\ stage.start \in W!Files /\ stage.observed \in W!Files /\ stage.before \subseteq Owners
         /\ op.kind \in {"idle", "integrate", "reconcile", "accept", "rollback"}
         /\ op.agent \in Owners \union {"none"} /\ op.snapshot \in W!Files
  BY DEF RecordsOK, StageType, OpType

LEMMA FilesStep == ASSUME TypeInv, [W!Next]_W!vars PROVE FilesOK'
<1> USE InitialFiles DEF TypeInv, FilesOK, RecordsOK, BoundsOK
<1>1. CASE \E p \in Paths : W!Edit(p)
  BY <1>1 DEF W!Edit, W!gitVars, W!historyVars, W!Files, Changes
<1>2. CASE \E a \in Owners : W!Create(a)
  BY <1>2 DEF W!Create, W!historyVars
<1>3. CASE \E a \in Owners : W!ChildWrites(a)
  <2>1. PICK a \in Owners : W!ChildWrites(a)
    BY <1>3
  <2>2. work[a] \in W!Files /\ finished[a] \in Changes
    BY <2>1 DEF W!ChildWrites, KnownOK, Known
  <2>3. work' \in [Owners -> W!Files \union {Gone}]
    <3>1. PICK p \in Paths, c \in Contents : work' = [work EXCEPT ![a][p] = c]
      BY <2>1 DEF W!ChildWrites
    <3>2. [work[a] EXCEPT ![p] = c] \in W!Files
      BY <2>2 DEF W!Files
    <3> QED BY <3>1, <3>2
  <2>4. finished' \in [Owners -> Changes]
    BY <2>1, <2>2 DEF W!ChildWrites, Changes
  <2> QED BY <2>1, <2>3, <2>4 DEF W!ChildWrites
<1>4. CASE \E a \in Owners : W!Completes(a)
  <2>1. PICK a \in Owners : W!Completes(a)
    BY <1>4
  <2>2. work[a] \in W!Files
    BY <2>1 DEF W!Completes, KnownOK, Known
  <2>3. {<<p, work[a][p]>> : p \in {q \in Paths : work[a][q] # baseline[a][q]}} \in Changes
    BY <2>2 DEF Changes, W!Files
  <2>4. head' \in [Owners -> W!Files \union {Gone}]
    BY <2>1, <2>2 DEF W!Completes
  <2>5. finished' \in [Owners -> Changes]
    BY <2>1, <2>3 DEF W!Completes
  <2> QED BY <2>1, <2>4, <2>5 DEF W!Completes
<1>5. CASE \E a \in Owners : W!Integrate(a)
  <2>1. PICK a \in Owners : W!Integrate(a)
    BY <1>5
  <2>2. head[a] \in W!Files
    BY <2>1 DEF W!Integrate, KnownOK, Known
  <2>3. root' \in W!Files
    BY <2>1, <2>2 DEF W!Integrate, W!Files
  <2> QED BY <2>1, <2>3 DEF W!Integrate, W!gitVars
<1>6. CASE \E a \in Owners : W!Reconcile(a) \/ W!Discard(a) \/ W!AcceptRemove(a) \/ W!AcceptSave(a)
  BY <1>6
  DEF W!Reconcile, W!Discard, W!AcceptRemove, W!AcceptSave, W!Removed, W!gitVars, W!countVars,
      W!historyVars, Changes
<1>7. CASE W!Replay \/ W!ReplayFails
  <2>0. op.kind = "reconcile"
    BY <1>7 DEF W!Replay, W!ReplayFails
  <2>1. op.agent \in Owners /\ op.snapshot \in W!Files /\ head[op.agent] \in W!Files \union {Gone}
    BY <2>0, StageParts DEF OpOK
  <2>2. head[op.agent] \in W!Files /\ baseline[op.agent] \in W!Files
    BY <2>0, <2>1 DEF OpOK, KnownOK, Known
  <2>3. W!Replayed(op.agent) \in W!Files
    BY <2>1, <2>2 DEF WorkspaceAssumptions, W!ContentsAssumption, W!Replayed, W!Merge, W!Files
  <2>4. ASSUME NEW s, NEW files \in W!Files, NEW commit \in W!Files,
               W!Replace(op.agent, s, files, commit)
        PROVE  FilesOK'
    BY <2>1, <2>4 DEF W!Replace, W!countVars, Changes
  <2>5. CASE W!Replay
    BY <2>1, <2>3, <2>4, <2>5 DEF W!Replay
  <2>6. CASE W!ReplayFails
    BY <2>1, <2>4, <2>6 DEF W!ReplayFails, W!gitVars
  <2> QED BY <1>7, <2>5, <2>6
<1>8. CASE W!Rollback
  BY <1>8, StageParts DEF W!Rollback, W!gitVars
<1>9. CASE UNCHANGED <<root, W!gitVars, finished>>
  BY <1>9 DEF W!gitVars
<1> QED
  BY <1>1, <1>2, <1>3, <1>4, <1>5, <1>6, <1>7, <1>8, <1>9
  DEF W!Next, W!vars, W!OpenStage, W!ApprovePlan, W!Followup, W!StopsOrFails,
      W!FinishIntegrate, W!Accept, W!FinishAccept, W!FinishRollback, W!Crash, W!OtherStarts,
      W!historyVars

LEMMA RecordsStep == ASSUME TypeInv, [W!Next]_W!vars PROVE RecordsOK'
<1> USE InitialFiles, StageParts DEF TypeInv, FilesOK, RecordsOK
<1>1. FilesOK'
  BY FilesStep
<1>2. ASSUME NEW files \in W!Files PROVE W!Observed(files) \in StageType
  BY <1>2 DEF W!Observed, StageType
<1>3. W!Idle \in OpType /\ W!NoStage \in StageType
  BY DEF W!Idle, W!NoStage, OpType, StageType
<1>4. \A full \in BOOLEAN : W!NewStage(full) \in StageType
  BY <1>3 DEF W!NewStage, W!NoStage, StageType
<1>5. CASE W!OpenStage \/ W!ApprovePlan
  BY <1>4, <1>5 DEF W!OpenStage, W!ApprovePlan, W!StartStage
<1>6. CASE \E p \in Paths : W!Edit(p)
  BY <1>1, <1>2, <1>6 DEF W!Edit, W!historyVars
<1>7. CASE \E a \in Owners : \/ W!Create(a) \/ W!Followup(a) \/ W!ChildWrites(a) \/ W!Completes(a)
                            \/ W!StopsOrFails(a)
  BY <1>7
  DEF W!Create, W!Followup, W!ChildWrites, W!Completes, W!StopsOrFails, W!countVars,
      W!historyVars, W!ManifestStatuses, W!Kept
<1>8. CASE \E a \in Owners : W!Integrate(a) \/ W!Reconcile(a)
  <2>1. PICK a \in Owners : W!Integrate(a) \/ W!Reconcile(a)
    BY <1>8
  <2>2. op' \in OpType
    <3>1. CASE W!Integrate(a)
      <4>1. op' = [kind |-> "integrate", agent |-> a, snapshot |-> W!Initial]
        BY <3>1 DEF W!Integrate, W!Idle
      <4> QED BY <4>1 DEF OpType
    <3>2. CASE W!Reconcile(a)
      BY <3>2 DEF W!Reconcile, OpType
    <3> QED BY <2>1, <3>1, <3>2
  <2> QED BY <2>1, <2>2 DEF W!Integrate, W!Reconcile, W!ManifestStatuses
<1>9. CASE \E a \in Owners : W!Discard(a) \/ W!AcceptRemove(a) \/ W!AcceptSave(a)
  BY <1>9 DEF W!Discard, W!AcceptRemove, W!AcceptSave, W!historyVars, W!ManifestStatuses, W!Removed
<1>10. CASE W!FinishIntegrate \/ W!Accept \/ W!FinishAccept \/ W!FinishRollback
  BY <1>2, <1>3, <1>10
  DEF W!FinishIntegrate, W!Accept, W!FinishAccept, W!FinishRollback, W!historyVars, W!ManifestStatuses,
      W!Kept, OpType, W!Idle, OpOK
<1>11. CASE W!Replay \/ W!ReplayFails
  <2>1. op' = W!Idle /\ stage' = W!Observed(root) /\ child' = child
        /\ applied' \in {applied, applied \ {op.agent}}
    BY <1>11 DEF W!Replay, W!ReplayFails, W!Replace
  <2>2. manifest' \in [Owners -> W!ManifestStatuses]
    BY <1>11 DEF W!Replay, W!ReplayFails, W!Replace, W!ManifestStatuses, W!Kept
  <2> QED BY <1>2, <1>3, <2>1, <2>2
<1>12. CASE W!Rollback
  <2>1. root' \in W!Files /\ op' \in OpType
    BY <1>1, <1>12 DEF W!Rollback, W!Idle, OpType
  <2> QED BY <1>2, <1>12, <2>1 DEF W!Rollback
<1>13. CASE W!Crash \/ W!OtherStarts
  BY <1>3, <1>13 DEF W!Crash, W!OtherStarts, W!Orphaned, W!ManifestStatuses, W!Kept, W!historyVars
<1>14. CASE UNCHANGED W!vars
  BY <1>14 DEF W!vars
<1> QED
  BY <1>5, <1>6, <1>7, <1>8, <1>9, <1>10, <1>11, <1>12, <1>13, <1>14 DEF W!Next

LEMMA BoundsStep == ASSUME TypeInv, [W!Next]_W!vars PROVE BoundsOK'
<1> USE DEF WorkspaceAssumptions, W!BoundsAssumption, TypeInv, BoundsOK
<1>1. writes' \in 0 .. MaxWrites
  <2>1. CASE \E p \in Paths : W!Edit(p)
    BY <2>1 DEF W!Edit
  <2>2. CASE \E a \in Owners : W!ChildWrites(a)
    BY <2>2 DEF W!ChildWrites
  <2>3. CASE ~(\E p \in Paths : W!Edit(p)) /\ ~(\E a \in Owners : W!ChildWrites(a))
    <3>1. writes' = writes
      BY <2>3
      DEF W!Next, W!vars, W!OpenStage, W!ApprovePlan, W!StartStage, W!Create, W!Followup,
          W!Completes, W!StopsOrFails, W!Integrate, W!Reconcile, W!Discard, W!AcceptRemove,
          W!AcceptSave, W!FinishIntegrate, W!Replay, W!ReplayFails, W!Replace, W!Accept,
          W!FinishAccept, W!Rollback, W!FinishRollback, W!Crash, W!OtherStarts, W!countVars
    <3> QED BY <3>1
  <2> QED BY <2>1, <2>2, <2>3
<1>2. stages' \in 0 .. MaxStages
  <2>1. CASE W!OpenStage
    BY <2>1 DEF W!OpenStage, W!StartStage
  <2>2. CASE W!ApprovePlan
    BY <2>2 DEF W!ApprovePlan, W!StartStage
  <2>3. CASE ~W!OpenStage /\ ~W!ApprovePlan
    <3>1. stages' = stages
      BY <2>3
      DEF W!Next, W!vars, W!StartStage, W!Edit, W!Create, W!Followup, W!ChildWrites,
          W!Completes, W!StopsOrFails, W!Integrate, W!Reconcile, W!Discard, W!AcceptRemove,
          W!AcceptSave, W!FinishIntegrate, W!Replay, W!ReplayFails, W!Replace, W!Accept,
          W!FinishAccept, W!Rollback, W!FinishRollback, W!Crash, W!OtherStarts, W!countVars
    <3> QED BY <3>1
  <2> QED BY <2>1, <2>2, <2>3
<1>3. starts' \in 0 .. MaxStarts
  <2>1. CASE W!Crash
    BY <2>1 DEF W!Crash
  <2>2. CASE W!OtherStarts
    BY <2>2 DEF W!OtherStarts
  <2>3. CASE ~W!Crash /\ ~W!OtherStarts
    <3>1. starts' = starts
      BY <2>3
      DEF W!Next, W!vars, W!OpenStage, W!ApprovePlan, W!StartStage, W!Edit, W!Create,
          W!Followup, W!ChildWrites, W!Completes, W!StopsOrFails, W!Integrate, W!Reconcile,
          W!Discard, W!AcceptRemove, W!AcceptSave, W!FinishIntegrate, W!Replay, W!ReplayFails,
          W!Replace, W!Accept, W!FinishAccept, W!Rollback, W!FinishRollback, W!countVars
    <3> QED BY <3>1
  <2> QED BY <2>1, <2>2, <2>3
<1>4. mishaps' \subseteq W!Mishaps
  BY DEF W!Next, W!vars, W!OpenStage, W!ApprovePlan, W!StartStage, W!Edit, W!Create,
         W!Followup, W!ChildWrites, W!Completes, W!StopsOrFails, W!Integrate, W!Reconcile,
         W!Discard, W!AcceptRemove, W!AcceptSave, W!FinishIntegrate, W!Replay, W!ReplayFails,
         W!Replace, W!Accept, W!FinishAccept, W!Rollback, W!FinishRollback, W!Crash,
         W!OtherStarts, W!historyVars, W!Unsettled, W!CutOff, W!Mishaps
<1> QED BY <1>1, <1>2, <1>3, <1>4

LEMMA KnownStep == ASSUME TypeInv, [W!Next]_W!vars PROVE KnownOK'
<1> USE StageParts
    DEF WorkspaceAssumptions, W!ContentsAssumption, TypeInv, FilesOK, RecordsOK, KnownOK,
        Known, W!Kept
<1>1. CASE \E a \in Owners : W!Create(a)
  BY <1>1 DEF W!Create, W!historyVars, W!Files
<1>2. CASE \E a \in Owners : W!Followup(a)
  BY <1>2 DEF W!Followup, W!gitVars, W!historyVars
<1>3. CASE \E a \in Owners : W!ChildWrites(a)
  <2>1. PICK a \in Owners : W!ChildWrites(a)
    BY <1>3
  <2>2. work'[a] # Gone
    BY <2>1, FilesStep DEF WorkspaceAssumptions, W!ContentsAssumption, W!ChildWrites, W!Files
  <2>3. \A b \in Owners : b # a => work'[b] = work[b] /\ finished'[b] = finished[b]
    BY <2>1 DEF W!ChildWrites
  <2> QED BY <2>1, <2>2, <2>3 DEF W!ChildWrites
<1>4. CASE \E a \in Owners : W!Completes(a)
  <2>1. PICK a \in Owners : W!Completes(a)
    BY <1>4
  <2>2. head[a] # Gone /\ work[a] # Gone
    BY <2>1 DEF W!Completes
  <2>3. \A b \in Owners : b # a =>
          head'[b] = head[b] /\ finished'[b] = finished[b] /\ manifest'[b] = manifest[b]
    BY <2>1 DEF W!Completes
  <2>4. head'[a] # Gone /\ manifest'[a] \in {"ready", "orphaned"}
    BY <2>1, <2>2 DEF W!Completes
  <2> QED BY <2>1, <2>2, <2>3, <2>4 DEF W!Completes
<1>5. CASE \E a \in Owners : W!StopsOrFails(a)
  BY <1>5 DEF W!StopsOrFails, W!gitVars, W!historyVars
<1>6. CASE \E a \in Owners : W!Integrate(a)
  BY <1>6 DEF W!Integrate, W!gitVars, W!Idle, W!MayTakeEffect, W!Quiet
<1>7. CASE \E a \in Owners : W!Reconcile(a)
  BY <1>7 DEF W!Reconcile, W!MayTakeEffect, W!Quiet, W!Idle
<1>8. CASE \E a \in Owners : W!Discard(a) \/ W!AcceptRemove(a) \/ W!AcceptSave(a)
  BY <1>8, InitialFiles
  DEF W!Discard, W!AcceptRemove, W!AcceptSave, W!Removed, W!gitVars, W!historyVars, W!Files
<1>9. CASE W!Replay \/ W!ReplayFails
  <2> DEFINE a == op.agent
  <2>1. op.kind = "reconcile" /\ op' = W!Idle /\ child' = child
    BY <1>9 DEF W!Replay, W!ReplayFails, W!Replace
  <2>2. a \in Owners /\ child[a] = "terminal" /\ op.snapshot \in W!Files
    BY <2>1 DEF OpOK
  <2>3. head[a] \in W!Files /\ baseline[a] \in W!Files
    BY <2>2
  <2>4. W!Replayed(a) \in W!Files
    BY <2>2, <2>3 DEF W!Replayed, W!Merge, W!Files
  <2>5. ASSUME NEW s \in W!Kept, NEW files \in W!Files, NEW commit \in W!Files,
               W!Replace(a, s, files, commit)
        PROVE  KnownOK'
    <3>1. \A b \in Owners : b # a =>
            /\ head'[b] = head[b] /\ baseline'[b] = baseline[b] /\ work'[b] = work[b]
            /\ manifest'[b] = manifest[b] /\ finished'[b] = finished[b]
            /\ b \notin applied => b \notin applied'
      BY <2>5 DEF W!Replace
    <3>2. /\ head'[a] \in W!Files /\ baseline'[a] \in W!Files /\ work'[a] \in W!Files
          /\ manifest'[a] \in W!Kept
      BY <2>2, <2>5 DEF W!Replace
    <3>3. Gone \notin W!Files
      BY DEF W!Files
    <3>4. op.kind # "accept" /\ op'.kind # "accept"
      BY <2>1 DEF W!Idle
    <3> SUFFICES ASSUME NEW b \in Owners PROVE Known(b)'
      OBVIOUS
    <3>5. CASE b = a
      BY <2>1, <2>2, <3>2, <3>3, <3>5
    <3>6. CASE b # a
      <4>1. /\ head'[b] = head[b] /\ baseline'[b] = baseline[b] /\ work'[b] = work[b]
            /\ manifest'[b] = manifest[b] /\ finished'[b] = finished[b] /\ child'[b] = child[b]
            /\ b \notin applied => b \notin applied'
        BY <2>1, <3>1, <3>6
      <4> QED BY <3>4, <4>1
    <3> QED BY <3>5, <3>6
  <2>6. CASE W!Replay
    BY <2>2, <2>4, <2>5, <2>6 DEF W!Replay
  <2>7. CASE W!ReplayFails /\ UNCHANGED <<manifest, W!gitVars, finished, applied>>
    BY <2>1, <2>7 DEF W!gitVars
  <2> QED BY <1>9, <2>2, <2>5, <2>6, <2>7 DEF W!ReplayFails
<1>10. CASE W!FinishIntegrate
  BY <1>10 DEF W!FinishIntegrate, W!gitVars, W!historyVars, W!Idle, OpOK
<1>11. CASE W!Accept \/ W!FinishAccept \/ W!Rollback \/ W!FinishRollback
  BY <1>11
  DEF W!Accept, W!FinishAccept, W!Rollback, W!FinishRollback, W!Idle, W!gitVars, W!historyVars,
      W!Quiet, W!MayTakeEffect
<1>12. CASE W!Crash \/ W!OtherStarts
  BY <1>12 DEF W!Crash, W!OtherStarts, W!Orphaned, W!Idle, W!gitVars, W!historyVars
<1>13. CASE UNCHANGED <<manifest, W!gitVars, child, op, finished, applied>>
  BY <1>13 DEF W!gitVars
<1> QED
  BY <1>1, <1>2, <1>3, <1>4, <1>5, <1>6, <1>7, <1>8, <1>9, <1>10, <1>11, <1>12, <1>13
  DEF W!Next, W!vars, W!OpenStage, W!ApprovePlan, W!Edit, W!historyVars

LEMMA OpStep == ASSUME TypeInv, [W!Next]_W!vars PROVE OpOK'
<1> USE StageParts DEF TypeInv, RecordsOK, OpOK
<1>1. CASE \E a \in Owners : W!Integrate(a) \/ W!Reconcile(a)
  <2>1. PICK a \in Owners : W!Integrate(a) \/ W!Reconcile(a)
    BY <1>1
  <2>2. CASE W!Integrate(a)
    BY <2>2 DEF W!Integrate, W!Idle
  <2>3. CASE W!Reconcile(a)
    BY <2>3 DEF W!Reconcile
  <2> QED BY <2>1, <2>2, <2>3
<1>2. CASE W!Crash \/ W!OtherStarts
  BY <1>2 DEF W!Crash, W!OtherStarts, W!Orphaned, W!Idle
<1>3. CASE UNCHANGED <<op, manifest, child>>
  BY <1>3
<1>4. CASE W!Quiet /\ op' = op
  BY <1>4 DEF W!Quiet, W!Idle
<1>5. CASE op.kind \notin {"integrate", "reconcile"} /\ op' = op
  BY <1>5
<1>6. CASE op'.kind \notin {"integrate", "reconcile"}
  BY <1>6
<1>7. CASE W!OpenStage \/ W!ApprovePlan \/ (\E p \in Paths : W!Edit(p)) \/ UNCHANGED W!vars
  BY <1>3, <1>7 DEF W!vars, W!OpenStage, W!ApprovePlan, W!Edit
<1>8. CASE \E a \in Owners : \/ W!Create(a) \/ W!Followup(a) \/ W!ChildWrites(a) \/ W!Completes(a)
                            \/ W!StopsOrFails(a) \/ W!Discard(a)
  BY <1>4, <1>8
  DEF W!Create, W!Followup, W!ChildWrites, W!Completes, W!StopsOrFails, W!Discard,
      W!MayTakeEffect
<1>9. CASE \E a \in Owners : W!AcceptRemove(a) \/ W!AcceptSave(a)
  BY <1>5, <1>9 DEF W!AcceptRemove, W!AcceptSave
<1>10. CASE \/ W!FinishIntegrate \/ W!Replay \/ W!ReplayFails \/ W!Accept \/ W!FinishAccept
            \/ W!Rollback \/ W!FinishRollback
  <2>1. CASE op' = W!Idle
    BY <1>6, <2>1 DEF W!Idle
  <2>2. CASE W!Accept \/ W!Rollback
    BY <1>6, <2>2 DEF W!Accept, W!Rollback, W!Idle
  <2> QED
    BY <1>10, <2>1, <2>2
    DEF W!FinishIntegrate, W!Replay, W!ReplayFails, W!Replace, W!FinishAccept, W!FinishRollback
<1> QED BY <1>1, <1>2, <1>7, <1>8, <1>9, <1>10 DEF W!Next

LEMMA TypeStep == TypeInv /\ [W!Next]_W!vars => TypeInv'
<1> SUFFICES ASSUME TypeInv, [W!Next]_W!vars PROVE TypeInv'
  OBVIOUS
<1> QED BY FilesStep, RecordsStep, BoundsStep, KnownStep, OpStep DEF TypeInv

\* The variables of the workspaces keep their types: no worktree, commit or
\* manifest of an Agent is used before start has made it, and none after reconcile,
\* discard or acceptance has removed it (worktrees.py, WorktreeManager).
THEOREM WorkspaceTypes == W!Spec => []WorkspacesTypeOK
<1>1. W!Init => TypeInv
  BY TypeInit, SameDefinitions
<1> QED BY <1>1, TypeStep, TypeInvTypeOK, PTL DEF W!Spec

---------------------------------------------------------------------------
(* Where a delta is: the manifests and the root.                           *)

(* What becomes of the operation in hand, and of the stage. *)
LEMMA OpMoves ==
  ASSUME TypeInv
  PROVE  /\ W!Idle.kind = "idle"
         /\ W!MayTakeEffect \/ W!Quiet => op.kind = "idle"
         /\ \A a \in Owners : W!Integrate(a) => op'.kind = "integrate" /\ op'.agent = a
         /\ \A a \in Owners : W!Reconcile(a) => op'.kind = "reconcile" /\ op'.agent = a
         /\ W!Accept => op'.kind = "accept"
         /\ W!Rollback => op'.kind = "rollback"
<1>1. W!Idle.kind = "idle"
  BY DEF W!Idle
<1>2. W!MayTakeEffect \/ W!Quiet => op.kind = "idle"
  BY <1>1 DEF W!MayTakeEffect, W!Quiet
<1>3. ASSUME NEW a \in Owners, W!Integrate(a) PROVE op'.kind = "integrate" /\ op'.agent = a
  <2>1. op' = [kind |-> "integrate", agent |-> a, snapshot |-> W!Initial]
    BY <1>3 DEF W!Integrate, W!Idle
  <2> QED BY <2>1
<1>4. ASSUME NEW a \in Owners, W!Reconcile(a) PROVE op'.kind = "reconcile" /\ op'.agent = a
  BY <1>4 DEF W!Reconcile
<1>5. W!Accept => op'.kind = "accept"
  BY DEF W!Accept, W!Idle
<1>6. W!Rollback => op'.kind = "rollback"
  BY DEF W!Rollback, W!Idle
<1> QED BY <1>1, <1>2, <1>3, <1>4, <1>5, <1>6

\* What a recorded, a missing and a new stage hold.
LEMMA StageValues ==
  ASSUME TypeInv
  PROVE  /\ \A files \in W!Files : /\ W!Observed(files).before = stage.before
                                 /\ W!Observed(files).full = stage.full
                                 /\ W!Observed(files).open = stage.open
                                 /\ W!Observed(files).start = stage.start
         /\ W!NoStage.before = {} /\ W!NoStage.full = FALSE /\ W!NoStage.open = FALSE
         /\ W!NoStage.start = W!Initial
         /\ \A full \in BOOLEAN : /\ W!NewStage(full).before \in {{}, applied}
                                  /\ W!NewStage(full).full = full /\ W!NewStage(full).open
                                  /\ full => W!NewStage(full).before = applied
                                  /\ W!NewStage(full).start \in {W!Initial, root}
<1> USE DEF TypeInv, RecordsOK
<1>1. ASSUME NEW files \in W!Files
      PROVE  /\ W!Observed(files).before = stage.before /\ W!Observed(files).full = stage.full
             /\ W!Observed(files).start = stage.start /\ W!Observed(files).open = stage.open
  BY DEF W!Observed, StageType
<1>2. /\ W!NoStage.before = {} /\ W!NoStage.full = FALSE /\ W!NoStage.open = FALSE
      /\ W!NoStage.start = W!Initial
  BY DEF W!NoStage
<1>3. ASSUME NEW full \in BOOLEAN
      PROVE  /\ W!NewStage(full).before \in {{}, applied} /\ W!NewStage(full).full = full
             /\ W!NewStage(full).open
             /\ full => W!NewStage(full).before = applied
             /\ W!NewStage(full).start \in {W!Initial, root}
  <2>1. CASE full
    BY <2>1 DEF W!NewStage
  <2>2. CASE ~full
    BY <2>2, <1>2 DEF W!NewStage, W!NoStage
  <2> QED BY <2>1, <2>2
<1> QED BY <1>1, <1>2, <1>3

\* What went wrong is not forgotten.
LEMMA MishapsGrow == ASSUME TypeInv, [W!Next]_W!vars PROVE mishaps \subseteq mishaps'
  BY DEF W!Next, W!vars, W!OpenStage, W!ApprovePlan, W!StartStage, W!Edit, W!Create,
         W!Followup, W!ChildWrites, W!Completes, W!StopsOrFails, W!Integrate, W!Reconcile,
         W!Discard, W!AcceptRemove, W!AcceptSave, W!FinishIntegrate, W!Replay, W!ReplayFails,
         W!Replace, W!Accept, W!FinishAccept, W!Rollback, W!FinishRollback, W!Crash,
         W!OtherStarts, W!historyVars

LEMMA WithoutStays ==
  ASSUME TypeInv, [W!Next]_W!vars, NEW bad, W!Without(bad)'
  PROVE  W!Without(bad)
  BY MishapsGrow DEF W!Without

LEMMA InRootStep == ASSUME TypeInv, InRoot, [W!Next]_W!vars PROVE InRoot'
<1> USE StageParts DEF TypeInv, RecordsOK, InRoot
<1>0. W!Without({"half rolled back"})' => W!Without({"half rolled back"})
  BY WithoutStays
<1>1. CASE \E a \in Owners : W!Create(a) \/ W!Followup(a) \/ W!Completes(a) \/ W!StopsOrFails(a)
  <2>1. PICK a \in Owners : W!Create(a) \/ W!Followup(a) \/ W!Completes(a) \/ W!StopsOrFails(a)
    BY <1>1
  <2>2. UNCHANGED <<op, applied>>
    BY <2>1 DEF W!Create, W!Followup, W!Completes, W!StopsOrFails, W!historyVars
  <2>3. \A b \in Owners :
          manifest'[b] = "integrated_pending" => manifest[b] = "integrated_pending"
    BY <2>1 DEF W!Create, W!Followup, W!Completes, W!StopsOrFails
  <2> QED BY <1>0, <2>2, <2>3
<1>2. CASE \E a \in Owners : W!Integrate(a)
  BY <1>0, <1>2, OpMoves DEF W!Integrate
<1>3. CASE \E a \in Owners : W!Reconcile(a)
  <2>1. PICK a \in Owners : W!Reconcile(a)
    BY <1>3
  <2>2. op.kind = "idle" /\ op'.kind = "reconcile" /\ applied' = applied
    BY <2>1, OpMoves DEF W!Reconcile
  <2>3. \A b \in Owners :
          manifest'[b] = "integrated_pending" => manifest[b] = "integrated_pending"
    BY <2>1 DEF W!Reconcile
  <2> QED BY <1>0, <2>2, <2>3
<1>4. CASE \E a \in Owners : W!Discard(a) \/ W!AcceptSave(a)
  BY <1>0, <1>4, OpMoves DEF W!Discard, W!AcceptSave
<1>5. CASE W!FinishIntegrate
  BY <1>0, <1>5, OpMoves DEF W!FinishIntegrate, W!historyVars, OpOK
<1>6. CASE W!Replay \/ W!ReplayFails
  <2>1. op.kind = "reconcile" /\ op' = W!Idle
    BY <1>6 DEF W!Replay, W!ReplayFails, W!Replace
  <2>2. \A b \in Owners : b # op.agent =>
          manifest'[b] = manifest[b] /\ (b \in applied => b \in applied')
    BY <1>6 DEF W!Replay, W!ReplayFails, W!Replace
  <2>3. manifest'[op.agent] # "integrated_pending"
    BY <1>6, <2>1 DEF W!Replay, W!ReplayFails, W!Replace, OpOK
  <2> QED BY <1>0, <2>1, <2>2, <2>3, OpMoves
<1>8. CASE W!Accept \/ W!FinishAccept
  BY <1>0, <1>8, OpMoves DEF W!Accept, W!FinishAccept, W!historyVars
<1>9. CASE W!Rollback
  BY <1>9, OpMoves
<1>10. CASE W!FinishRollback
  BY <1>10, OpMoves DEF W!FinishRollback
<1>11. CASE W!Crash
  <2>1. CASE op.kind = "rollback"
    BY <1>11, <2>1, OpMoves DEF W!Crash, W!CutOff, W!Without
  <2>2. CASE op.kind # "rollback"
    BY <1>0, <1>11, <2>2, OpMoves DEF W!Crash, W!Orphaned
  <2> QED BY <2>1, <2>2
<1>12. CASE W!OtherStarts
  BY <1>0, <1>12 DEF W!OtherStarts, W!Orphaned, W!historyVars
<1>13. CASE UNCHANGED <<op, manifest, applied>>
  BY <1>0, <1>13
<1> QED
  BY <1>1, <1>2, <1>3, <1>4, <1>5, <1>6, <1>8, <1>9, <1>10, <1>11, <1>12, <1>13
  DEF W!Next, W!vars, W!OpenStage, W!ApprovePlan, W!Edit, W!ChildWrites, W!AcceptRemove,
      W!historyVars

LEMMA InNoRootStep == ASSUME TypeInv, InNoRoot, [W!Next]_W!vars PROVE InNoRoot'
<1> DEFINE bad == {"half integrated", "earlier"}
<1> SUFFICES ASSUME W!Without(bad)'
             PROVE  /\ \A a \in applied' : \/ manifest'[a] = "integrated_pending"
                                           \/ op'.kind = "integrate" /\ op'.agent = a
                    /\ stage'.before = {}
                    /\ op'.kind = "rollback" => applied' = {}
  BY DEF InNoRoot
<1> HIDE DEF bad
<1>0. /\ W!Without(bad)
      /\ \A a \in applied : \/ manifest[a] = "integrated_pending"
                            \/ op.kind = "integrate" /\ op.agent = a
      /\ stage.before = {}
      /\ op.kind = "rollback" => applied = {}
  BY WithoutStays DEF InNoRoot, bad
<1> USE StageParts DEF TypeInv, RecordsOK
<1>1. CASE W!OpenStage \/ W!ApprovePlan
  <2>1. op.kind = "idle" /\ UNCHANGED <<op, manifest, applied>>
    BY <1>1, OpMoves DEF W!OpenStage, W!ApprovePlan
  <2>2. applied = {}
    BY <1>0, <1>1, <2>1
    DEF W!OpenStage, W!ApprovePlan, W!StartStage, W!Unsettled, W!Without, bad
  <2> QED BY <1>1, <2>1, <2>2, StageValues DEF W!OpenStage, W!ApprovePlan, W!StartStage
<1>2. CASE \E p \in Paths : W!Edit(p)
  <2>1. UNCHANGED <<op, manifest, applied>>
    BY <1>2 DEF W!Edit, W!historyVars
  <2>2. root' \in W!Files
    BY FilesStep DEF FilesOK
  <2>3. stage' = stage \/ stage' = W!Observed(root')
    BY <1>2 DEF W!Edit
  <2>4. stage'.before = {}
    BY <1>0, <2>2, <2>3, StageValues
  <2> QED BY <1>0, <2>1, <2>4
<1>3. CASE \E a \in Owners : \/ W!Create(a) \/ W!Followup(a) \/ W!Completes(a) \/ W!StopsOrFails(a)
                            \/ W!Discard(a)
  <2>1. PICK a \in Owners : \/ W!Create(a) \/ W!Followup(a) \/ W!Completes(a) \/ W!StopsOrFails(a)
                            \/ W!Discard(a)
    BY <1>3
  <2>2. op.kind = "idle" /\ op' = op /\ stage' = stage /\ applied' \subseteq applied
    BY <2>1, OpMoves
    DEF W!Create, W!Followup, W!Completes, W!StopsOrFails, W!Discard, W!historyVars
  <2>3. \A b \in Owners : b # a => manifest'[b] = manifest[b]
    BY <2>1 DEF W!Create, W!Followup, W!Completes, W!StopsOrFails, W!Discard
  <2>4. a \notin applied'
    BY <1>0, <2>1, <2>2
    DEF W!Create, W!Followup, W!Completes, W!StopsOrFails, W!Discard, KnownOK, Known,
        W!historyVars
  <2> QED BY <1>0, <2>2, <2>3, <2>4
<1>4. CASE \E a \in Owners : W!Integrate(a)
  <2>1. PICK a \in Owners : W!Integrate(a)
    BY <1>4
  <2>2. op'.kind = "integrate" /\ op'.agent = a /\ op.kind = "idle"
    BY <2>1, OpMoves DEF W!Integrate
  <2>3. applied' = applied \union {a} /\ UNCHANGED <<manifest, stage>>
    BY <2>1 DEF W!Integrate
  <2> QED BY <1>0, <2>2, <2>3
<1>5. CASE \E a \in Owners : W!Reconcile(a)
  <2>1. PICK a \in Owners : W!Reconcile(a)
    BY <1>5
  <2>2. a \notin applied
    BY <1>0, <2>1, OpMoves DEF W!Reconcile
  <2> QED BY <1>0, <2>1, <2>2, OpMoves DEF W!Reconcile
<1>6. CASE \E a \in Owners : W!AcceptSave(a)
  BY <1>0, <1>6 DEF W!AcceptSave
<1>7. CASE W!FinishIntegrate
  BY <1>0, <1>7, OpMoves, StageValues DEF W!FinishIntegrate, W!historyVars, OpOK, FilesOK
<1>8. CASE W!Replay \/ W!ReplayFails
  <2>1. /\ op.kind = "reconcile" /\ op' = W!Idle /\ stage' = W!Observed(root)
        /\ applied' \in {applied, applied \ {op.agent}}
    BY <1>8 DEF W!Replay, W!ReplayFails, W!Replace
  <2>2. \A b \in Owners : b # op.agent => manifest'[b] = manifest[b]
    BY <1>8 DEF W!Replay, W!ReplayFails, W!Replace
  <2>3. op.agent \notin applied
    BY <1>0, <2>1 DEF OpOK
  <2>4. stage'.before = {} /\ op'.kind = "idle"
    BY <1>0, <2>1, OpMoves, StageValues DEF FilesOK
  <2>5. \A a \in applied' : manifest'[a] = "integrated_pending"
    BY <1>0, <2>1, <2>2, <2>3
  <2> QED BY <2>4, <2>5
<1>10. CASE W!Accept \/ W!FinishAccept
  <2>1. /\ UNCHANGED <<manifest, applied>> /\ stage' \in {stage, W!NoStage}
        /\ op.kind \in {"idle", "accept"}
    BY <1>10, OpMoves DEF W!Accept, W!FinishAccept, W!historyVars
  <2>2. op'.kind \in {"idle", "accept"}
    BY <1>10, OpMoves DEF W!FinishAccept
  <2>3. stage'.before = {}
    BY <1>0, <2>1, StageValues
  <2> QED BY <1>0, <2>1, <2>2, <2>3
<1>11. CASE W!Rollback
  <2>1. /\ UNCHANGED manifest /\ applied' \subseteq applied
        /\ op.kind = "idle" /\ op'.kind = "rollback"
    BY <1>11, OpMoves DEF W!Rollback, W!gitVars
  <2>2. stage'.before = {}
    BY <1>0, <1>11, FilesStep, StageValues DEF W!Rollback, FilesOK
  <2>3. applied' = {}
    <3>1. CASE stage.full
      BY <1>0, <1>11, <3>1 DEF W!Rollback
    <3>2. CASE ~stage.full
      BY <1>0, <1>11, <2>1, <3>2 DEF W!Rollback, W!Unsettled, W!Without, bad
    <3> QED BY <3>1, <3>2
  <2> QED BY <2>2, <2>3
<1>12. CASE W!FinishRollback
  BY <1>0, <1>12, OpMoves, StageValues DEF W!FinishRollback, W!historyVars
<1>13. CASE W!Crash
  <2>1. op.kind # "integrate"
    BY <1>13 DEF W!Crash, W!CutOff, W!Without, bad
  <2>2. stage'.before = {}
    BY <1>0, <1>13, StageValues DEF W!Crash
  <2> QED BY <1>0, <1>13, <2>1, <2>2, OpMoves DEF W!Crash, W!Orphaned
<1>14. CASE W!OtherStarts
  BY <1>0, <1>14 DEF W!OtherStarts, W!Orphaned, W!historyVars
<1>15. CASE UNCHANGED <<op, manifest, stage, applied>>
  BY <1>0, <1>15
<1> QED
  BY <1>1, <1>2, <1>3, <1>4, <1>5, <1>6, <1>7, <1>8, <1>10, <1>11, <1>12, <1>13, <1>14, <1>15
  DEF W!Next, W!vars, W!ChildWrites, W!AcceptRemove, W!historyVars

---------------------------------------------------------------------------
(* Files without markers.                                                  *)

LEMMA InitialClean ==
  ASSUME WorkspaceAssumptions
  PROVE  Clean(W!Initial)
  BY DEF WorkspaceAssumptions, W!ContentsAssumption, Clean, W!Initial

\* A captured root, and the files a stage began with, were files of the root.
LEMMA SnapshotMoves ==
  ASSUME TypeInv, [W!Next]_W!vars
  PROVE  op'.snapshot \in {op.snapshot, W!Initial, root}
<1>1. W!Idle.snapshot = W!Initial
  BY DEF W!Idle
<1>2. CASE \E a \in Owners : W!Integrate(a)
  <2>1. PICK a \in Owners : op' = [W!Idle EXCEPT !.kind = "integrate", !.agent = a]
    BY <1>2 DEF W!Integrate
  <2>2. op' = [kind |-> "integrate", agent |-> a, snapshot |-> W!Initial]
    BY <2>1 DEF W!Idle
  <2> QED BY <2>2
<1>3. CASE \E a \in Owners : W!Reconcile(a)
  BY <1>3 DEF W!Reconcile
<1>4. CASE W!Accept \/ W!Rollback
  BY <1>4 DEF W!Accept, W!Rollback, W!Idle
<1>5. CASE op' \in {op, W!Idle}
  BY <1>1, <1>5
<1> QED
  BY <1>2, <1>3, <1>4, <1>5
  DEF W!Next, W!vars, W!OpenStage, W!ApprovePlan, W!Edit, W!Create, W!Followup, W!ChildWrites,
      W!Completes, W!StopsOrFails, W!Discard, W!AcceptRemove, W!AcceptSave, W!FinishIntegrate,
      W!Replay, W!ReplayFails, W!Replace, W!FinishAccept, W!FinishRollback, W!Crash,
      W!OtherStarts, W!historyVars

LEMMA StartMoves ==
  ASSUME TypeInv, [W!Next]_W!vars
  PROVE  stage'.start \in {stage.start, W!Initial, root}
<1> USE DEF TypeInv, FilesOK
<1>1. root' \in W!Files
  BY FilesStep
<1>2. CASE W!OpenStage \/ W!ApprovePlan
  BY <1>2, StageValues DEF W!OpenStage, W!ApprovePlan, W!StartStage
<1>3. CASE stage' \in {stage, W!NoStage, W!Observed(root), W!Observed(root')}
  BY <1>1, <1>3, StageValues
<1> QED
  BY <1>2, <1>3
  DEF W!Next, W!vars, W!Edit, W!Create, W!Followup, W!ChildWrites, W!Completes, W!StopsOrFails,
      W!Integrate, W!Reconcile, W!Discard, W!AcceptRemove, W!AcceptSave, W!FinishIntegrate,
      W!Replay, W!ReplayFails, W!Replace, W!Accept, W!FinishAccept, W!Rollback,
      W!FinishRollback, W!Crash, W!OtherStarts, W!historyVars

LEMMA MarkersStep == ASSUME TypeInv, MarkersOK, [W!Next]_W!vars PROVE MarkersOK'
<1> SUFFICES ASSUME W!Without({"unresolved"})'
             PROVE  /\ Clean(root') /\ Clean(stage'.start) /\ Clean(op'.snapshot)
                    /\ \A a \in Owners : head'[a] # Gone => Clean(baseline'[a]) /\ Clean(head'[a])
  BY DEF MarkersOK, Clean
<1>0. /\ Clean(root) /\ Clean(stage.start) /\ Clean(op.snapshot)
      /\ \A a \in Owners : head[a] # Gone => Clean(baseline[a]) /\ Clean(head[a])
  BY WithoutStays DEF MarkersOK
<1> USE StageParts, InitialFiles, InitialClean DEF TypeInv, FilesOK, RecordsOK
<1>1. Clean(stage'.start) /\ Clean(op'.snapshot)
  BY <1>0, SnapshotMoves, StartMoves
<1>2. CASE \E p \in Paths : W!Edit(p)
  BY <1>0, <1>1, <1>2
  DEF WorkspaceAssumptions, W!ContentsAssumption, W!Edit, W!gitVars, Clean, W!Files
<1>3. CASE \E a \in Owners : W!Create(a)
  BY <1>0, <1>1, <1>3 DEF W!Create
<1>4. CASE \E a \in Owners : W!Completes(a)
  <2>1. PICK a \in Owners : W!Completes(a)
    BY <1>4
  <2>2. head[a] # Gone /\ UNCHANGED <<root, baseline>>
    BY <2>1 DEF W!Completes, KnownOK, Known
  <2>3. \A b \in Owners : b # a => head'[b] = head[b]
    BY <2>1 DEF W!Completes
  <2>4. Clean(head'[a])
    <3>1. CASE manifest[a] = "active"
      <4>1. head'[a] = work[a] /\ \A p \in Paths : work[a][p] # Markers
        BY <2>1, <3>1 DEF W!Completes, W!Without
      <4> QED BY <4>1 DEF Clean
    <3>2. CASE manifest[a] # "active"
      BY <1>0, <2>1, <2>2, <3>2 DEF W!Completes
    <3> QED BY <3>1, <3>2
  <2> QED BY <1>0, <1>1, <2>2, <2>3, <2>4
<1>5. CASE \E a \in Owners : W!Integrate(a)
  <2>1. PICK a \in Owners : W!Integrate(a)
    BY <1>5
  <2>2. head[a] # Gone /\ UNCHANGED <<baseline, head>>
    BY <2>1 DEF W!Integrate, W!gitVars, KnownOK, Known
  <2>3. \A p \in Paths : root'[p] \in {head[a][p], root[p]}
    BY <2>1 DEF W!Integrate
  <2>4. Clean(root')
    BY <1>0, <2>2, <2>3 DEF Clean
  <2> QED BY <1>0, <1>1, <2>2, <2>4
<1>6. CASE \E a \in Owners : W!Discard(a) \/ W!AcceptRemove(a)
  BY <1>0, <1>1, <1>6 DEF W!Discard, W!AcceptRemove, W!Removed
<1>7. CASE W!Replay \/ W!ReplayFails
  <2> DEFINE a == op.agent
  <2>1. op.kind = "reconcile" /\ root' = root
    BY <1>7 DEF W!Replay, W!ReplayFails, W!Replace
  <2>2. a \in Owners /\ head[a] # Gone
    BY <2>1 DEF OpOK, KnownOK, Known
  <2>3. ASSUME NEW s, NEW files, NEW commit, Clean(commit), W!Replace(a, s, files, commit)
        PROVE  /\ Clean(root') /\ Clean(stage'.start) /\ Clean(op'.snapshot)
               /\ \A b \in Owners : head'[b] # Gone => Clean(baseline'[b]) /\ Clean(head'[b])
    BY <1>0, <1>1, <2>1, <2>2, <2>3 DEF W!Replace
  <2>4. (\A p \in W!Patch(a) : W!Replayed(a)[p] # Markers) => Clean(W!Replayed(a))
    BY <1>0 DEF W!Replayed, Clean
  <2>5. CASE W!Patch(a) = {} /\ W!Replace(a, "active", W!Replayed(a), W!Replayed(a))
    BY <2>3, <2>4, <2>5
  <2>6. CASE /\ \A p \in W!Patch(a) : W!Replayed(a)[p] # Markers
             /\ W!Replace(a, "ready", W!Replayed(a), W!Replayed(a))
    BY <2>3, <2>4, <2>6
  <2>7. CASE W!Replace(a, "conflicted", W!Replayed(a), op.snapshot)
    BY <1>0, <2>3, <2>7
  <2>8. CASE W!Replace(a, "orphaned", op.snapshot, op.snapshot)
    BY <1>0, <2>3, <2>8
  <2>9. CASE UNCHANGED <<baseline, head>>
    BY <1>0, <1>1, <2>1, <2>9
  <2> QED BY <1>7, <2>5, <2>6, <2>7, <2>8, <2>9 DEF W!Replay, W!ReplayFails, W!gitVars
<1>8. CASE W!Rollback
  BY <1>0, <1>1, <1>8 DEF W!Rollback, W!gitVars
<1>9. CASE UNCHANGED <<root, baseline, head>>
  BY <1>0, <1>1, <1>9
<1> QED
  BY <1>2, <1>3, <1>4, <1>5, <1>6, <1>7, <1>8, <1>9
  DEF W!Next, W!vars, W!OpenStage, W!ApprovePlan, W!Followup, W!ChildWrites, W!StopsOrFails,
      W!Reconcile, W!AcceptSave, W!FinishIntegrate, W!Accept, W!FinishAccept, W!FinishRollback,
      W!Crash, W!OtherStarts, W!gitVars

---------------------------------------------------------------------------
(* What completed runs changed.                                            *)

\* Only an open stage protects anything.
LEMMA FullIsOpen ==
  ASSUME TypeInv, stage.full => stage.open, [W!Next]_W!vars
  PROVE  (stage.full => stage.open)'
<1> USE DEF TypeInv, FilesOK
<1>1. root' \in W!Files
  BY FilesStep
<1>2. CASE W!OpenStage \/ W!ApprovePlan
  BY <1>2, StageValues DEF W!OpenStage, W!ApprovePlan, W!StartStage
<1>3. CASE stage' \in {stage, W!NoStage, W!Observed(root), W!Observed(root')}
  BY <1>1, <1>3, StageValues
<1> QED
  BY <1>2, <1>3
  DEF W!Next, W!vars, W!Edit, W!Create, W!Followup, W!ChildWrites, W!Completes, W!StopsOrFails,
      W!Integrate, W!Reconcile, W!Discard, W!AcceptRemove, W!AcceptSave, W!FinishIntegrate,
      W!Replay, W!ReplayFails, W!Replace, W!Accept, W!FinishAccept, W!Rollback,
      W!FinishRollback, W!Crash, W!OtherStarts, W!historyVars

LEMMA KeptStep == ASSUME KeptInv, [W!Next]_W!vars PROVE KeptOK'
<1> SUFFICES ASSUME W!Without(Excepted)', NEW a \in Owners, NEW change \in finished'[a]
             PROVE  StillThere(a, change[1], change[2])'
  BY FullIsOpen DEF KeptInv, MarkersInv, KeptOK
<1> DEFINE p == change[1]
           c == change[2]
<1>1. p \in Paths /\ c \in Contents \union {Markers}
  BY FilesStep DEF KeptInv, MarkersInv, FilesOK, Changes
<1>0. W!Without(Excepted) /\ \A old \in finished[a] : StillThere(a, old[1], old[2])
  BY WithoutStays DEF KeptInv, MarkersInv, KeptOK
<1> HIDE DEF p, c
<1> USE StageParts DEF KeptInv, MarkersInv, TypeInv, FilesOK, RecordsOK
<1>2. CASE W!OpenStage \/ W!ApprovePlan
  <2>1. UNCHANGED <<W!gitVars, op, applied, finished>> /\ op.kind = "idle"
    BY <1>2, OpMoves DEF W!OpenStage, W!ApprovePlan
  <2>2. stage'.full => stage'.before = applied
    BY <1>2, StageValues DEF W!OpenStage, W!ApprovePlan, W!StartStage
  <2> QED BY <1>0, <2>1, <2>2 DEF StillThere, Reconciling, W!gitVars
<1>3. CASE \E q \in Paths : W!Edit(q)
  <2>1. UNCHANGED <<W!gitVars, op, applied, finished>>
    BY <1>3 DEF W!Edit, W!historyVars
  <2>2. root' \in W!Files /\ (stage' = stage \/ stage' = W!Observed(root'))
    BY <1>3, FilesStep DEF W!Edit
  <2>3. stage'.full = stage.full /\ stage'.before = stage.before
    BY <2>2, StageValues
  <2> QED BY <1>0, <2>1, <2>3 DEF StillThere, Reconciling, W!gitVars
<1>4. CASE \E b \in Owners : W!Create(b)
  <2>1. PICK b \in Owners : W!Create(b)
    BY <1>4
  <2>2. a # b
    BY <2>1 DEF W!Create, KnownOK, Known, W!historyVars
  <2> QED BY <1>0, <2>1, <2>2 DEF W!Create, StillThere, Reconciling, W!historyVars
<1>5. CASE \E b \in Owners : W!ChildWrites(b)
  <2>1. PICK b \in Owners : W!ChildWrites(b)
    BY <1>5
  <2>2. UNCHANGED <<op, stage, applied, baseline, head>> /\ ~Reconciling(a)
    BY <2>1, OpMoves DEF W!ChildWrites, Reconciling
  <2>3. CASE a = b
    <3>1. PICK q \in Paths, new \in Contents :
            /\ work' = [work EXCEPT ![a][q] = new]
            /\ finished' = [finished EXCEPT ![a] = {old \in @ : old[1] # q}]
      BY <2>1, <2>3 DEF W!ChildWrites
    <3>2. work[a] \in W!Files
      BY <2>1, <2>3 DEF W!ChildWrites, KnownOK, Known
    <3>3. change \in finished[a] /\ p # q
      BY <3>1 DEF p
    <3>4. work'[a][p] = work[a][p] /\ work[a] # Gone
      BY <1>1, <3>1, <3>2, <3>3 DEF WorkspaceAssumptions, W!ContentsAssumption, W!Files
    <3>5. work'[a] # Gone
      BY <3>1, <3>2, FilesStep DEF WorkspaceAssumptions, W!ContentsAssumption, W!Files
    <3> QED BY <1>0, <2>2, <3>3, <3>4, <3>5 DEF StillThere, Reconciling, p, c
  <2>4. CASE a # b
    BY <1>0, <2>1, <2>2, <2>4 DEF W!ChildWrites, StillThere, Reconciling
  <2> QED BY <2>3, <2>4
<1>6. CASE \E b \in Owners : W!Completes(b)
  <2>1. PICK b \in Owners : W!Completes(b)
    BY <1>6
  <2>2. UNCHANGED <<op, stage, applied, baseline, work>> /\ ~Reconciling(a)
    BY <2>1, OpMoves DEF W!Completes, Reconciling
  <2>3. CASE a = b /\ manifest[b] = "active"
    <3>1. finished'[a] = {<<q, work[a][q]>> : q \in {r \in Paths : work[a][r] # baseline[a][r]}}
      BY <2>1, <2>3 DEF W!Completes
    <3>2. c = work[a][p] /\ work[a][p] # baseline[a][p]
      BY <3>1 DEF p, c
    <3>3. work[a] # Gone
      BY <2>1, <2>3 DEF W!Completes, KnownOK, Known
    <3> QED BY <2>2, <3>2, <3>3 DEF StillThere, Reconciling, p, c
  <2>4. CASE ~(a = b /\ manifest[b] = "active")
    <3>1. head'[a] = head[a] /\ finished'[a] = finished[a]
      BY <2>1, <2>4 DEF W!Completes
    <3> QED BY <1>0, <2>2, <3>1 DEF StillThere, Reconciling
  <2> QED BY <2>3, <2>4
<1>7. CASE \E b \in Owners : W!Followup(b) \/ W!StopsOrFails(b)
  BY <1>0, <1>7
  DEF W!Followup, W!StopsOrFails, StillThere, Reconciling, W!gitVars, W!historyVars
<1>8. CASE \E b \in Owners : W!Integrate(b)
  <2>1. op.kind = "idle" /\ op'.kind = "integrate"
    BY <1>8, OpMoves DEF W!Integrate
  <2>2. UNCHANGED <<W!gitVars, stage, finished>> /\ (a \in applied => a \in applied')
    BY <1>8 DEF W!Integrate
  <2> QED BY <1>0, <2>1, <2>2 DEF StillThere, Reconciling, W!gitVars
<1>9. CASE \E b \in Owners : W!Reconcile(b)
  <2>1. PICK b \in Owners : W!Reconcile(b)
    BY <1>9
  <2>2. /\ ~Reconciling(a) /\ op.kind = "idle" /\ op'.kind = "reconcile" /\ op'.agent = b
        /\ UNCHANGED <<baseline, head, stage, applied, finished>>
    BY <2>1, OpMoves DEF W!Reconcile, Reconciling
  <2>3. CASE a = b
    <3>1. work[a] # Gone /\ head[a] # Gone
      BY <2>1, <2>3 DEF W!Reconcile, KnownOK, Known, W!Kept
    <3>2. work[a] = head[a]
      BY <2>1, <2>3 DEF W!Reconcile, W!Without, Excepted, W!Uncommitted
    <3>3. head[a][p] # Markers
      BY <1>0, <1>1, <3>1 DEF MarkersOK, W!Without, Excepted, Clean
    <3> QED BY <1>0, <2>2, <2>3, <3>1, <3>2, <3>3 DEF StillThere, Reconciling, p, c
  <2>4. CASE a # b
    BY <1>0, <2>1, <2>2, <2>4 DEF W!Reconcile, StillThere, Reconciling
  <2> QED BY <2>3, <2>4
<1>10. CASE \E b \in Owners : W!Discard(b) \/ W!AcceptSave(b)
  <2>1. PICK b \in Owners : W!Discard(b) \/ W!AcceptSave(b)
    BY <1>10
  <2>2. a # b
    BY <2>1 DEF W!Discard, W!AcceptSave
  <2> QED
    BY <1>0, <2>1, <2>2
    DEF W!Discard, W!AcceptSave, W!Removed, StillThere, Reconciling, W!gitVars
<1>11. CASE \E b \in Owners : W!AcceptRemove(b)
  <2>1. PICK b \in Owners : W!AcceptRemove(b)
    BY <1>11
  <2>2. CASE a = b
    <3>1. a \in applied
      BY <1>0, <2>1, <2>2 DEF W!AcceptRemove, InRoot, W!Without, Excepted
    <3> QED
      BY <2>1, <2>2, <3>1
      DEF W!AcceptRemove, W!Removed, StillThere, Reconciling, W!historyVars
  <2>3. CASE a # b
    BY <1>0, <2>1, <2>3 DEF W!AcceptRemove, W!Removed, StillThere, Reconciling, W!historyVars
  <2> QED BY <2>2, <2>3
<1>12. CASE W!Replay
  <2> DEFINE b == op.agent
  <2>1. op.kind = "reconcile" /\ op' = W!Idle /\ stage' = W!Observed(root)
    BY <1>12 DEF W!Replay, W!Replace
  <2>2. b \in Owners /\ head[b] # Gone
    BY <2>1 DEF OpOK, KnownOK, Known
  <2>3. /\ op'.kind = "idle" /\ stage'.full = stage.full /\ stage'.before = stage.before
    BY <2>1, OpMoves, StageValues
  <2>4. CASE a = b
    <3>1. change \in finished[a] /\ op.snapshot[p] # c
      BY <1>12, <2>2, <2>4 DEF W!Replay, W!Replace, p, c
    <3>2. head[a][p] = c /\ baseline[a][p] # c
      BY <1>0, <2>1, <2>4, <3>1 DEF StillThere, Reconciling, p, c
    <3>3. p \in W!Patch(a)
      BY <1>1, <3>2 DEF W!Patch
    <3>4. W!Replayed(a)[p] \in {c, Markers}
      BY <1>1, <3>2, <3>3 DEF W!Replayed, W!Merge
    <3>5. work'[a] = W!Replayed(a) /\ baseline'[a] = op.snapshot
      BY <1>12, <2>2, <2>4 DEF W!Replay, W!Replace
    <3>6. W!Replayed(a) # Gone
      <4>1. head[a] \in W!Files /\ baseline[a] \in W!Files
        BY <2>2, <2>4 DEF KnownOK, Known
      <4>2. W!Replayed(a) \in W!Files
        BY <4>1 DEF W!Replayed, W!Merge, W!Files
      <4> QED BY <4>2 DEF WorkspaceAssumptions, W!ContentsAssumption, W!Files
    <3> QED BY <2>3, <3>1, <3>4, <3>5, <3>6 DEF StillThere, Reconciling, p, c
  <2>5. CASE a # b
    <3>1. /\ work'[a] = work[a] /\ baseline'[a] = baseline[a] /\ finished'[a] = finished[a]
          /\ a \in applied => a \in applied'
      BY <1>12, <2>2, <2>5 DEF W!Replay, W!Replace
    <3> QED BY <1>0, <2>1, <2>3, <2>5, <3>1 DEF StillThere, Reconciling
  <2> QED BY <2>4, <2>5
<1>13. CASE W!ReplayFails
  BY <1>13 DEF W!ReplayFails, W!Without, Excepted
<1>14. CASE W!FinishIntegrate \/ W!FinishRollback \/ W!FinishAccept
  <2>1. /\ op' = W!Idle /\ stage' \in {W!NoStage, W!Observed(root)} /\ op.kind # "reconcile"
        /\ (op.kind = "accept" => stage' = W!NoStage)
        /\ UNCHANGED <<W!gitVars, applied, finished>>
    BY <1>14 DEF W!FinishIntegrate, W!FinishRollback, W!FinishAccept, W!historyVars
  <2>2. /\ op'.kind = "idle"
        /\ stage'.full => stage'.before = stage.before /\ stage.full /\ op.kind # "accept"
    BY <2>1, OpMoves, StageValues
  <2> QED BY <1>0, <2>1, <2>2 DEF StillThere, Reconciling, W!gitVars
<1>15. CASE W!Accept
  BY <1>0, <1>15, OpMoves DEF W!Accept, StillThere, Reconciling, W!gitVars, W!historyVars
<1>16. CASE W!Rollback
  <2>1. op.kind = "idle" /\ op'.kind = "rollback" /\ UNCHANGED <<W!gitVars, finished>>
    BY <1>16, OpMoves DEF W!Rollback
  <2>2. root' \in W!Files /\ stage' = W!Observed(root')
    BY <1>16, FilesStep DEF W!Rollback
  <2>3. stage'.full = stage.full /\ stage'.before = stage.before
    BY <2>2, StageValues
  <2>4. a \in applied /\ (stage.full => a \in stage.before) => a \in applied'
    BY <1>16 DEF W!Rollback
  <2> QED BY <1>0, <2>1, <2>3, <2>4 DEF StillThere, Reconciling, W!gitVars
<1>17. CASE W!Crash
  <2>1. op.kind # "reconcile" /\ op'.kind = "idle" /\ UNCHANGED <<W!gitVars, applied, finished>>
    BY <1>17, OpMoves DEF W!Crash, W!CutOff, W!Without, Excepted
  <2>2. stage'.full => stage' = stage /\ op.kind # "accept"
    BY <1>17, StageValues DEF W!Crash, KeptOK
  <2> QED BY <1>0, <2>1, <2>2 DEF StillThere, Reconciling, W!gitVars
<1>18. CASE W!OtherStarts \/ UNCHANGED W!vars
  BY <1>0, <1>18 DEF W!OtherStarts, W!vars, StillThere, Reconciling, W!gitVars, W!historyVars
<1> QED
  BY <1>2, <1>3, <1>4, <1>5, <1>6, <1>7, <1>8, <1>9, <1>10, <1>11, <1>12, <1>13, <1>14, <1>15,
     <1>16, <1>17, <1>18
  DEF W!Next

---------------------------------------------------------------------------
(* The theorems about the workspaces.                                      *)

LEMMA InitFacts ==
  ASSUME WorkspaceAssumptions, W!Init
  PROVE  InRoot /\ InNoRoot /\ MarkersOK /\ KeptOK
<1> USE DEF W!Init
<1>1. /\ op.kind = "idle" /\ op.snapshot = W!Initial
      /\ stage.before = {} /\ stage.start = W!Initial /\ ~stage.full
  BY DEF W!Idle, W!NoStage
<1> QED BY <1>1, InitialClean DEF InRoot, InNoRoot, MarkersOK, KeptOK

\* integrate, accept_integrated and rollback_integrated keep the manifests and the
\* root in step: a delta is in the root while its manifest awaits acceptance, and
\* out of it while its manifest says it can be integrated, for any children, files
\* and number of stages.  A crash inside an integration or a rollback, and a stage
\* that ended with integrations it never settled, are the exceptions.
THEOREM ManifestsTellTheRoot == W!Spec => []StatusTellsRoot
<1>1. DeltaInv => StatusTellsRoot
  <2> SUFFICES ASSUME DeltaInv PROVE StatusTellsRoot
    OBVIOUS
  <2>1. op.kind # "rollback" /\ W!Without({"half rolled back"}) =>
          \A a \in Owners : manifest[a] = "integrated_pending" => a \in applied
    BY DEF DeltaInv, InRoot
  <2>2. op.kind # "integrate" /\ W!Without({"half integrated", "earlier"}) =>
          \A a \in Owners : manifest[a] = "ready" => a \notin applied
    BY DEF DeltaInv, InNoRoot
  <2> QED BY <2>1, <2>2, SameDefinitions DEF StatusTellsRoot
<1>2. W!Init => DeltaInv
  BY TypeInit, InitFacts, SameDefinitions DEF DeltaInv
<1>3. DeltaInv /\ [W!Next]_W!vars => DeltaInv'
  BY TypeStep, InRootStep, InNoRootStep DEF DeltaInv
<1> QED BY <1>1, <1>2, <1>3, PTL DEF W!Spec

\* The markers git apply leaves on a conflict stay in the worktree of the child that
\* has to resolve them: integrate and rollback bring none into the root, unless
\* finalize committed files that still held some.
THEOREM ConflictsStayOutside == W!Spec => []MarkersComeUnresolved
<1>1. MarkersInv => MarkersComeUnresolved
  BY SameDefinitions DEF MarkersInv, MarkersOK, MarkersComeUnresolved, Clean
<1>2. W!Init => MarkersInv
  BY TypeInit, InitFacts, SameDefinitions DEF MarkersInv
<1>3. MarkersInv /\ [W!Next]_W!vars => MarkersInv'
  BY TypeStep, MarkersStep DEF MarkersInv
<1> QED BY <1>1, <1>2, <1>3, PTL DEF W!Spec

\* What a completed run changed can still be had until it is accepted or discarded:
\* it is in the root, in its worktree, in a conflict there, or in reconcile's hands.
\* It takes a crash of reconcile or of rollback, a review of an orphan with changes
\* that are in no commit, or a run that left markers, to lose it.
THEOREM DeltasAreKept == W!Spec => []NoDeltaLost
<1>1. KeptInv => NoDeltaLost
  <2> SUFFICES ASSUME KeptInv, W!Without(Excepted), NEW a \in Owners, NEW change \in finished[a]
               PROVE  \/ a \in applied
                      \/ op.kind = "reconcile" /\ op.agent = a /\ head[a][change[1]] = change[2]
                      \/ work[a] # Gone /\ work[a][change[1]] \in {change[2], Markers}
    BY SameDefinitions DEF NoDeltaLost, Excepted
  <2>1. StillThere(a, change[1], change[2])
    BY DEF KeptInv, KeptOK
  <2> QED BY <2>1 DEF StillThere, Reconciling
<1>2. W!Init => KeptInv
  BY TypeInit, InitFacts, SameDefinitions DEF KeptInv, MarkersInv
<1>3. KeptInv /\ [W!Next]_W!vars => KeptInv'
  BY TypeStep, InRootStep, MarkersStep, KeptStep DEF KeptInv, MarkersInv
<1> QED BY <1>1, <1>2, <1>3, PTL DEF W!Spec
=============================================================================
