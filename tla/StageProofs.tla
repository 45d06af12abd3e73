----------------------------- MODULE StageProofs -----------------------------
(***************************************************************************)
(* Stage, for any Agents, files, policies and bounds: who holds the effect *)
(* lock (it is held exactly while an Agent is between before_effect and    *)
(* after_effect, unless Ctrl-C stopped an effect halfway), the types, that *)
(* the Agents never stand in their own way, and the two promises of a      *)
(* rollback.  Every part of the invariants follows what happens while the  *)
(* lock is held, or while a rollback restores: that is where a manifest    *)
(* and the files may differ.                                               *)
(***************************************************************************)
EXTENDS Stage, TLAPS

Points == {"idle", "waiting", "locked", "effect"}

\* The invariant: besides the lock, where each Agent is and who may hold it.
PointsOK == pc \in [Agents -> Points] /\ holder \in Agents \union {Free}
LockInv == PointsOK /\ LockMatchesEffect

LEMMA InitLockInv == Init => LockInv
  BY ActorsAssumption DEF Init, LockInv, PointsOK, LockMatchesEffect, InEffect, Points, Agents

\* A step that leaves the Agents where they are, and forgets no mishap.
LEMMA AgentsAtRest ==
  ASSUME LockInv, UNCHANGED <<pc, holder>>, mishaps \subseteq mishaps'
  PROVE  LockInv'
  BY DEF LockInv, PointsOK, LockMatchesEffect, InEffect

\* The steps of one tool call move the lock with the Agent.
LEMMA CallStep ==
  ASSUME LockInv, NEW a \in Agents, RequestEffect(a) \/ Write(a) \/ AgentStep(a)
  PROVE  LockInv'
<1> USE ActorsAssumption DEF LockInv, PointsOK, LockMatchesEffect, InEffect, Points, Agents
<1>1. CASE RequestEffect(a)
  BY <1>1 DEF RequestEffect, historyVars
<1>2. CASE Write(a)
  BY <1>2, AgentsAtRest DEF Write, agentVars
<1>3. CASE Acquire(a)
  <2>1. mishaps' = mishaps
    BY <1>3 DEF Acquire, Create, historyVars
  <2>2. holder = Free /\ holder' = a /\ pc[a] = "waiting" /\ pc' = [pc EXCEPT ![a] = "locked"]
    BY <1>3 DEF Acquire
  <2> QED BY <2>1, <2>2
<1>4. CASE CreateFails(a)
  BY <1>4 DEF CreateFails, Leave, historyVars
<1>5. CASE Prepare(a)
  BY <1>5 DEF Prepare, historyVars
<1>6. CASE Refuse(a)
  BY <1>6 DEF Refuse, Leave, historyVars
<1>7. CASE Record(a)
  BY <1>7 DEF Record, Leave, historyVars
<1>8. CASE RecordFails(a)
  BY <1>8 DEF RecordFails, Leave
<1> QED BY <1>1, <1>2, <1>3, <1>4, <1>5, <1>6, <1>7, <1>8 DEF AgentStep

\* The steps of the user and of the world leave the Agents where they are.
LEMMA OtherStep ==
  ASSUME LockInv,
         \/ BeginTurn \/ EndTurn \/ ApprovePlan \/ Spawn
         \/ \E x \in Children \union Tasks : Finish(x)
         \/ ChangeMode \/ Accept \/ FinishAccept \/ AcceptFails
         \/ \E allowPartial \in BOOLEAN : Rollback(allowPartial)
         \/ RestoreFails \/ FinishRollback
         \/ \E p \in Paths : Restore(p) \/ Edit(p)
  PROVE  LockInv'
<1>1. UNCHANGED <<pc, holder>>
  BY DEF BeginTurn, EndTurn, ApprovePlan, Spawn, Finish, ChangeMode, Accept, FinishAccept,
         AcceptFails, Rollback, RestoreFails, FinishRollback, Restore, Edit, agentVars
<1>2. mishaps \subseteq mishaps'
  BY DEF BeginTurn, EndTurn, ApprovePlan, Create, Spawn, Finish, ChangeMode, Accept,
         FinishAccept, AcceptFails, Rollback, RestoreFails, FinishRollback, Restore, Edit,
         historyVars
<1> QED BY <1>1, <1>2, AgentsAtRest

LEMMA NextLockInv == LockInv /\ [Next]_vars => LockInv'
<1> SUFFICES ASSUME LockInv, [Next]_vars PROVE LockInv'
  OBVIOUS
<1>1. CASE Interrupt
  BY <1>1, ActorsAssumption
  DEF Interrupt, Leave, LockInv, PointsOK, LockMatchesEffect, InEffect, Points, Agents
<1>2. CASE Crash
  BY <1>2, ActorsAssumption
  DEF Crash, LockInv, PointsOK, LockMatchesEffect, InEffect, Points, Agents
<1>3. CASE \E a \in Agents : RequestEffect(a) \/ Write(a) \/ AgentStep(a)
  BY <1>3, CallStep
<1>4. CASE UNCHANGED vars
  BY <1>4, AgentsAtRest DEF vars
<1> QED BY <1>1, <1>2, <1>3, <1>4, OtherStep DEF Next

\* In every behaviour the effect lock is held by the Agent between
\* before_effect and after_effect, and by nobody when there is none, until a
\* Ctrl-C or a failed rollback: no error path of the two keeps it.
THEOREM LockHeldDuringEffects == Spec => []LockMatchesEffect
<1>1. LockInv => LockMatchesEffect
  BY DEF LockInv
<1> QED BY InitLockInv, NextLockInv, <1>1, PTL DEF Spec

\* Two Agents are never in a sensitive effect at the same time: what
\* ARCHITECTURE calls serializing them across the root and its children.
EffectsSerialized ==
  "halfway" \notin mishaps => \A a, b \in Agents : InEffect(a) /\ InEffect(b) => a = b

THEOREM OneEffectAtATime == Spec => []EffectsSerialized
<1>1. LockInv => EffectsSerialized
  BY DEF LockInv, LockMatchesEffect, EffectsSerialized
<1> QED BY InitLockInv, NextLockInv, <1>1, PTL DEF Spec

-----------------------------------------------------------------------------
(* Types.                                                                    *)

ManifestType == [coverage : {"full", "scoped", "none", "missing"},
                 baseline : Files, observed : Files, scoped : SUBSET Paths,
                 uncovered : 0 .. MaxUncovered]

FilesOK == disk \in Files /\ manifest \in [Stages -> ManifestType] /\ pre \in [Stages -> Files]

StageOK ==
  /\ created \in 0 .. MaxStages
  /\ workflow \in [stage : Nat, mode : Modes] /\ workflow.stage <= created
  /\ saved \in Nat /\ saved <= created

AgentsOK ==
  /\ pc \in [Agents -> Points] /\ holder \in Agents \union {Free}
  /\ cid \in [Agents -> Nat]
  /\ \A a \in Agents : cid[a] <= created /\ (pc[a] = "locked" => cid[a] # NoStage)
  /\ job \in [Agents -> Jobs]

UserOK ==
  /\ user \in {"ready", "accepting", "restoring"}
  /\ user = "restoring" => workflow.stage # NoStage
  /\ todo \subseteq Paths /\ (todo # {} => user = "restoring")
  /\ running \subseteq Children \union Tasks
  /\ policy \in Policies

CountsOK == effects \in 0 .. MaxEffects /\ writes \in 0 .. MaxWrites /\ edits \in 0 .. MaxEdits

HistoryOK ==
  /\ edited \in [Paths -> {"no", "alone", "raced"}]
  /\ outside \subseteq Paths
  /\ mishaps \subseteq Mishaps

ShapeInv ==
  FilesOK /\ StageOK /\ AgentsOK /\ UserOK /\ CountsOK /\ HistoryOK /\ turn \in BOOLEAN

(* A manifest by its fields. *)
ManifestIs(m, coverage, baseline, observed, scoped, uncovered) ==
  /\ m \in ManifestType
  /\ m.coverage = coverage /\ m.baseline = baseline /\ m.observed = observed
  /\ m.scoped = scoped /\ m.uncovered = uncovered

LEMMA ManifestFields ==
  ASSUME NEW m \in ManifestType
  PROVE  /\ m.coverage \in {"full", "scoped", "none", "missing"}
         /\ m.baseline \in Files /\ m.observed \in Files /\ m.scoped \subseteq Paths
         /\ m.uncovered \in 0 .. MaxUncovered
  BY DEF ManifestType

(* What the operations of the CheckpointManager make of a manifest. *)
LEMMA ManifestEdits ==
  ASSUME NEW m \in ManifestType, NEW files \in Files, NEW more \in Files,
         NEW paths \in SUBSET Paths, NEW n \in 0 .. MaxUncovered
  PROVE  /\ ManifestIs([m EXCEPT !.observed = files],
                       m.coverage, m.baseline, files, m.scoped, m.uncovered)
         /\ ManifestIs([m EXCEPT !.uncovered = n],
                       m.coverage, m.baseline, m.observed, m.scoped, n)
         /\ ManifestIs([m EXCEPT !.baseline = files, !.observed = more, !.scoped = paths],
                       m.coverage, files, more, paths, m.uncovered)
<1> USE DEF ManifestType, ManifestIs
<1> DEFINE Counts == 0 .. MaxUncovered
<1>0. n \in Counts
  OBVIOUS
<1> HIDE DEF Counts
<1>2. ManifestIs([m EXCEPT !.observed = files],
                 m.coverage, m.baseline, files, m.scoped, m.uncovered)
  OBVIOUS
<1>3. ManifestIs([m EXCEPT !.uncovered = n],
                 m.coverage, m.baseline, m.observed, m.scoped, n)
  OBVIOUS
<1>4. ManifestIs([m EXCEPT !.baseline = files, !.observed = more, !.scoped = paths],
                 m.coverage, files, more, paths, m.uncovered)
  OBVIOUS
<1> HIDE DEF ManifestIs
<1> QED BY <1>2, <1>3, <1>4

LEMMA FilesMade ==
  /\ Nothing \in Files
  /\ disk \in Files => \A paths : Capture(paths) \in Files
                                  /\ \A p \in Paths : Capture(paths)[p] = IF p \in paths THEN disk[p] ELSE Absent
  BY FilesAssumption DEF Nothing, Files, Capture

LEMMA ManifestMade ==
  ASSUME NEW files \in Files, NEW c \in {"full", "scoped", "none", "missing"}
  PROVE  ManifestIs(Manifest(c, files), c, files, files, {}, 0)
<1> DEFINE Counts == 0 .. MaxUncovered
<1>1. 0 \in Counts
  BY BoundsAssumption
<1> HIDE DEF Counts
<1>2. Manifest(c, files) \in [coverage : {"full", "scoped", "none", "missing"},
                              baseline : Files, observed : Files, scoped : SUBSET Paths,
                              uncovered : Counts]
  BY <1>1 DEF Manifest
<1> QED BY <1>2 DEF Manifest, ManifestIs, ManifestType, Counts

LEMMA MissingType == ManifestIs(Missing, "missing", Nothing, Nothing, {}, 0)
  BY ManifestMade, FilesMade DEF Missing

(* prepare_effect: the coverage stays; a full manifest is only looked at, a scoped *)
(* one takes up the paths it had not, or counts the effect as uncovered.           *)
LEMMA PreparedFacts ==
  ASSUME NEW m \in ManifestType, NEW paths \in Jobs, Accepts(m, paths), disk \in Files
  PROVE  LET made == Prepared(m, paths)
         IN  /\ made \in ManifestType /\ made.coverage = m.coverage
             /\ m.coverage \in {"full", "scoped", "none"}
             /\ m.coverage = "full" => made = m /\ Conflicts(m) = {}
             /\ made.uncovered = 0 => m.uncovered = 0
             /\ m.coverage = "scoped" /\ made.uncovered = 0 =>
                  /\ paths # Unknown /\ made.scoped = m.scoped \union paths
                  /\ \A p \in m.scoped : made.baseline[p] = m.baseline[p]
                  /\ \A p \in paths \ m.scoped : made.baseline[p] = disk[p]
<1>1. /\ m.coverage \in {"full", "scoped", "none"} /\ m.baseline \in Files /\ m.observed \in Files
      /\ m.scoped \subseteq Paths /\ m.uncovered \in 0 .. MaxUncovered /\ paths \subseteq Paths
  BY ManifestFields DEF Accepts, Jobs
<1>2. /\ Uncover(m) \in ManifestType /\ Uncover(m).coverage = m.coverage
      /\ Uncover(m).uncovered # 0
  <2> DEFINE n == IF m.uncovered >= MaxUncovered THEN m.uncovered ELSE m.uncovered + 1
  <2>1. n \in 0 .. MaxUncovered /\ n # 0
    BY <1>1, BoundsAssumption
  <2>2. Uncover(m) = [m EXCEPT !.uncovered = n]
    BY DEF Uncover
  <2> HIDE DEF n
  <2>3. ManifestIs([m EXCEPT !.uncovered = n], m.coverage, m.baseline, m.observed, m.scoped, n)
    BY <1>1, <2>1, ManifestEdits
  <2> QED BY <2>1, <2>2, <2>3 DEF ManifestIs
<1>3. /\ Extend(m, paths) \in ManifestType /\ Extend(m, paths).coverage = m.coverage
      /\ Extend(m, paths).uncovered = m.uncovered
      /\ Extend(m, paths).scoped = m.scoped \union paths
      /\ \A p \in m.scoped : Extend(m, paths).baseline[p] = m.baseline[p]
      /\ \A p \in paths \ m.scoped : Extend(m, paths).baseline[p] = disk[p]
  <2> DEFINE base == [p \in Paths |-> IF p \in paths \ m.scoped THEN disk[p] ELSE m.baseline[p]]
             seen == [p \in Paths |-> IF p \in paths \ m.scoped THEN disk[p] ELSE m.observed[p]]
  <2>1. base \in Files /\ seen \in Files
    BY <1>1 DEF Files
  <2>2. Extend(m, paths)
          = [m EXCEPT !.baseline = base, !.observed = seen, !.scoped = m.scoped \union paths]
    BY DEF Extend
  <2>3. /\ \A p \in m.scoped : base[p] = m.baseline[p]
        /\ \A p \in paths \ m.scoped : base[p] = disk[p]
    BY <1>1
  <2> HIDE DEF base, seen
  <2>4. m.scoped \union paths \in SUBSET Paths
    BY <1>1
  <2>5. ManifestIs([m EXCEPT !.baseline = base, !.observed = seen, !.scoped = m.scoped \union paths],
                   m.coverage, base, seen, m.scoped \union paths, m.uncovered)
    BY <1>1, <2>1, <2>4, ManifestEdits
  <2> QED BY <2>2, <2>3, <2>5 DEF ManifestIs
<1>4. CASE m.coverage = "full"
  BY <1>4 DEF Prepared, Accepts
<1>5. CASE m.coverage = "none"
  BY <1>2, <1>5 DEF Prepared
<1>6. CASE m.coverage = "scoped"
  BY <1>2, <1>3, <1>6 DEF Prepared
<1> QED BY <1>1, <1>4, <1>5, <1>6

(* record_effect: what is covered is recorded as it is now. *)
LEMMA RecordedFacts ==
  ASSUME NEW m \in ManifestType, disk \in Files
  PROVE  /\ Recorded(m) \in ManifestType /\ Recorded(m).coverage = m.coverage
         /\ Recorded(m).baseline = m.baseline /\ Recorded(m).scoped = m.scoped
         /\ Recorded(m).uncovered = m.uncovered
         /\ Covered(Recorded(m)) = Covered(m)
         /\ m.coverage # "none" => \A p \in Covered(m) : Recorded(m).observed[p] = disk[p]
<1>1. Covered(m) \subseteq Paths
  BY ManifestFields DEF Covered
<1>2. /\ Capture(Covered(m)) \in Files
      /\ \A p \in Covered(m) : Capture(Covered(m))[p] = disk[p]
  BY <1>1, FilesMade
<1>3. ManifestIs([m EXCEPT !.observed = Capture(Covered(m))],
                 m.coverage, m.baseline, Capture(Covered(m)), m.scoped, m.uncovered)
  BY <1>2, ManifestEdits, ManifestFields
<1>4. CASE m.coverage = "none"
  BY <1>4 DEF Recorded
<1>5. CASE m.coverage # "none"
  BY <1>2, <1>3, <1>5 DEF Recorded, ManifestIs, Covered
<1> QED BY <1>4, <1>5

(* CheckpointManager.create. *)
LEMMA Creation ==
  ASSUME ShapeInv, NEW c \in CoverageOf(policy), Create(c)
  PROVE  /\ created + 1 \in Stages /\ created \in Nat /\ created' = created + 1
         /\ c \in {"full", "scoped", "none"}
         /\ manifest' \in [Stages -> ManifestType] /\ pre' \in [Stages -> Files]
         /\ LET files == IF c = "full" THEN disk ELSE Nothing
            IN  ManifestIs(manifest'[created + 1], c, files, files, {}, 0)
         /\ \A s \in Stages \ {created + 1} : manifest'[s] = manifest[s] /\ pre'[s] = pre[s]
         /\ pre'[created + 1] = disk
         /\ edited' \in [Paths -> {"no", "alone", "raced"}]
         /\ \A p \in Paths : edited'[p] = "no"
         /\ outside' = {}
         /\ mishaps \subseteq mishaps' /\ mishaps' \subseteq Mishaps
         /\ "displaced" \notin mishaps' => holder = Free
<1> USE DEF ShapeInv
<1>1. created \in Nat /\ created < MaxStages /\ MaxStages \in Nat /\ created' = created + 1
  BY BoundsAssumption DEF StageOK, Create
<1>2. created + 1 \in Stages
  BY <1>1 DEF Stages
<1>3. c \in {"full", "scoped", "none"}
  BY PoliciesAssumption DEF UserOK, CoverageOf
<1> DEFINE files == IF c = "full" THEN disk ELSE Nothing
<1>4. files \in Files
  BY FilesMade DEF FilesOK
<1>5. manifest' = [manifest EXCEPT ![created + 1] = Manifest(c, files)]
  BY DEF Create
<1> HIDE DEF files
<1>6. ManifestIs(Manifest(c, files), c, files, files, {}, 0)
  BY <1>3, <1>4, ManifestMade
<1>7. manifest' \in [Stages -> ManifestType] /\ manifest'[created + 1] = Manifest(c, files)
      /\ \A s \in Stages \ {created + 1} : manifest'[s] = manifest[s]
  BY <1>2, <1>5, <1>6 DEF FilesOK, ManifestIs
<1>8. /\ pre' \in [Stages -> Files] /\ pre'[created + 1] = disk
      /\ \A s \in Stages \ {created + 1} : pre'[s] = pre[s]
  BY <1>2 DEF FilesOK, Create
<1>9. edited' = [p \in Paths |-> "no"] /\ outside' = {}
      /\ mishaps' = IF holder = Free THEN mishaps ELSE mishaps \union {"displaced"}
  BY DEF Create
<1>10. mishaps \subseteq mishaps' /\ mishaps' \subseteq Mishaps /\ ("displaced" \notin mishaps' => holder = Free)
  BY <1>9 DEF HistoryOK, Mishaps
<1> QED BY <1>1, <1>2, <1>3, <1>6, <1>7, <1>8, <1>9, <1>10 DEF files

-----------------------------------------------------------------------------
(* What each step does to the manifests and to the stage.                    *)

(* The current stage, if there is one: its manifest is one of those kept. *)
LEMMA CurrentFacts ==
  ASSUME ShapeInv
  PROVE  /\ workflow.stage \in Nat /\ created \in 0 .. MaxStages /\ workflow.mode \in Modes
         /\ workflow.stage # NoStage => workflow.stage \in Stages /\ Current \in ManifestType
         /\ created \in Nat /\ MaxStages \in Nat
  BY BoundsAssumption DEF ShapeInv, StageOK, FilesOK, NoStage, Stages, Current

NewStage ==
  /\ ApprovePlan \/ \E a \in Agents : Acquire(a)
  /\ \E c \in CoverageOf(policy) : Create(c)
  /\ workflow'.stage = created + 1 /\ workflow' \in [stage : Nat, mode : Modes]

SameFiles == UNCHANGED <<manifest, created, pre>>

(* Every step starts a stage, or writes into one manifest, or into none. *)
StageMove ==
  \/ NewStage
  \/ SameFiles /\ workflow' = workflow
  \/ SameFiles /\ ChangeMode /\ workflow'.stage = workflow.stage
       /\ workflow' \in [stage : Nat, mode : Modes]
  \/ SameFiles /\ FinishAccept /\ workflow' = Closed
  \/ SameFiles /\ Crash /\ workflow'.stage = saved /\ workflow' \in [stage : Nat, mode : Modes]
  \/ /\ UNCHANGED <<created, pre>> /\ workflow' = workflow
     /\ \/ \E a \in Agents, paths \in Jobs :
             /\ Prepare(a) /\ Accepts(manifest[cid[a]], paths)
             /\ manifest' = [manifest EXCEPT ![cid[a]] = Prepared(manifest[cid[a]], paths)]
             /\ job' = [job EXCEPT ![a] = paths]
        \/ \E a \in Agents :
             /\ Record(a) /\ Live
             /\ manifest' = [manifest EXCEPT ![workflow.stage] = Recorded(Current)]
        \/ /\ Accept /\ Live
           /\ manifest' = [manifest EXCEPT ![workflow.stage] = Missing]
  \/ /\ UNCHANGED <<created, pre>> /\ FinishRollback
     /\ workflow' = workflow \/ workflow' = Closed
     /\ manifest' = [manifest EXCEPT ![workflow.stage].observed = Current.baseline]

LEMMA StageMoves ==
  ASSUME ShapeInv, [Next]_vars
  PROVE  StageMove
<1>0. /\ workflow \in [stage : Nat, mode : Modes] /\ created \in Nat
      /\ saved \in Nat
  BY CurrentFacts DEF ShapeInv, StageOK
<1>1. CASE BeginTurn \/ EndTurn \/ Spawn \/ AcceptFails \/ RestoreFails
  BY <1>1 DEF BeginTurn, EndTurn, Spawn, AcceptFails, RestoreFails, stageVars, StageMove, SameFiles
<1>2. CASE Interrupt \/ UNCHANGED vars
  BY <1>2 DEF Interrupt, vars, stageVars, StageMove, SameFiles
<1>3. CASE ApprovePlan
  <2>1. workflow' = [stage |-> created + 1, mode |-> "implementation"]
    BY <1>3 DEF ApprovePlan
  <2>2. workflow'.stage = created + 1 /\ workflow' \in [stage : Nat, mode : Modes]
    BY <1>0, <2>1 DEF Modes
  <2>3. NewStage
    BY <1>3, <2>2 DEF ApprovePlan, NewStage
  <2> QED BY <2>3 DEF StageMove
<1>4. CASE Crash
  <2>1. workflow' = [workflow EXCEPT !.stage = saved] /\ SameFiles
    BY <1>4 DEF Crash, stageVars, SameFiles
  <2>2. workflow'.stage = saved /\ workflow' \in [stage : Nat, mode : Modes]
    BY <1>0, <2>1
  <2> QED BY <1>4, <2>1, <2>2 DEF StageMove
<1>5. CASE ChangeMode
  <2>1. /\ \E m \in Modes : workflow' = [workflow EXCEPT !.mode = m]
        /\ SameFiles
    BY <1>5 DEF ChangeMode, stageVars, SameFiles
  <2>2. workflow'.stage = workflow.stage /\ workflow' \in [stage : Nat, mode : Modes]
    BY <1>0, <2>1
  <2> QED BY <1>5, <2>1, <2>2 DEF StageMove
<1>6. CASE Accept
  BY <1>6 DEF Accept, StageMove
<1>7. CASE FinishAccept
  BY <1>7 DEF FinishAccept, stageVars, SameFiles, StageMove
<1>8. CASE FinishRollback
  BY <1>8 DEF FinishRollback, StageMove, Current
<1>9. CASE \/ \E x \in Children \union Tasks : Finish(x)
           \/ \E allowPartial \in BOOLEAN : Rollback(allowPartial)
           \/ \E p \in Paths : Restore(p) \/ Edit(p)
  BY <1>9 DEF Finish, Rollback, Restore, Edit, stageVars, StageMove, SameFiles
<1>10. ASSUME NEW a \in Agents,
              RequestEffect(a) \/ Write(a) \/ CreateFails(a) \/ Refuse(a) \/ RecordFails(a)
       PROVE  StageMove
  BY <1>10 DEF RequestEffect, Write, CreateFails, Refuse, RecordFails, stageVars, StageMove, SameFiles
<1>11. ASSUME NEW a \in Agents, Acquire(a) PROVE StageMove
  <2>1. CASE UNCHANGED <<workflow, stageVars>>
    BY <1>11, <2>1 DEF stageVars, StageMove, SameFiles, Acquire
  <2>2. CASE (\E c \in CoverageOf(policy) : Create(c)) /\ workflow' = [workflow EXCEPT !.stage = created + 1]
    <3>1. workflow'.stage = created + 1 /\ workflow' \in [stage : Nat, mode : Modes]
      BY <1>0, <2>2
    <3> QED BY <1>11, <2>2, <3>1 DEF NewStage, StageMove
  <2> QED BY <1>11, <2>1, <2>2 DEF Acquire
<1>12. ASSUME NEW a \in Agents, Prepare(a) PROVE StageMove
  BY <1>12 DEF Prepare, StageMove
<1>13. ASSUME NEW a \in Agents, Record(a) PROVE StageMove
  BY <1>13 DEF Record, StageMove, SameFiles, Current
<1> QED BY <1>1, <1>2, <1>3, <1>4, <1>5, <1>6, <1>7, <1>8, <1>9, <1>10, <1>11, <1>12, <1>13
        DEF Next, AgentStep

LEMMA StageStep == ASSUME ShapeInv, [Next]_vars PROVE StageOK'
<1>0. /\ workflow \in [stage : Nat, mode : Modes] /\ workflow.stage <= created /\ workflow.stage \in Nat
      /\ created \in Nat /\ MaxStages \in Nat /\ created <= MaxStages /\ saved \in Nat /\ saved <= created
  BY CurrentFacts DEF ShapeInv, StageOK
<1>1. StageMove
  BY StageMoves
<1>2. CASE NewStage
  <2>1. created' = created + 1 /\ created + 1 <= MaxStages
    BY <1>0, <1>2, Creation DEF NewStage, Stages
  <2>2. saved' = saved
    BY <1>2 DEF NewStage, ApprovePlan, Acquire
  <2> QED BY <1>0, <1>2, <2>1, <2>2 DEF NewStage, StageOK
<1>3. CASE created' = created
  <2>1. /\ workflow' \in [stage : Nat, mode : Modes]
        /\ workflow'.stage \in {workflow.stage, saved, NoStage}
    <3>1. Closed \in [stage : Nat, mode : Modes] /\ Closed.stage = NoStage
      BY DEF Closed, NoStage, Modes
    <3>2. NewStage => created' = created + 1
      BY Creation DEF NewStage
    <3> QED BY <1>0, <1>1, <1>3, <3>1, <3>2 DEF StageMove
  <2>2. saved' \in {saved, workflow.stage, NoStage}
    BY DEF Next, vars, BeginTurn, EndTurn, ApprovePlan, Spawn, Interrupt, Crash, RequestEffect, Write,
           AgentStep, Acquire, CreateFails, Prepare, Refuse, Record, RecordFails, Finish, ChangeMode, Accept,
           FinishAccept, AcceptFails, Rollback, RestoreFails, FinishRollback, Restore, Edit
  <2> QED BY <1>0, <1>3, <2>1, <2>2 DEF StageOK, NoStage
<1> QED BY <1>1, <1>2, <1>3 DEF StageMove, SameFiles

LEMMA FilesStep == ASSUME ShapeInv, [Next]_vars PROVE FilesOK'
<1>0. disk \in Files /\ manifest \in [Stages -> ManifestType] /\ pre \in [Stages -> Files]
  BY DEF ShapeInv, FilesOK
<1>1. disk' \in Files
  <2>1. CASE \E a \in Agents : Write(a)
    BY <1>0, <2>1 DEF Write, Files
  <2>2. CASE \E p \in Paths : Edit(p)
    BY <1>0, <2>2 DEF Edit, Files
  <2>3. CASE \E p \in Paths : Restore(p)
    <3>1. PICK p \in Paths : Restore(p)
      BY <2>3
    <3>2. workflow.stage \in Stages
      BY <3>1, CurrentFacts DEF ShapeInv, UserOK, Restore
    <3>3. manifest[workflow.stage].baseline \in Files
      BY <1>0, <3>2, ManifestFields
    <3> QED BY <1>0, <3>1, <3>3 DEF Restore, Files
  <2>4. CASE RestoreFails \/ Crash
    BY <1>0, <2>4, FilesAssumption DEF RestoreFails, Crash, StopRestoring, Files
  <2> QED BY <1>0, <2>1, <2>2, <2>3, <2>4 DEF Next, vars, BeginTurn, EndTurn, ApprovePlan, Spawn, Interrupt,
           RequestEffect, AgentStep, Acquire, CreateFails, Prepare, Refuse, Record, RecordFails, Finish,
           ChangeMode, Accept, FinishAccept, AcceptFails, Rollback, FinishRollback
<1>2. manifest' \in [Stages -> ManifestType] /\ pre' \in [Stages -> Files]
  <2>1. CASE NewStage
    BY <2>1, Creation DEF NewStage
  <2>2. CASE SameFiles
    BY <1>0, <2>2 DEF SameFiles
  <2>3. workflow.stage \in Stages => Current \in ManifestType
    BY <1>0 DEF Current
  <2>4. ASSUME NEW a \in Agents, NEW paths \in Jobs, Prepare(a), Accepts(manifest[cid[a]], paths),
               manifest' = [manifest EXCEPT ![cid[a]] = Prepared(manifest[cid[a]], paths)]
        PROVE  manifest' \in [Stages -> ManifestType]
    <3>1. cid[a] \in Stages
      BY <2>4, CurrentFacts DEF ShapeInv, AgentsOK, Prepare, Stages, NoStage
    <3>2. Prepared(manifest[cid[a]], paths) \in ManifestType
      BY <1>0, <2>4, <3>1, PreparedFacts
    <3> QED BY <1>0, <2>4, <3>1, <3>2
  <2>5. ASSUME Live, manifest' = [manifest EXCEPT ![workflow.stage] = Recorded(Current)]
        PROVE  manifest' \in [Stages -> ManifestType]
    <3>1. Recorded(Current) \in ManifestType
      BY <1>0, <2>3, <2>5, CurrentFacts, RecordedFacts DEF Live
    <3> QED BY <1>0, <2>5, <3>1
  <2>6. ASSUME manifest' = [manifest EXCEPT ![workflow.stage] = Missing]
        PROVE  manifest' \in [Stages -> ManifestType]
    BY <1>0, <2>6, MissingType DEF ManifestIs
  <2>7. ASSUME FinishRollback,
               manifest' = [manifest EXCEPT ![workflow.stage].observed = Current.baseline]
        PROVE  manifest' \in [Stages -> ManifestType]
    <3>1. Current \in ManifestType /\ workflow.stage \in Stages
      BY <2>7, CurrentFacts DEF ShapeInv, UserOK, FinishRollback
    <3>2. ManifestIs([Current EXCEPT !.observed = Current.baseline], Current.coverage,
                     Current.baseline, Current.baseline, Current.scoped, Current.uncovered)
      BY <3>1, ManifestEdits, ManifestFields
    <3>3. manifest' = [manifest EXCEPT ![workflow.stage] = [Current EXCEPT !.observed = Current.baseline]]
      BY <2>7 DEF Current
    <3> QED BY <1>0, <3>2, <3>3 DEF ManifestIs
  <2>8. StageMove
    BY StageMoves
  <2> QED BY <1>0, <2>1, <2>2, <2>4, <2>5, <2>6, <2>7, <2>8 DEF StageMove
<1> QED BY <1>1, <1>2 DEF FilesOK

LEMMA AgentsStep == ASSUME ShapeInv, [Next]_vars PROVE AgentsOK'
<1>0. /\ pc \in [Agents -> Points] /\ holder \in Agents \union {Free} /\ cid \in [Agents -> Nat]
      /\ job \in [Agents -> Jobs] /\ Unknown \in Jobs
      /\ \A a \in Agents : cid[a] \in Nat /\ cid[a] <= created /\ (pc[a] = "locked" => cid[a] # NoStage)
      /\ created \in Nat /\ Root \in Agents
  BY CurrentFacts DEF ShapeInv, AgentsOK, Jobs, Unknown, Agents
<1>1. created' \in Nat /\ created <= created'
  <2>1. created' = created \/ created' = created + 1
    BY StageMoves, Creation DEF StageMove, NewStage, SameFiles
  <2> QED BY <1>0, <2>1
<1>2. CASE UNCHANGED agentVars
  BY <1>0, <1>1, <1>2 DEF agentVars, AgentsOK
<1>3. CASE \/ BeginTurn \/ EndTurn \/ ApprovePlan \/ Spawn \/ ChangeMode \/ Accept \/ FinishAccept
           \/ AcceptFails \/ RestoreFails \/ FinishRollback
           \/ \E x \in Children \union Tasks : Finish(x)
           \/ \E allowPartial \in BOOLEAN : Rollback(allowPartial)
           \/ \E p \in Paths : Restore(p) \/ Edit(p)
           \/ UNCHANGED vars
  BY <1>2, <1>3 DEF BeginTurn, EndTurn, ApprovePlan, Spawn, ChangeMode, Accept, FinishAccept,
     AcceptFails, RestoreFails, FinishRollback, Finish, Rollback, Restore, Edit, vars, agentVars
<1>4. CASE Crash
  BY <1>0, <1>1, <1>4 DEF Crash, AgentsOK, Points, NoStage
<1>5. ASSUME NEW a \in Agents, pc' = [pc EXCEPT ![a] = "idle"], cid' = [cid EXCEPT ![a] = NoStage],
             job' = [job EXCEPT ![a] = Unknown], holder' \in {holder, Free}
      PROVE  AgentsOK'
  <2>1. \A b \in Agents : cid'[b] \in {cid[b], NoStage} /\ (pc'[b] = "locked" => pc[b] = "locked" /\ cid'[b] = cid[b])
    BY <1>0, <1>5
  <2>2. \A b \in Agents : cid'[b] <= created' /\ (pc'[b] = "locked" => cid'[b] # NoStage)
    BY <1>0, <1>1, <2>1 DEF NoStage
  <2> QED BY <1>0, <1>5, <2>2 DEF AgentsOK, Points, NoStage
<1>6. CASE Interrupt
  BY <1>0, <1>5, <1>6 DEF Interrupt, Leave
<1>7. ASSUME NEW a \in Agents, RequestEffect(a) \/ Write(a) PROVE AgentsOK'
  BY <1>0, <1>1, <1>7 DEF RequestEffect, Write, agentVars, AgentsOK, Points
<1>8. ASSUME NEW a \in Agents, CreateFails(a) \/ Refuse(a) \/ Record(a) \/ RecordFails(a)
      PROVE  AgentsOK'
  BY <1>5, <1>8 DEF CreateFails, Refuse, Record, RecordFails, Leave
<1>9. ASSUME NEW a \in Agents, Acquire(a) PROVE AgentsOK'
  <2>1. /\ holder' = a /\ pc' = [pc EXCEPT ![a] = "locked"] /\ job' = job
        /\ \E s \in Nat : cid' = [cid EXCEPT ![a] = s] /\ s # NoStage /\ s <= created'
    <3>1. CASE workflow.stage # NoStage /\ cid' = [cid EXCEPT ![a] = workflow.stage]
               /\ UNCHANGED stageVars
      BY <1>9, <3>1, CurrentFacts DEF Acquire, stageVars, ShapeInv, StageOK
    <3>2. CASE (\E c \in CoverageOf(policy) : Create(c)) /\ cid' = [cid EXCEPT ![a] = created + 1]
      <4>1. created' = created + 1 /\ created + 1 # NoStage /\ created + 1 \in Nat /\ created + 1 <= created + 1
        BY <1>0, <3>2, Creation DEF NoStage
      <4> QED BY <1>9, <3>2, <4>1 DEF Acquire
    <3> QED BY <1>9, <3>1, <3>2 DEF Acquire
  <2>2. PICK s \in Nat : cid' = [cid EXCEPT ![a] = s] /\ s # NoStage /\ s <= created'
    BY <2>1
  <2>3. cid' \in [Agents -> Nat] /\ pc' \in [Agents -> Points]
    BY <1>0, <2>1, <2>2 DEF Points
  <2>4. \A b \in Agents : cid'[b] <= created' /\ (pc'[b] = "locked" => cid'[b] # NoStage)
    <3>1. cid'[a] = s
      BY <1>0, <2>2
    <3>2. \A b \in Agents \ {a} : cid'[b] = cid[b] /\ pc'[b] = pc[b]
      BY <1>0, <2>1, <2>2
    <3> QED BY <1>0, <1>1, <2>2, <3>1, <3>2
  <2> QED BY <1>0, <2>1, <2>3, <2>4 DEF AgentsOK
<1>10. ASSUME NEW a \in Agents, Prepare(a) PROVE AgentsOK'
  <2>1. /\ pc' = [pc EXCEPT ![a] = "effect"] /\ cid' = [cid EXCEPT ![a] = NoStage] /\ holder' = holder
        /\ \E paths \in Jobs : job' = [job EXCEPT ![a] = paths]
    BY <1>10 DEF Prepare
  <2>2. \A b \in Agents : cid'[b] \in {cid[b], NoStage} /\ (pc'[b] = "locked" => pc[b] = "locked" /\ cid'[b] = cid[b])
    BY <1>0, <2>1
  <2>3. \A b \in Agents : cid'[b] <= created' /\ (pc'[b] = "locked" => cid'[b] # NoStage)
    BY <1>0, <1>1, <2>2 DEF NoStage
  <2> QED BY <1>0, <2>1, <2>3 DEF AgentsOK, Points, NoStage
<1> QED BY <1>3, <1>4, <1>6, <1>7, <1>8, <1>9, <1>10 DEF Next, AgentStep

LEMMA UserStep == ASSUME ShapeInv, [Next]_vars PROVE UserOK' /\ turn' \in BOOLEAN
<1>0. /\ user \in {"ready", "accepting", "restoring"} /\ todo \subseteq Paths
      /\ running \subseteq Children \union Tasks /\ policy \in Policies /\ turn \in BOOLEAN
      /\ user = "restoring" => workflow.stage # NoStage
      /\ todo # {} => user = "restoring"
  BY DEF ShapeInv, UserOK
<1>1. policy' = policy
  BY DEF Next, vars, BeginTurn, EndTurn, ApprovePlan, Spawn, Interrupt, Crash, RequestEffect, Write,
         AgentStep, Acquire, CreateFails, Prepare, Refuse, Record, RecordFails, Finish, ChangeMode, Accept,
         FinishAccept, AcceptFails, Rollback, RestoreFails, FinishRollback, Restore, Edit
<1>2. running' \subseteq Children \union Tasks /\ turn' \in BOOLEAN
  BY <1>0 DEF Next, vars, BeginTurn, EndTurn, ApprovePlan, Spawn, Interrupt, Crash, RequestEffect, Write,
         AgentStep, Acquire, CreateFails, Prepare, Refuse, Record, RecordFails, Finish, ChangeMode, Accept,
         FinishAccept, AcceptFails, Rollback, RestoreFails, FinishRollback, Restore, Edit
<1>3. /\ user' \in {"ready", "accepting", "restoring"} /\ todo' \subseteq Paths
      /\ user' = "restoring" => user = "restoring" \/ Live
  <2>1. CASE \E allowPartial \in BOOLEAN : Rollback(allowPartial)
    <3>1. Live /\ user' = "restoring" /\ todo' \subseteq Covered(Current)
      BY <2>1 DEF Rollback
    <3>2. Covered(Current) \subseteq Paths
      BY <3>1, CurrentFacts, ManifestFields DEF Live, Covered
    <3> QED BY <3>1, <3>2
  <2>2. CASE ~ \E allowPartial \in BOOLEAN : Rollback(allowPartial)
    BY <1>0, <2>2 DEF Next, vars, BeginTurn, EndTurn, ApprovePlan, Spawn, Interrupt, Crash, RequestEffect,
         Write, AgentStep, Acquire, CreateFails, Prepare, Refuse, Record, RecordFails, Finish, ChangeMode, Accept,
         FinishAccept, AcceptFails, RestoreFails, FinishRollback, Restore, Edit, userVars
  <2> QED BY <2>1, <2>2
<1>4. user' = "restoring" => workflow'.stage # NoStage
  <2>1. user' = "restoring" => workflow.stage # NoStage
    BY <1>0, <1>3 DEF Live
  <2>2. NewStage => workflow'.stage # NoStage
    BY Creation DEF NewStage, NoStage
  <2>3. FinishAccept \/ FinishRollback \/ Crash => user' = "ready"
    BY DEF FinishAccept, FinishRollback, Crash
  <2> QED BY <2>1, <2>2, <2>3, StageMoves DEF StageMove
<1>5. todo' # {} => user' = "restoring"
  <2>1. CASE UNCHANGED userVars
    BY <1>0, <2>1 DEF userVars
  <2>2. CASE \/ Accept \/ FinishAccept \/ AcceptFails \/ RestoreFails \/ FinishRollback \/ Crash
             \/ \E allowPartial \in BOOLEAN : Rollback(allowPartial)
             \/ \E p \in Paths : Restore(p)
    BY <1>0, <2>2 DEF Accept, FinishAccept, AcceptFails, RestoreFails, FinishRollback, Crash, Rollback,
       Restore, Quiet
  <2>3. CASE ~UNCHANGED userVars
    BY <2>2, <2>3 DEF Next, vars, userVars, BeginTurn, EndTurn, ApprovePlan, Spawn, Interrupt, RequestEffect,
       Write, AgentStep, Acquire, CreateFails, Prepare, Refuse, Record, RecordFails, Finish, ChangeMode, Edit
  <2> QED BY <2>1, <2>3
<1> QED BY <1>1, <1>2, <1>3, <1>4, <1>5, <1>0 DEF UserOK

LEMMA CountsStep == ASSUME ShapeInv, [Next]_vars PROVE CountsOK'
<1>1. /\ effects' = effects \/ (effects < MaxEffects /\ effects' = effects + 1)
      /\ writes' = writes \/ (writes < MaxWrites /\ writes' = writes + 1)
      /\ edits' = edits \/ (edits < MaxEdits /\ edits' = edits + 1)
  BY DEF Next, vars, BeginTurn, EndTurn, ApprovePlan, Spawn, Interrupt, Crash, RequestEffect, Write,
         AgentStep, Acquire, CreateFails, Prepare, Refuse, Record, RecordFails, Finish, ChangeMode, Accept,
         FinishAccept, AcceptFails, Rollback, RestoreFails, FinishRollback, Restore, Edit, countVars
<1> QED BY <1>1, BoundsAssumption DEF ShapeInv, CountsOK

(* Who changes the history of edits: an Agent's write, a restore, an edit, a new stage. *)
LEMMA EditsMove ==
  ASSUME ShapeInv, [Next]_vars
  PROVE  \/ UNCHANGED <<edited, outside>> /\ mishaps \subseteq mishaps' /\ mishaps' \subseteq Mishaps
         \/ /\ NewStage /\ \A p \in Paths : edited'[p] = "no"
            /\ outside' = {} /\ mishaps \subseteq mishaps' /\ mishaps' \subseteq Mishaps
            /\ edited' \in [Paths -> {"no", "alone", "raced"}]
         \/ /\ UNCHANGED <<outside, mishaps>>
            /\ \E p \in Paths : /\ edited' = [edited EXCEPT ![p] = "no"]
                                /\ Restore(p) \/ \E a \in Agents : Write(a)
         \/ /\ outside' = outside /\ mishaps \subseteq mishaps' /\ mishaps' \subseteq Mishaps
            /\ RestoreFails \/ Crash
            /\ \E p \in todo : edited' = [edited EXCEPT ![p] = "no"]
         \/ /\ mishaps' = mishaps
            /\ \E p \in Paths : /\ Edit(p) /\ outside' = outside \union {p}
                                /\ \E k \in {"alone", "raced"} : edited' = [edited EXCEPT ![p] = k]
<1>0. edited \in [Paths -> {"no", "alone", "raced"}] /\ mishaps \subseteq Mishaps
  BY DEF ShapeInv, HistoryOK
<1>1. CASE \E p \in Paths : Edit(p)
  BY <1>1 DEF Edit
<1>2. CASE \E p \in Paths : Restore(p)
  BY <1>2 DEF Restore
<1>3. CASE \E a \in Agents : Write(a)
  <2>1. PICK a \in Agents : Write(a)
    BY <1>3
  <2>2. job[a] \subseteq Paths
    BY DEF ShapeInv, AgentsOK, Jobs
  <2>3. UNCHANGED <<outside, mishaps>>
    BY <2>1 DEF Write
  <2>4. \E p \in Paths : edited' = [edited EXCEPT ![p] = "no"]
    BY <2>1, <2>2 DEF Write
  <2> QED BY <2>1, <2>3, <2>4
<1>4. CASE NewStage
  BY <1>4, Creation DEF NewStage
<1>5. CASE ~NewStage /\ (ApprovePlan \/ \E a \in Agents : Acquire(a))
  <2>1. ~ApprovePlan
    <3>1. ApprovePlan => workflow' = [stage |-> created + 1, mode |-> "implementation"]
                         /\ \E c \in CoverageOf(policy) : Create(c)
      BY DEF ApprovePlan
    <3>2. created \in Nat
      BY CurrentFacts
    <3> QED BY <1>5, <3>1, <3>2 DEF NewStage, Modes
  <2>2. PICK a \in Agents : Acquire(a)
    BY <1>5, <2>1
  <2>3. workflow \in [stage : Nat, mode : Modes] /\ created \in Nat
    BY CurrentFacts DEF ShapeInv, StageOK
  <2>4. ASSUME \E c \in CoverageOf(policy) : Create(c), workflow' = [workflow EXCEPT !.stage = created + 1]
        PROVE  FALSE
    <3>1. workflow'.stage = created + 1 /\ workflow' \in [stage : Nat, mode : Modes]
      BY <2>3, <2>4
    <3> QED BY <1>5, <2>2, <2>4, <3>1 DEF NewStage
  <2>5. UNCHANGED historyVars
    BY <2>2, <2>4 DEF Acquire
  <2> QED BY <1>0, <2>5 DEF historyVars
<1>6. CASE RestoreFails \/ Crash
  <2>1. outside' = outside /\ mishaps \subseteq mishaps' /\ mishaps' \subseteq Mishaps /\ StopRestoring
    BY <1>0, <1>6 DEF RestoreFails, Crash, Mishaps
  <2> QED BY <1>6, <2>1 DEF StopRestoring
<1>8. CASE Interrupt \/ \E a \in Agents : RecordFails(a)
  <2>1. UNCHANGED <<edited, outside>> /\ mishaps' \in {mishaps, mishaps \union {"halfway"}, mishaps \union {"untracked"}}
    BY <1>8 DEF Interrupt, RecordFails
  <2> QED BY <1>0, <2>1 DEF Mishaps
<1>7. CASE \/ BeginTurn \/ EndTurn \/ Spawn \/ ChangeMode \/ Accept \/ FinishAccept
           \/ AcceptFails \/ FinishRollback
           \/ \E x \in Children \union Tasks : Finish(x)
           \/ \E allowPartial \in BOOLEAN : Rollback(allowPartial)
           \/ \E a \in Agents : RequestEffect(a) \/ CreateFails(a) \/ Prepare(a) \/ Refuse(a) \/ Record(a)
           \/ UNCHANGED vars
  BY <1>0, <1>7 DEF BeginTurn, EndTurn, Spawn, ChangeMode, Accept, FinishAccept, AcceptFails,
     FinishRollback, Finish, Rollback, RequestEffect, CreateFails, Prepare, Refuse, Record, vars, historyVars
<1> QED BY <1>1, <1>2, <1>3, <1>4, <1>5, <1>6, <1>7, <1>8 DEF Next, AgentStep

LEMMA HistoryStep == ASSUME ShapeInv, [Next]_vars PROVE HistoryOK'
<1>0. edited \in [Paths -> {"no", "alone", "raced"}] /\ outside \subseteq Paths /\ mishaps \subseteq Mishaps
  BY DEF ShapeInv, HistoryOK
<1>1. edited' \in [Paths -> {"no", "alone", "raced"}]
  BY <1>0, EditsMove
<1>2. outside' \subseteq Paths
  BY <1>0, EditsMove
<1>3. mishaps' \subseteq Mishaps
  BY <1>0, EditsMove
<1> QED BY <1>1, <1>2, <1>3 DEF HistoryOK

LEMMA ShapeInit == Init => ShapeInv
<1> SUFFICES ASSUME Init PROVE ShapeInv
  OBVIOUS
<1> USE DEF Init
<1>1. FilesOK
  BY MissingType DEF FilesOK, Files, ManifestIs
<1>2. StageOK
  BY BoundsAssumption DEF StageOK, Modes, NoStage
<1>3. AgentsOK
  BY DEF AgentsOK, Points, NoStage, Jobs, Unknown
<1>4. UserOK /\ HistoryOK /\ turn \in BOOLEAN
  BY DEF UserOK, HistoryOK
<1>5. CountsOK
  BY BoundsAssumption DEF CountsOK
<1> QED BY <1>1, <1>2, <1>3, <1>4, <1>5 DEF ShapeInv

LEMMA ShapeStep == ShapeInv /\ [Next]_vars => ShapeInv'
<1> SUFFICES ASSUME ShapeInv, [Next]_vars PROVE ShapeInv'
  OBVIOUS
<1>1. FilesOK' /\ StageOK' /\ AgentsOK' /\ UserOK' /\ CountsOK' /\ HistoryOK' /\ turn' \in BOOLEAN
  BY FilesStep, StageStep, AgentsStep, UserStep, CountsStep, HistoryStep
<1> QED BY <1>1 DEF ShapeInv

(* TypeOK: the manifests and the Agents' place in invoke_tool have their types, no    *)
(* stage is named that was never created, and the list of uncovered effects of a      *)
(* manifest (_append_uncovered_effect) stays within its limit.                        *)
THEOREM StageTypes == Spec => []TypeOK
<1>1. ShapeInv => TypeOK
  <2> SUFFICES ASSUME ShapeInv PROVE TypeOK
    OBVIOUS
  <2>1. /\ disk \in Files /\ policy \in Policies /\ pre \in [Stages -> Files]
        /\ manifest \in [Stages -> [coverage : {"full", "scoped", "none", "missing"},
                                    baseline : Files, observed : Files,
                                    scoped : SUBSET Paths,
                                    uncovered : 0 .. MaxUncovered]]
    BY DEF ShapeInv, FilesOK, UserOK, ManifestType
  <2>2. created \in 0 .. MaxStages /\ workflow \in [stage : 0 .. created, mode : Modes] /\ saved \in 0 .. created
    <3>1. created \in Nat /\ workflow.stage \in 0 .. created /\ saved \in 0 .. created
      BY CurrentFacts DEF ShapeInv, StageOK
    <3> QED BY <3>1 DEF ShapeInv, StageOK
  <2>3. /\ pc \in [Agents -> {"idle", "waiting", "locked", "effect"}] /\ job \in [Agents -> Jobs]
        /\ holder \in Agents \union {Free} /\ cid \in [Agents -> 0 .. created]
    <3>1. \A a \in Agents : cid[a] \in 0 .. created
      BY CurrentFacts DEF ShapeInv, AgentsOK
    <3> QED BY <3>1 DEF ShapeInv, AgentsOK, Points
  <2>4. /\ turn \in BOOLEAN /\ running \subseteq Children \union Tasks
        /\ user \in {"ready", "accepting", "restoring"} /\ todo \subseteq Paths
    BY DEF ShapeInv, UserOK
  <2>5. /\ effects \in 0 .. MaxEffects /\ writes \in 0 .. MaxWrites /\ edits \in 0 .. MaxEdits
        /\ edited \in [Paths -> {"no", "alone", "raced"}]
        /\ outside \subseteq Paths /\ mishaps \subseteq Mishaps
    BY DEF ShapeInv, CountsOK, HistoryOK
  <2> QED BY <2>1, <2>2, <2>3, <2>4, <2>5 DEF TypeOK
<1> QED BY ShapeInit, ShapeStep, <1>1, PTL DEF Spec

-----------------------------------------------------------------------------
(* Who is where: the actors, the lock and the user's thread.                 *)

(* The lock is with whoever is between before_effect and after_effect, whatever went wrong. *)
LockTaken == \A a \in Agents : InEffect(a) => holder = a

(* A tool call is at work only in a turn of the root, or in a child that runs. *)
AgentPlaces == \A a \in Agents : pc[a] # "idle" => IF a = Root THEN turn ELSE a \in running

(* The user accepts or rolls back between two turns; what is accepted is already deleted, *)
(* and what is rolled back has files to restore and nobody running beside it.             *)
UserPlaces ==
  /\ user # "ready" => ~turn
  /\ user = "accepting" => workflow.stage # NoStage /\ Current.coverage = "missing"
  /\ user = "restoring" =>
       /\ running = {}
       /\ workflow.stage # NoStage /\ Current.coverage \in {"full", "scoped"}
       /\ todo \subseteq Covered(Current)

EditsOutside == \A p \in Paths : edited[p] # "no" => p \in outside

PlaceInv == ShapeInv /\ LockTaken /\ AgentPlaces /\ UserPlaces /\ EditsOutside

(* Where an Agent's tool call may have come from. *)
LEMMA AgentMoves ==
  ASSUME ShapeInv, [Next]_vars, NEW a \in Agents
  PROVE  /\ pc'[a] = "effect" => (pc[a] = "effect" /\ job'[a] = job[a]) \/ Prepare(a)
         /\ pc[a] = "effect" /\ pc'[a] # "effect" =>
              Record(a) \/ RecordFails(a) \/ (Interrupt /\ a = Root) \/ Crash
         /\ pc'[a] = "locked" => (pc[a] = "locked" /\ cid'[a] = cid[a]) \/ Acquire(a)
<1>0. pc \in [Agents -> Points] /\ cid \in [Agents -> Nat] /\ job \in [Agents -> Jobs] /\ Root \in Agents
  BY DEF ShapeInv, AgentsOK, Agents
<1>1. CASE UNCHANGED <<pc, cid, job>>
  BY <1>1
<1>2. CASE \/ BeginTurn \/ EndTurn \/ ApprovePlan \/ Spawn \/ ChangeMode \/ Accept \/ FinishAccept
           \/ AcceptFails \/ RestoreFails \/ FinishRollback
           \/ \E x \in Children \union Tasks : Finish(x)
           \/ \E allowPartial \in BOOLEAN : Rollback(allowPartial)
           \/ \E p \in Paths : Restore(p) \/ Edit(p)
           \/ UNCHANGED vars
  BY <1>1, <1>2 DEF BeginTurn, EndTurn, ApprovePlan, Spawn, ChangeMode, Accept, FinishAccept,
     AcceptFails, RestoreFails, FinishRollback, Finish, Rollback, Restore, Edit, vars, agentVars
<1>3. CASE Crash \/ Interrupt
  BY <1>0, <1>3 DEF Crash, Interrupt, Leave, Points
<1>4. ASSUME NEW b \in Agents, RequestEffect(b) \/ Write(b) \/ AgentStep(b)
      PROVE  /\ pc'[a] = "effect" => (pc[a] = "effect" /\ job'[a] = job[a]) \/ Prepare(a)
             /\ pc[a] = "effect" /\ pc'[a] # "effect" =>
                  Record(a) \/ RecordFails(a) \/ (Interrupt /\ a = Root) \/ Crash
             /\ pc'[a] = "locked" => (pc[a] = "locked" /\ cid'[a] = cid[a]) \/ Acquire(a)
  <2>1. CASE a = b
    BY <1>0, <1>4, <2>1 DEF RequestEffect, Write, AgentStep, Acquire, CreateFails, Prepare, Refuse,
       Record, RecordFails, Leave, agentVars, Points
  <2>2. CASE a # b
    BY <1>0, <1>4, <2>2 DEF RequestEffect, Write, AgentStep, Acquire, CreateFails, Prepare, Refuse,
       Record, RecordFails, Leave, agentVars, Points
  <2> QED BY <2>1, <2>2
<1> QED BY <1>2, <1>3, <1>4 DEF Next

LEMMA LockTakenStep == ASSUME ShapeInv, LockTaken, [Next]_vars PROVE LockTaken'
<1>0. pc \in [Agents -> Points] /\ Root \in Agents
  BY DEF ShapeInv, AgentsOK, Agents
<1>1. CASE UNCHANGED <<pc, holder>>
  BY <1>1 DEF LockTaken, InEffect
<1>2. CASE \/ BeginTurn \/ EndTurn \/ ApprovePlan \/ Spawn \/ ChangeMode \/ Accept \/ FinishAccept
           \/ AcceptFails \/ RestoreFails \/ FinishRollback
           \/ \E x \in Children \union Tasks : Finish(x)
           \/ \E allowPartial \in BOOLEAN : Rollback(allowPartial)
           \/ \E p \in Paths : Restore(p) \/ Edit(p)
           \/ UNCHANGED vars
  BY <1>1, <1>2 DEF BeginTurn, EndTurn, ApprovePlan, Spawn, ChangeMode, Accept, FinishAccept,
     AcceptFails, RestoreFails, FinishRollback, Finish, Rollback, Restore, Edit, vars, agentVars
<1>3. CASE Crash \/ Interrupt
  BY <1>0, <1>3 DEF Crash, Interrupt, Leave, Points, LockTaken, InEffect
<1>4. ASSUME NEW a \in Agents, RequestEffect(a) \/ Write(a) \/ CreateFails(a) \/ Prepare(a)
      PROVE  LockTaken'
  BY <1>0, <1>4 DEF RequestEffect, Write, CreateFails, Prepare, Leave, agentVars, LockTaken, InEffect
<1>5. ASSUME NEW a \in Agents, Acquire(a) \/ Refuse(a) \/ Record(a) \/ RecordFails(a)
      PROVE  LockTaken'
  BY <1>0, <1>5, ActorsAssumption
  DEF Acquire, Refuse, Record, RecordFails, Leave, LockTaken, InEffect, Agents
<1> QED BY <1>2, <1>3, <1>4, <1>5 DEF Next, AgentStep

LEMMA AgentPlacesStep == ASSUME ShapeInv, AgentPlaces, [Next]_vars PROVE AgentPlaces'
<1>0. pc \in [Agents -> Points] /\ Root \in Agents /\ Root \notin Children /\ Tasks \intersect Children = {}
  BY ActorsAssumption DEF ShapeInv, AgentsOK, Agents
<1>1. CASE UNCHANGED <<pc, turn, running>>
  BY <1>1 DEF AgentPlaces
<1>2. CASE \/ ApprovePlan \/ ChangeMode \/ Accept \/ FinishAccept
           \/ AcceptFails \/ RestoreFails \/ FinishRollback
           \/ \E allowPartial \in BOOLEAN : Rollback(allowPartial)
           \/ \E p \in Paths : Restore(p) \/ Edit(p)
           \/ UNCHANGED vars
  BY <1>1, <1>2 DEF ApprovePlan, ChangeMode, Accept, FinishAccept,
     AcceptFails, RestoreFails, FinishRollback, Rollback, Restore, Edit, vars, agentVars
<1>3. CASE Crash \/ Interrupt
  BY <1>0, <1>3 DEF Crash, Interrupt, Leave, AgentPlaces
<1>4. CASE BeginTurn \/ EndTurn \/ Spawn
  BY <1>0, <1>4 DEF BeginTurn, EndTurn, Spawn, agentVars, AgentPlaces
<1>5. ASSUME NEW x \in Children \union Tasks, Finish(x) PROVE AgentPlaces'
  BY <1>0, <1>5 DEF Finish, agentVars, AgentPlaces, Agents
<1>6. ASSUME NEW a \in Agents, RequestEffect(a) \/ Write(a) \/ AgentStep(a)
      PROVE  AgentPlaces'
  BY <1>0, <1>6 DEF RequestEffect, Write, AgentStep, Acquire, CreateFails, Prepare, Refuse,
     Record, RecordFails, Leave, agentVars, AgentPlaces
<1> QED BY <1>2, <1>3, <1>4, <1>5, <1>6 DEF Next

(* While a rollback restores, only it and edits from outside touch anything. *)
LEMMA RestoringSteps ==
  ASSUME ShapeInv, AgentPlaces, UserPlaces, [Next]_vars, user' = "restoring"
  PROVE  /\ SameFiles /\ workflow' = workflow
         /\ running' = {} /\ turn' = FALSE
         /\ \/ user = "ready" /\ \E allowPartial \in BOOLEAN : Rollback(allowPartial)
            \/ user = "restoring" /\ \E p \in Paths : Restore(p) \/ Edit(p)
            \/ user = "restoring" /\ UNCHANGED vars
<1>1. CASE \E allowPartial \in BOOLEAN : Rollback(allowPartial)
  BY <1>1 DEF Rollback, Quiet, stageVars, SameFiles, ShapeInv
<1>2. CASE user = "restoring"
  <2>1. running = {} /\ ~turn /\ \A a \in Agents : pc[a] = "idle"
    BY <1>2 DEF AgentPlaces, UserPlaces
  <2>2. ~BeginTurn /\ ~EndTurn /\ ~ApprovePlan /\ ~Interrupt /\ ~ChangeMode /\ ~Accept /\ ~FinishAccept /\ ~AcceptFails
    BY <1>2, <2>1 DEF BeginTurn, EndTurn, ApprovePlan, Interrupt, ChangeMode, Accept, FinishAccept, AcceptFails, Quiet
  <2>3. ~Crash /\ ~RestoreFails /\ ~FinishRollback /\ ~ \E allowPartial \in BOOLEAN : Rollback(allowPartial)
    BY <1>2 DEF Crash, RestoreFails, FinishRollback, Rollback, Quiet
  <2>4. ~Spawn /\ ~ \E a \in Agents : RequestEffect(a) \/ Write(a) \/ AgentStep(a)
    BY <2>1 DEF Spawn, RequestEffect, Write, AgentStep, Acquire, CreateFails, Prepare, Refuse, Record, RecordFails, Agents
  <2>5. ~ \E x \in Children \union Tasks : Finish(x)
    BY <2>1 DEF Finish
  <2>6. (\E p \in Paths : Restore(p) \/ Edit(p)) \/ UNCHANGED vars
    BY <2>2, <2>3, <2>4, <2>5 DEF Next
  <2>7. SameFiles /\ workflow' = workflow /\ running' = running /\ turn' = turn
    BY <2>6 DEF Restore, Edit, vars, stageVars, SameFiles
  <2>8. turn = FALSE
    BY <2>1 DEF ShapeInv
  <2> QED BY <1>2, <2>1, <2>6, <2>7, <2>8
<1>3. CASE user # "restoring" /\ ~ \E allowPartial \in BOOLEAN : Rollback(allowPartial)
  BY <1>3 DEF Next, vars, BeginTurn, EndTurn, ApprovePlan, Spawn, Interrupt, Crash, RequestEffect,
         Write, AgentStep, Acquire, CreateFails, Prepare, Refuse, Record, RecordFails, Finish, ChangeMode, Accept,
         FinishAccept, AcceptFails, RestoreFails, FinishRollback, Restore, Edit, userVars
<1> QED BY <1>1, <1>2, <1>3

(* Only a new stage gives a manifest another coverage, but for its deletion. *)
LEMMA CoverageKept ==
  ASSUME ShapeInv, [Next]_vars, ~NewStage
  PROVE  /\ UNCHANGED <<created, pre>>
         /\ \A s \in Stages : manifest'[s].coverage \in {manifest[s].coverage, "missing"}
         /\ \A s \in Stages : manifest'[s].coverage = "missing" /\ manifest[s].coverage # "missing" =>
              Accept /\ s = workflow.stage
<1>0. manifest \in [Stages -> ManifestType]
  BY DEF ShapeInv, FilesOK
<1>1. StageMove
  BY StageMoves
<1>2. CASE SameFiles
  BY <1>2 DEF SameFiles
<1>3. ASSUME NEW a \in Agents, NEW paths \in Jobs, Prepare(a), Accepts(manifest[cid[a]], paths),
             manifest' = [manifest EXCEPT ![cid[a]] = Prepared(manifest[cid[a]], paths)]
      PROVE  \A s \in Stages : manifest'[s].coverage = manifest[s].coverage
  <2>1. cid[a] \in Stages
    BY <1>3, CurrentFacts DEF ShapeInv, AgentsOK, Prepare, Stages, NoStage
  <2>2. Prepared(manifest[cid[a]], paths).coverage = manifest[cid[a]].coverage
    BY <1>0, <1>3, <2>1, PreparedFacts DEF ShapeInv, FilesOK
  <2> QED BY <1>0, <1>3, <2>1, <2>2
<1>4. ASSUME Live, manifest' = [manifest EXCEPT ![workflow.stage] = Recorded(Current)]
      PROVE  \A s \in Stages : manifest'[s].coverage = manifest[s].coverage
  <2>1. workflow.stage \in Stages /\ Recorded(Current).coverage = manifest[workflow.stage].coverage
    BY <1>4, CurrentFacts, RecordedFacts DEF Live, Current, ShapeInv, FilesOK
  <2> QED BY <1>0, <1>4, <2>1
<1>5. ASSUME Accept, Live, manifest' = [manifest EXCEPT ![workflow.stage] = Missing]
      PROVE  \A s \in Stages : manifest'[s].coverage = IF s = workflow.stage THEN "missing" ELSE manifest[s].coverage
  BY <1>0, <1>5, MissingType DEF ManifestIs
<1>6. ASSUME FinishRollback,
             manifest' = [manifest EXCEPT ![workflow.stage].observed = Current.baseline]
      PROVE  \A s \in Stages : manifest'[s].coverage = manifest[s].coverage
  BY <1>0, <1>6 DEF ManifestType
<1>7. UNCHANGED <<created, pre>>
  BY <1>1 DEF StageMove, SameFiles
<1> QED BY <1>1, <1>2, <1>3, <1>4, <1>5, <1>6, <1>7 DEF StageMove

(* A stage that is live after a step was live before, or is new, or was resumed. *)
LEMMA SameStage ==
  ASSUME ShapeInv, [Next]_vars, ~NewStage, Live'
  PROVE  /\ Crash \/ workflow'.stage = workflow.stage
         /\ workflow'.stage = workflow.stage =>
              Live /\ Current'.coverage = Current.coverage /\ workflow.stage \in Stages
<1>1. StageMove
  BY StageMoves
<1>2. Crash \/ workflow'.stage = workflow.stage
  BY <1>1 DEF StageMove, Live, Closed, NoStage
<1>3. ASSUME workflow'.stage = workflow.stage
      PROVE  Live /\ Current'.coverage = Current.coverage /\ workflow.stage \in Stages
  <2>1. workflow.stage \in Stages
    BY <1>3, CurrentFacts DEF Live
  <2>2. manifest'[workflow.stage].coverage \in {manifest[workflow.stage].coverage, "missing"}
    BY <2>1, CoverageKept
  <2> QED BY <1>3, <2>1, <2>2 DEF Live, Current
<1> QED BY <1>2, <1>3

LEMMA UserPlacesStep == ASSUME ShapeInv, AgentPlaces, UserPlaces, [Next]_vars PROVE UserPlaces'
<1>1. user' # "ready" => ~turn'
  <2>1. CASE user' = user
    BY <2>1 DEF UserPlaces, Next, vars, BeginTurn, EndTurn, ApprovePlan, Spawn, Interrupt, Crash, RequestEffect,
         Write, AgentStep, Acquire, CreateFails, Prepare, Refuse, Record, RecordFails, Finish, ChangeMode, Accept,
         FinishAccept, AcceptFails, Rollback, RestoreFails, FinishRollback, Restore, Edit, Quiet
  <2>2. CASE user' # user
    BY <2>2 DEF Next, vars, BeginTurn, EndTurn, ApprovePlan, Spawn, Interrupt, Crash, RequestEffect,
         Write, AgentStep, Acquire, CreateFails, Prepare, Refuse, Record, RecordFails, Finish, ChangeMode, Accept,
         FinishAccept, AcceptFails, Rollback, RestoreFails, FinishRollback, Restore, Edit, Quiet, userVars
  <2> QED BY <2>1, <2>2
<1>2. ASSUME user' = "accepting"
      PROVE  workflow'.stage # NoStage /\ Current'.coverage = "missing"
  <2>1. CASE Accept
    <3>1. workflow.stage \in Stages /\ workflow' = workflow /\ workflow.stage # NoStage
          /\ manifest' = [manifest EXCEPT ![workflow.stage] = Missing]
      BY <2>1, CurrentFacts DEF Accept, Live
    <3> QED BY <3>1, MissingType DEF Current, ManifestIs, ShapeInv, FilesOK
  <2>2. CASE ~Accept
    <3>1. user = "accepting"
      BY <1>2, <2>2 DEF Next, vars, BeginTurn, EndTurn, ApprovePlan, Spawn, Interrupt, Crash, RequestEffect,
         Write, AgentStep, Acquire, CreateFails, Prepare, Refuse, Record, RecordFails, Finish, ChangeMode,
         FinishAccept, AcceptFails, Rollback, RestoreFails, FinishRollback, Restore, Edit, userVars
    <3>2. workflow.stage # NoStage /\ Current.coverage = "missing" /\ ~turn /\ workflow.stage \in Stages
      BY <3>1, CurrentFacts DEF UserPlaces
    <3>3. ~NewStage
      BY <3>1, <3>2 DEF NewStage, ApprovePlan, Acquire, Create, stageVars
    <3>4. workflow' = workflow
      BY <1>2, <3>1, <3>3, StageMoves DEF StageMove, ChangeMode, Quiet, FinishAccept, Crash, FinishRollback
    <3>5. manifest'[workflow.stage].coverage = "missing"
      BY <3>2, <3>3, CoverageKept DEF Current
    <3> QED BY <3>2, <3>4, <3>5 DEF Current
  <2> QED BY <2>1, <2>2
<1>3. ASSUME user' = "restoring"
      PROVE  /\ running' = {} /\ workflow'.stage # NoStage /\ Current'.coverage \in {"full", "scoped"}
             /\ todo' \subseteq Covered(Current)'
  <2>1. SameFiles /\ workflow' = workflow /\ running' = {}
    BY <1>3, RestoringSteps
  <2>2. Current' = Current /\ Covered(Current)' = Covered(Current)
    BY <2>1 DEF SameFiles, Current, Covered
  <2>3. /\ workflow.stage # NoStage /\ Current.coverage \in {"full", "scoped"}
        /\ todo' \subseteq Covered(Current)
    <3>1. CASE \E allowPartial \in BOOLEAN : Rollback(allowPartial)
      BY <3>1 DEF Rollback, Live
    <3>2. CASE user = "restoring" /\ \E p \in Paths : Restore(p) \/ Edit(p)
      BY <3>2 DEF UserPlaces, Restore, Edit, userVars
    <3>3. CASE user = "restoring" /\ UNCHANGED vars
      BY <3>3 DEF UserPlaces, vars
    <3> QED BY <1>3, <3>1, <3>2, <3>3, RestoringSteps
  <2> QED BY <2>1, <2>2, <2>3
<1> QED BY <1>1, <1>2, <1>3 DEF UserPlaces

LEMMA EditsOutsideStep == ASSUME ShapeInv, EditsOutside, [Next]_vars PROVE EditsOutside'
<1>0. edited \in [Paths -> {"no", "alone", "raced"}]
  BY DEF ShapeInv, HistoryOK
<1> QED BY <1>0, EditsMove DEF EditsOutside

LEMMA PlaceInit == Init => PlaceInv
<1> SUFFICES ASSUME Init PROVE PlaceInv
  OBVIOUS
<1>1. LockTaken /\ AgentPlaces /\ UserPlaces /\ EditsOutside
  BY DEF Init, LockTaken, InEffect, AgentPlaces, UserPlaces, EditsOutside
<1> QED BY <1>1, ShapeInit DEF PlaceInv

LEMMA PlaceStep == PlaceInv /\ [Next]_vars => PlaceInv'
<1> SUFFICES ASSUME PlaceInv, [Next]_vars PROVE PlaceInv'
  OBVIOUS
<1>1. ShapeInv' /\ LockTaken' /\ AgentPlaces' /\ UserPlaces' /\ EditsOutside'
  BY ShapeStep, LockTakenStep, AgentPlacesStep, UserPlacesStep, EditsOutsideStep DEF PlaceInv
<1> QED BY <1>1 DEF PlaceInv

-----------------------------------------------------------------------------
(* What each step does to the files.                                         *)

ElseSame(p) == \A q \in Paths \ {p} : disk'[q] = disk[q] /\ edited'[q] = edited[q]

WriteTo(a, p) ==
  /\ Write(a) /\ ElseSame(p) /\ edited'[p] = "no" /\ outside' = outside
  /\ job[a] = Unknown \/ p \in job[a]

RestoreOf(p) ==
  /\ Restore(p) /\ ElseSame(p) /\ edited'[p] = "no" /\ outside' = outside
  /\ disk'[p] = Current.baseline[p]

EditOf(p) ==
  /\ Edit(p) /\ ElseSame(p) /\ outside' = outside \union {p}
  /\ edited'[p] \in {"alone", "raced"}
  /\ edited'[p] = "alone" => holder = Free /\ user # "restoring" /\ ~Recalled(p, disk'[p])

StopOf(p) ==
  /\ user = "restoring" /\ user' = "ready" /\ p \in todo
  /\ ElseSame(p) /\ edited'[p] = "no" /\ outside' = outside

DiskMove ==
  \/ UNCHANGED <<disk, edited, outside>>
  \/ \E p \in Paths : StopOf(p)
  \/ NewStage /\ disk' = disk
  \/ \E a \in Agents, p \in Paths : WriteTo(a, p)
  \/ \E p \in Paths : RestoreOf(p)
  \/ \E p \in Paths : EditOf(p)

LEMMA EditMove == ASSUME ShapeInv, NEW p \in Paths, Edit(p) PROVE EditOf(p)
<1>0. disk \in [Paths -> Contents \union Edited] /\ edited \in [Paths -> {"no", "alone", "raced"}]
  BY DEF ShapeInv, FilesOK, HistoryOK, Files
<1>1. PICK c \in Edited \ {disk[p]} :
        /\ disk' = [disk EXCEPT ![p] = c]
        /\ edited' = [edited EXCEPT ![p] = IF holder = Free /\ user # "restoring" /\ ~Recalled(p, c)
                                            THEN "alone" ELSE "raced"]
  BY DEF Edit
<1>2. disk'[p] = c /\ ElseSame(p)
  BY <1>0, <1>1 DEF ElseSame
<1>3. /\ edited'[p] \in {"alone", "raced"}
      /\ edited'[p] = "alone" => holder = Free /\ user # "restoring" /\ ~Recalled(p, c)
  BY <1>0, <1>1
<1>4. outside' = outside \union {p}
  BY DEF Edit
<1> QED BY <1>2, <1>3, <1>4 DEF EditOf

LEMMA RestoreMove == ASSUME ShapeInv, NEW p \in Paths, Restore(p) PROVE RestoreOf(p)
<1>0. disk \in [Paths -> Contents \union Edited] /\ edited \in [Paths -> {"no", "alone", "raced"}]
  BY DEF ShapeInv, FilesOK, HistoryOK, Files
<1> QED BY <1>0 DEF Restore, RestoreOf, ElseSame, Current

LEMMA WriteMove == ASSUME ShapeInv, NEW a \in Agents, Write(a) PROVE \E p \in Paths : WriteTo(a, p)
<1>0. disk \in [Paths -> Contents \union Edited] /\ edited \in [Paths -> {"no", "alone", "raced"}]
  BY DEF ShapeInv, FilesOK, HistoryOK, Files
<1>1. job[a] \subseteq Paths
  BY DEF ShapeInv, AgentsOK, Jobs
<1>2. PICK p \in (IF job[a] = Unknown THEN Paths ELSE job[a]), c \in Contents :
        disk' = [disk EXCEPT ![p] = c] /\ edited' = [edited EXCEPT ![p] = "no"]
  BY DEF Write
<1>3. p \in Paths /\ ElseSame(p) /\ edited'[p] = "no" /\ (job[a] = Unknown \/ p \in job[a])
  BY <1>0, <1>1, <1>2 DEF ElseSame
<1>4. outside' = outside
  BY DEF Write
<1> QED BY <1>3, <1>4 DEF WriteTo

LEMMA StopMove ==
  ASSUME ShapeInv, RestoreFails \/ Crash
  PROVE  UNCHANGED <<disk, edited, outside>> \/ \E p \in Paths : StopOf(p)
<1>0. /\ disk \in [Paths -> Contents \union Edited] /\ edited \in [Paths -> {"no", "alone", "raced"}]
      /\ todo \subseteq Paths /\ (todo # {} => user = "restoring")
  BY DEF ShapeInv, FilesOK, HistoryOK, UserOK, Files
<1>1. StopRestoring /\ user' = "ready" /\ outside' = outside
  BY DEF RestoreFails, Crash
<1> QED BY <1>0, <1>1 DEF StopRestoring, StopOf, ElseSame

LEMMA DiskMoves == ASSUME ShapeInv, [Next]_vars PROVE DiskMove
<1>1. CASE (\E p \in Paths : Edit(p) \/ Restore(p)) \/ (\E a \in Agents : Write(a))
  BY <1>1, EditMove, RestoreMove, WriteMove DEF DiskMove
<1>2. CASE NewStage
  BY <1>2 DEF NewStage, ApprovePlan, Acquire, DiskMove
<1>4. CASE RestoreFails \/ Crash
  BY <1>4, StopMove DEF DiskMove
<1>3. CASE /\ ~NewStage /\ ~ (\E p \in Paths : Edit(p) \/ Restore(p)) /\ ~ (\E a \in Agents : Write(a))
           /\ ~RestoreFails /\ ~Crash
  <2>1. UNCHANGED <<edited, outside>>
    BY <1>3, EditsMove
  <2>2. disk' = disk
    BY <1>3 DEF Next, vars, BeginTurn, EndTurn, ApprovePlan, Spawn, Interrupt, RequestEffect,
         AgentStep, Acquire, CreateFails, Prepare, Refuse, Record, RecordFails, Finish, ChangeMode, Accept,
         FinishAccept, AcceptFails, Rollback, FinishRollback
  <2> QED BY <2>1, <2>2 DEF DiskMove
<1> QED BY <1>1, <1>2, <1>3, <1>4

-----------------------------------------------------------------------------
(* The Agents never stand in their own way.                                  *)

NobodyWrites == \A a \in Agents : pc[a] # "effect"

(* What is restored has its bytes of the start of the stage, but for later edits. *)
RestoredSoFar ==
  user = "restoring" =>
    \A p \in Covered(Current) \ todo : disk[p] = Current.baseline[p] \/ edited[p] # "no"

(* What a stage recorded last is what the files hold, but for edits, whenever no effect *)
(* and no rollback is under way.                                                        *)
RecordedIsNow ==
  Live /\ Current.coverage # "none" /\ NobodyWrites /\ user = "ready" /\ mishaps \subseteq {"displaced"}
    => \A p \in Conflicts(Current) : edited[p] # "no"

ConflictInv == PlaceInv /\ RestoredSoFar /\ RecordedIsNow

LEMMA RestoredStep == ASSUME PlaceInv, RestoredSoFar, [Next]_vars PROVE RestoredSoFar'
<1> SUFFICES ASSUME user' = "restoring"
             PROVE  \A p \in Covered(Current)' \ todo' : disk'[p] = Current'.baseline[p] \/ edited'[p] # "no"
  BY DEF RestoredSoFar
<1> USE DEF PlaceInv
<1>1. /\ SameFiles /\ workflow' = workflow
      /\ \/ user = "ready" /\ \E allowPartial \in BOOLEAN : Rollback(allowPartial)
         \/ user = "restoring" /\ \E p \in Paths : Restore(p) \/ Edit(p)
         \/ user = "restoring" /\ UNCHANGED vars
  BY RestoringSteps
<1>2. Current' = Current /\ Covered(Current)' = Covered(Current)
  BY <1>1 DEF SameFiles, Current, Covered
<1>3. CASE \E allowPartial \in BOOLEAN : Rollback(allowPartial)
  <2>1. /\ disk' = disk
        /\ todo' = {p \in Covered(Current) : {Current.observed[p], Current.baseline[p]} # {Absent}}
        /\ \A p \in Covered(Current) : Current.observed[p] = disk[p]
    BY <1>3 DEF Rollback, Conflicts
  <2>2. ASSUME NEW p \in Covered(Current) \ todo' PROVE disk'[p] = Current.baseline[p]
    <3>1. Current.observed[p] = Absent /\ Current.baseline[p] = Absent
      BY <2>1, <2>2
    <3> QED BY <2>1, <3>1
  <2> QED BY <1>2, <2>2
<1>4. CASE user = "restoring" /\ UNCHANGED vars
  BY <1>2, <1>4 DEF RestoredSoFar, vars
<1>5. ASSUME user = "restoring", NEW p \in Paths, Restore(p) \/ Edit(p)
      PROVE  \A q \in Covered(Current) \ todo' : disk'[q] = Current.baseline[q] \/ edited'[q] # "no"
  <2>1. Covered(Current) \subseteq Paths
    BY <1>5, CurrentFacts, ManifestFields DEF UserPlaces, Covered
  <2>2. \A q \in Covered(Current) \ todo : disk[q] = Current.baseline[q] \/ edited[q] # "no"
    BY <1>5 DEF RestoredSoFar
  <2>3. CASE Edit(p)
    <3>1. todo' = todo /\ EditOf(p)
      BY <2>3, EditMove DEF Edit, userVars
    <3> QED BY <2>1, <2>2, <3>1 DEF EditOf, ElseSame
  <2>4. CASE Restore(p)
    <3>1. RestoreOf(p)
      BY <2>4, RestoreMove
    <3>2. todo' = todo \ {p}
      BY <2>4 DEF Restore
    <3> QED BY <2>1, <2>2, <3>1, <3>2 DEF RestoreOf, ElseSame
  <2> QED BY <1>5, <2>3, <2>4
<1> QED BY <1>1, <1>2, <1>3, <1>4, <1>5

LEMMA RecordedStep == ASSUME ConflictInv, [Next]_vars PROVE RecordedIsNow'
<1> SUFFICES ASSUME Live', Current'.coverage # "none", NobodyWrites', user' = "ready",
                    mishaps' \subseteq {"displaced"}
             PROVE  \A p \in Conflicts(Current)' : edited'[p] # "no"
  BY DEF RecordedIsNow
<1> USE DEF ConflictInv, PlaceInv
<1>0. /\ ~Crash /\ ~RestoreFails /\ mishaps \subseteq {"displaced"}
      /\ Interrupt => pc[Root] # "effect"
      /\ \A a \in Agents : ~RecordFails(a)
  <2>1. mishaps \subseteq mishaps'
    BY EditsMove
  <2>2. "crash" \notin mishaps' /\ "halfway" \notin mishaps' /\ "untracked" \notin mishaps'
    OBVIOUS
  <2> QED BY <2>1, <2>2 DEF Crash, Interrupt, RestoreFails, RecordFails
<1>1. CASE NewStage
  <2>1. PICK c \in CoverageOf(policy) : Create(c)
    BY <1>1 DEF NewStage
  <2> DEFINE files == IF c = "full" THEN disk ELSE Nothing
  <2>2. /\ ManifestIs(Current', c, files, files, {}, 0) /\ disk' = disk
    BY <1>1, <2>1, Creation DEF NewStage, ApprovePlan, Acquire, Current
  <2>3. CASE c = "full"
    BY <2>2, <2>3 DEF ManifestIs, Conflicts
  <2>4. CASE c # "full"
    BY <2>2, <2>4 DEF ManifestIs, Conflicts, Covered
  <2> QED BY <2>3, <2>4
<1>2. ASSUME ~NewStage
      PROVE  /\ workflow'.stage = workflow.stage /\ Live /\ Current'.coverage = Current.coverage
             /\ workflow.stage \in Stages /\ Current \in ManifestType /\ Covered(Current) \subseteq Paths
  <2>1. /\ workflow'.stage = workflow.stage /\ Live /\ Current'.coverage = Current.coverage
        /\ workflow.stage \in Stages
    BY <1>0, <1>2, SameStage
  <2>2. Current \in ManifestType
    BY <2>1, CurrentFacts DEF Live
  <2> QED BY <2>1, <2>2, ManifestFields DEF Covered
<1>3. ASSUME NEW a \in Agents, Record(a), ~NewStage
      PROVE  Conflicts(Current)' = {}
  <2>1. manifest' = [manifest EXCEPT ![workflow.stage] = Recorded(Current)] /\ disk' = disk
    BY <1>2, <1>3 DEF Record, Current
  <2>2. Current' = Recorded(Current)
    BY <1>2, <1>3, <2>1 DEF Current, ShapeInv, FilesOK
  <2>3. /\ Covered(Recorded(Current)) = Covered(Current)
        /\ \A p \in Covered(Current) : Recorded(Current).observed[p] = disk[p]
    BY <1>2, <1>3, RecordedFacts DEF ShapeInv, FilesOK
  <2>4. Conflicts(Current)' = {p \in Covered(Current)' : Current'.observed[p] # disk'[p]}
        /\ Covered(Current)' = Covered(Current')
    BY DEF Conflicts, Covered
  <2> QED BY <2>1, <2>2, <2>3, <2>4
<1>4. CASE FinishRollback
  <2>1. /\ user = "restoring" /\ todo = {} /\ UNCHANGED <<disk, edited>>
        /\ manifest' = [manifest EXCEPT ![workflow.stage].observed = Current.baseline]
    BY <1>4 DEF FinishRollback, Current, historyVars
  <2>2. ~NewStage
    BY <2>1, <1>4 DEF NewStage, ApprovePlan, Acquire, userVars, FinishRollback
  <2>3. /\ Current'.observed = Current.baseline /\ Covered(Current') = Covered(Current)
    BY <1>2, <2>1, <2>2 DEF Current, Covered, ManifestType, ShapeInv, FilesOK
  <2>4. Conflicts(Current)' = {p \in Covered(Current') : Current'.observed[p] # disk'[p]}
    BY DEF Conflicts, Covered
  <2>5. \A p \in Covered(Current) : disk[p] = Current.baseline[p] \/ edited[p] # "no"
    BY <2>1 DEF RestoredSoFar
  <2> QED BY <2>1, <2>3, <2>4, <2>5
<1>5. ASSUME ~NewStage, ~FinishRollback, ~ \E a \in Agents : Record(a)
      PROVE  \A p \in Conflicts(Current)' : edited'[p] # "no"
  <2>1. ~Accept /\ ~ \E a \in Agents : Prepare(a)
    BY DEF Accept, Prepare, NobodyWrites, ShapeInv, AgentsOK
  <2>2. SameFiles
    BY <1>5, <2>1, StageMoves DEF StageMove
  <2>3. Current' = Current /\ Covered(Current)' = Covered(Current)
    BY <1>2, <1>5, <2>2 DEF Current, Covered, SameFiles
  <2>4. user = "ready"
    <3>1. user # "accepting" /\ ~FinishAccept
      BY <1>2, <1>5 DEF UserPlaces, Live, FinishAccept
    <3>2. user' = user
      BY <1>0, <1>5, <2>1, <3>1 DEF Next, vars, BeginTurn, EndTurn, ApprovePlan, Spawn, Interrupt, RequestEffect,
         Write, AgentStep, Acquire, CreateFails, Prepare, Refuse, Record, RecordFails, Finish, ChangeMode,
         AcceptFails, Rollback, Restore, Edit, userVars
    <3> QED BY <3>2
  <2>5. NobodyWrites
    BY <1>0, <1>5, AgentMoves DEF NobodyWrites
  <2>6. \A p \in Covered(Current) : Current.observed[p] = disk[p] \/ edited[p] # "no"
    BY <1>0, <1>2, <1>5, <2>3, <2>4, <2>5 DEF RecordedIsNow, Conflicts
  <2>7. \/ UNCHANGED <<disk, edited>>
        \/ \E p \in Paths : EditOf(p)
    <3>1. ~ \E p \in Paths : RestoreOf(p) \/ StopOf(p)
      BY <2>4 DEF RestoreOf, Restore, StopOf
    <3>2. ASSUME NEW a \in Agents, NEW p \in Paths PROVE ~WriteTo(a, p)
      BY <2>5 DEF WriteTo, Write, NobodyWrites
    <3> QED BY <1>5, <3>1, <3>2, DiskMoves DEF DiskMove
  <2>8. \A p \in Covered(Current) : Current.observed[p] = disk'[p] \/ edited'[p] # "no"
    BY <1>2, <1>5, <2>6, <2>7 DEF EditOf, ElseSame
  <2>9. Conflicts(Current)' = {p \in Covered(Current)' : Current'.observed[p] # disk'[p]}
    BY DEF Conflicts
  <2> QED BY <2>3, <2>8, <2>9
<1> QED BY <1>1, <1>3, <1>4, <1>5

LEMMA ConflictInit == Init => ConflictInv
<1> SUFFICES ASSUME Init PROVE ConflictInv
  OBVIOUS
<1>1. RestoredSoFar /\ RecordedIsNow
  BY DEF Init, RestoredSoFar, RecordedIsNow, Live
<1> QED BY <1>1, PlaceInit DEF ConflictInv

LEMMA ConflictStep == ConflictInv /\ [Next]_vars => ConflictInv'
<1> SUFFICES ASSUME ConflictInv, [Next]_vars PROVE ConflictInv'
  OBVIOUS
<1>1. PlaceInv' /\ RestoredSoFar' /\ RecordedIsNow'
  BY PlaceStep, RestoredStep, RecordedStep DEF ConflictInv
<1> QED BY <1>1 DEF ConflictInv

(* OwnEffectsNeverConflict: outside any effect or rollback, and until a crash, a halt *)
(* halfway or a failed record_effect, what the files of the stage hold is what        *)
(* record_effect wrote down last, except where somebody else edited them:             *)
(* prepare_effect and rollback find no other conflict.                                *)
THEOREM EffectsNeverConflict == Spec => []OwnEffectsNeverConflict
<1>1. ConflictInv => OwnEffectsNeverConflict
  <2> SUFFICES ASSUME ConflictInv, Live, Current.coverage # "none", holder = Free, user = "ready",
                      mishaps \subseteq {"displaced"}
               PROVE  \A p \in Conflicts(Current) : edited[p] # "no"
    BY DEF OwnEffectsNeverConflict
  <2>1. NobodyWrites
    BY ActorsAssumption DEF ConflictInv, PlaceInv, LockTaken, InEffect, NobodyWrites, Agents
  <2> QED BY <2>1 DEF ConflictInv, RecordedIsNow
<1> QED BY ConflictInit, ConflictStep, <1>1, PTL DEF Spec

-----------------------------------------------------------------------------
(* A rollback of a full stage spares what the user wrote.                    *)

NoneAlone == \A p \in Paths : edited[p] # "alone"

(* What the user alone wrote differs from what any full stage recorded last, so that *)
(* the stage conflicts; an effect or a rollback under way, or about to pass its      *)
(* check, is where the user alone wrote nothing.                                     *)
AloneSeen ==
  \A s \in Stages : manifest[s].coverage = "full" =>
    \A p \in Paths : edited[p] = "alone" => manifest[s].observed[p] # disk[p]

AloneChecked ==
  /\ user = "restoring" /\ Current.coverage = "full" => NoneAlone
  /\ \A a \in Agents : pc[a] = "effect" /\ Live /\ Current.coverage = "full" => NoneAlone
  /\ \A a \in Agents : pc[a] = "locked" /\ Live /\ cid[a] # workflow.stage => NoneAlone

AloneInv == PlaceInv /\ AloneSeen /\ AloneChecked

(* Under the lock, or during a rollback, an edit is not the user's alone. *)
LEMMA NoneAloneStep ==
  ASSUME ShapeInv, [Next]_vars, NoneAlone, holder # Free \/ user = "restoring"
  PROVE  NoneAlone'
<1>1. CASE NewStage
  BY <1>1, Creation DEF NewStage, NoneAlone
<1>2. CASE UNCHANGED edited
  BY <1>2 DEF NoneAlone
<1>3. CASE \E a \in Agents, p \in Paths : WriteTo(a, p)
  BY <1>3 DEF WriteTo, ElseSame, NoneAlone
<1>4. CASE \E p \in Paths : RestoreOf(p)
  BY <1>4 DEF RestoreOf, ElseSame, NoneAlone
<1>5. CASE \E p \in Paths : EditOf(p)
  BY <1>5 DEF EditOf, ElseSame, NoneAlone
<1>6. CASE \E p \in Paths : StopOf(p)
  BY <1>6 DEF StopOf, ElseSame, NoneAlone
<1> QED BY <1>1, <1>2, <1>3, <1>4, <1>5, <1>6, DiskMoves DEF DiskMove

LEMMA NewStageNoneAlone == ASSUME ShapeInv, NewStage PROVE NoneAlone'
  BY Creation DEF NewStage, NoneAlone

(* A full stage that passed its check holds nothing that the user alone wrote. *)
LEMMA NoConflictNoneAlone ==
  ASSUME ShapeInv, AloneSeen, NEW s \in Stages, manifest[s].coverage = "full",
         Conflicts(manifest[s]) = {}
  PROVE  NoneAlone
  BY DEF AloneSeen, Conflicts, Covered, NoneAlone

LEMMA AloneSeenStep == ASSUME AloneInv, [Next]_vars PROVE AloneSeen'
<1> USE DEF AloneInv, PlaceInv
<1>1. CASE NoneAlone'
  BY <1>1 DEF AloneSeen, NoneAlone
<1>2. CASE NewStage
  BY <1>1, <1>2, NewStageNoneAlone
<1>3. ASSUME manifest' = manifest, ~NewStage
      PROVE  AloneSeen'
  <2>1. CASE UNCHANGED <<disk, edited>>
    BY <1>3, <2>1 DEF AloneSeen
  <2>2. CASE \E a \in Agents, p \in Paths : WriteTo(a, p)
    BY <1>3, <2>2 DEF AloneSeen, WriteTo, ElseSame
  <2>3. CASE \E p \in Paths : RestoreOf(p)
    BY <1>3, <2>3 DEF AloneSeen, RestoreOf, ElseSame
  <2>4. CASE \E p \in Paths : EditOf(p)
    BY <1>3, <2>4 DEF AloneSeen, EditOf, ElseSame, Recalled
  <2>5. CASE \E p \in Paths : StopOf(p)
    BY <1>3, <2>5 DEF AloneSeen, StopOf, ElseSame
  <2> QED BY <1>3, <2>1, <2>2, <2>3, <2>4, <2>5, DiskMoves DEF DiskMove
<1>4. ASSUME ~NewStage, UNCHANGED <<disk, edited>>,
             \A s \in Stages : manifest'[s].coverage = "full" => manifest'[s] = manifest[s]
      PROVE  AloneSeen'
  BY <1>4 DEF AloneSeen
<1>5. ASSUME NEW a \in Agents, NEW paths \in Jobs, Prepare(a), Accepts(manifest[cid[a]], paths),
             manifest' = [manifest EXCEPT ![cid[a]] = Prepared(manifest[cid[a]], paths)], ~NewStage
      PROVE  AloneSeen'
  <2>1. cid[a] \in Stages /\ manifest[cid[a]] \in ManifestType
    BY <1>5, CurrentFacts DEF ShapeInv, FilesOK, AgentsOK, Prepare, Stages, NoStage
  <2>2. Prepared(manifest[cid[a]], paths).coverage = "full" => Prepared(manifest[cid[a]], paths) = manifest[cid[a]]
    BY <1>5, <2>1, PreparedFacts DEF ShapeInv, FilesOK
  <2>3. \A s \in Stages : manifest'[s].coverage = "full" => manifest'[s] = manifest[s]
    BY <1>5, <2>1, <2>2 DEF ShapeInv, FilesOK
  <2>4. UNCHANGED <<disk, edited>>
    BY <1>5 DEF Prepare, historyVars
  <2> QED BY <1>4, <1>5, <2>3, <2>4
<1>6. ASSUME NEW a \in Agents, Record(a), Live, ~NewStage,
             manifest' = [manifest EXCEPT ![workflow.stage] = Recorded(Current)]
      PROVE  AloneSeen'
  <2>1. workflow.stage \in Stages /\ Current \in ManifestType /\ UNCHANGED <<disk, edited>> /\ pc[a] = "effect"
    BY <1>6, CurrentFacts DEF Live, Record, historyVars
  <2>2. CASE Current.coverage = "full"
    BY <1>1, <1>6, <2>1, <2>2 DEF AloneChecked, NoneAlone
  <2>3. CASE Current.coverage # "full"
    <3>1. Recorded(Current).coverage # "full"
      BY <2>1, <2>3, RecordedFacts DEF ShapeInv, FilesOK
    <3>2. \A s \in Stages : manifest'[s].coverage = "full" => manifest'[s] = manifest[s]
      BY <1>6, <2>1, <3>1 DEF ShapeInv, FilesOK
    <3> QED BY <1>4, <1>6, <2>1, <3>2
  <2> QED BY <2>2, <2>3
<1>7. ASSUME Accept, Live, manifest' = [manifest EXCEPT ![workflow.stage] = Missing], ~NewStage
      PROVE  AloneSeen'
  <2>1. \A s \in Stages : manifest'[s].coverage = "full" => manifest'[s] = manifest[s]
    BY <1>7, MissingType DEF ManifestIs, ShapeInv, FilesOK
  <2> QED BY <1>4, <1>7, <2>1 DEF Accept, historyVars
<1>8. ASSUME FinishRollback, manifest' = [manifest EXCEPT ![workflow.stage].observed = Current.baseline], ~NewStage
      PROVE  AloneSeen'
  <2>1. user = "restoring" /\ UNCHANGED <<disk, edited>>
    BY <1>8 DEF FinishRollback, historyVars
  <2>2. CASE Current.coverage = "full"
    BY <1>1, <2>1, <2>2 DEF AloneChecked, NoneAlone
  <2>3. CASE Current.coverage # "full"
    <3>1. \A s \in Stages : manifest'[s].coverage = "full" => manifest'[s] = manifest[s]
      BY <1>8, <2>3 DEF ShapeInv, FilesOK, Current, ManifestType
    <3> QED BY <1>4, <1>8, <2>1, <3>1
  <2> QED BY <2>2, <2>3
<1> QED BY <1>2, <1>3, <1>5, <1>6, <1>7, <1>8, StageMoves DEF StageMove, SameFiles

LEMMA AloneCheckedStep == ASSUME AloneInv, [Next]_vars PROVE AloneChecked'
<1> USE DEF AloneInv, PlaceInv
<1>0. CASE NewStage
  BY <1>0, NewStageNoneAlone DEF AloneChecked
<1>1. ASSUME ~NewStage, Live', pc' # [a \in Agents |-> "idle"]
      PROVE  /\ workflow'.stage = workflow.stage /\ Live /\ Current'.coverage = Current.coverage
             /\ workflow.stage \in Stages
  BY <1>1, SameStage DEF Crash
<1>2. ASSUME NEW a \in Agents, InEffect(a) PROVE holder # Free
  BY <1>2, ActorsAssumption DEF LockTaken, Agents
<1>3. ASSUME user' = "restoring", Current'.coverage = "full" PROVE NoneAlone'
  <2>1. /\ SameFiles /\ workflow' = workflow
        /\ \/ user = "ready" /\ \E allowPartial \in BOOLEAN : Rollback(allowPartial)
           \/ user = "restoring"
    BY <1>3, RestoringSteps
  <2>2. Current' = Current
    BY <2>1 DEF SameFiles, Current
  <2>3. CASE \E allowPartial \in BOOLEAN : Rollback(allowPartial)
    <3>1. Live /\ Conflicts(Current) = {} /\ edited' = edited
      BY <2>3 DEF Rollback, historyVars
    <3>2. NoneAlone
      BY <1>3, <2>2, <3>1, CurrentFacts, NoConflictNoneAlone DEF Live, Current
    <3> QED BY <3>1, <3>2 DEF NoneAlone
  <2>4. CASE user = "restoring"
    BY <1>3, <2>2, <2>4, NoneAloneStep DEF AloneChecked
  <2> QED BY <2>1, <2>3, <2>4
<1>4. ASSUME ~NewStage, NEW a \in Agents, pc'[a] = "effect", Live', Current'.coverage = "full"
      PROVE  NoneAlone'
  <2>1. /\ workflow'.stage = workflow.stage /\ Live /\ Current.coverage = "full" /\ workflow.stage \in Stages
    BY <1>1, <1>4
  <2>2. CASE pc[a] = "effect"
    BY <1>2, <1>4, <2>1, <2>2, NoneAloneStep DEF AloneChecked, InEffect
  <2>3. CASE Prepare(a)
    <3>1. pc[a] = "locked"
      BY <2>3 DEF Prepare
    <3>2. NoneAlone
      <4>1. CASE cid[a] # workflow.stage
        BY <2>1, <3>1, <4>1 DEF AloneChecked
      <4>2. CASE cid[a] = workflow.stage
        <5>1. Conflicts(Current) = {}
          BY <2>1, <2>3, <4>2 DEF Prepare, Accepts, Current
        <5> QED BY <2>1, <5>1, NoConflictNoneAlone DEF Current
      <4> QED BY <4>1, <4>2
    <3> QED BY <1>2, <3>1, <3>2, NoneAloneStep DEF InEffect
  <2> QED BY <1>4, <2>2, <2>3, AgentMoves
<1>5. ASSUME ~NewStage, NEW a \in Agents, pc'[a] = "locked", Live', cid'[a] # workflow'.stage
      PROVE  NoneAlone'
  <2>1. workflow'.stage = workflow.stage /\ Live /\ workflow.stage \in Stages
    BY <1>1, <1>5
  <2>2. CASE pc[a] = "locked" /\ cid'[a] = cid[a]
    BY <1>2, <1>5, <2>1, <2>2, NoneAloneStep DEF AloneChecked, InEffect
  <2>3. CASE Acquire(a)
    <3>1. cid' = [cid EXCEPT ![a] = workflow.stage]
      BY <2>1, <2>3 DEF Acquire, Live
    <3>2. cid'[a] = workflow.stage
      BY <3>1 DEF ShapeInv, AgentsOK
    <3> QED BY <1>5, <2>1, <3>2
  <2> QED BY <1>5, <2>2, <2>3, AgentMoves
<1> QED BY <1>0, <1>3, <1>4, <1>5 DEF AloneChecked

LEMMA AloneInit == Init => AloneInv
<1> SUFFICES ASSUME Init PROVE AloneInv
  OBVIOUS
<1>1. AloneSeen /\ AloneChecked
  BY DEF Init, AloneSeen, AloneChecked, Live, NoneAlone
<1> QED BY <1>1, PlaceInit DEF AloneInv

LEMMA AloneStep == AloneInv /\ [Next]_vars => AloneInv'
<1> SUFFICES ASSUME AloneInv, [Next]_vars PROVE AloneInv'
  OBVIOUS
<1>1. PlaceInv' /\ AloneSeen' /\ AloneChecked'
  BY PlaceStep, AloneSeenStep, AloneCheckedStep DEF AloneInv
<1> QED BY <1>1 DEF AloneInv

(* FullRollbackSparesUserEdits: a rollback of a stage with full coverage never *)
(* overwrites bytes that the user alone put into a file and no stage knew.     *)
THEOREM RollbackKeepsUserEdits == Spec => FullRollbackSparesUserEdits
<1>1. AloneInv /\ [Next]_vars =>
        [\A p \in Paths :
           RollbackChanges(p) /\ Current.coverage = "full" => edited[p] # "alone"]_vars
  BY DEF AloneInv, AloneChecked, NoneAlone, RollbackChanges
<1> QED BY AloneInit, AloneStep, <1>1, PTL DEF Spec, FullRollbackSparesUserEdits

-----------------------------------------------------------------------------
(* A complete rollback restores the stage.                                   *)

Known == Live /\ "displaced" \notin mishaps

(* An Agent under the lock works for the current stage, unless that was replaced beside it. *)
StageOfLock ==
  "displaced" \notin mishaps =>
    \A a \in Agents : pc[a] = "locked" /\ manifest[cid[a]].coverage # "missing" => cid[a] = workflow.stage

(* The baseline has the bytes of the start of the stage, and what it does not cover *)
(* has them still, while every effect was covered and for files nobody else edited. *)
BaseKept ==
  Known /\ Current.coverage \in {"full", "scoped"} /\ Current.uncovered = 0
    => \A p \in Paths \ outside :
         /\ p \in Covered(Current) => Current.baseline[p] = pre[workflow.stage][p]
         /\ p \notin Covered(Current) => disk[p] = pre[workflow.stage][p]

(* A covered effect on a scoped stage writes only what the stage covers. *)
EffectCovered ==
  Known /\ Current.coverage = "scoped" /\ Current.uncovered = 0
    => \A a \in Agents : pc[a] = "effect" => job[a] # Unknown /\ job[a] \subseteq Current.scoped

BaseInv == ConflictInv /\ StageOfLock /\ BaseKept /\ EffectCovered

LEMMA MishapsStay == ASSUME ShapeInv, [Next]_vars PROVE mishaps \subseteq mishaps'
  BY EditsMove

(* A new stage beside an effect is a mishap. *)
LEMMA DisplacedByNewStage ==
  ASSUME ShapeInv, LockTaken, NewStage, "displaced" \notin mishaps', NEW a \in Agents
  PROVE  ~InEffect(a)
  BY Creation, ActorsAssumption DEF NewStage, LockTaken, Agents

LEMMA StageOfLockStep == ASSUME BaseInv, [Next]_vars PROVE StageOfLock'
<1> SUFFICES ASSUME "displaced" \notin mishaps', NEW a \in Agents, pc'[a] = "locked",
                    manifest'[cid'[a]].coverage # "missing"
             PROVE  cid'[a] = workflow'.stage
  BY DEF StageOfLock
<1> USE DEF BaseInv, ConflictInv, PlaceInv
<1>1. "displaced" \notin mishaps
  BY MishapsStay
<1>2. CASE Acquire(a)
  BY <1>2 DEF Acquire, ShapeInv, AgentsOK, StageOK
<1>3. CASE pc[a] = "locked" /\ cid'[a] = cid[a]
  <2>1. ~NewStage
    BY <1>3, DisplacedByNewStage DEF InEffect
  <2>2. cid[a] \in Stages
    BY <1>3, CurrentFacts DEF ShapeInv, AgentsOK, Stages, NoStage
  <2>3. manifest[cid[a]].coverage # "missing"
    BY <1>3, <2>1, <2>2, CoverageKept
  <2>4. cid[a] = workflow.stage
    BY <1>1, <1>3, <2>3 DEF StageOfLock
  <2>5. ~FinishAccept
    BY <2>3, <2>4 DEF FinishAccept, UserPlaces, Current
  <2>6. ~FinishRollback
    BY <1>3 DEF FinishRollback, UserPlaces, AgentPlaces
  <2>7. ~Crash
    BY DEF Crash
  <2> QED BY <1>3, <2>1, <2>4, <2>5, <2>6, <2>7, StageMoves DEF StageMove
<1> QED BY <1>2, <1>3, AgentMoves

(* The stage that is known after a step, and is not new, was known before. *)
LEMMA KnownBefore ==
  ASSUME ShapeInv, [Next]_vars, ~NewStage, Known'
  PROVE  /\ Known /\ workflow'.stage = workflow.stage /\ workflow.stage \in Stages
         /\ Current \in ManifestType /\ Current'.coverage = Current.coverage
<1>1. "displaced" \notin mishaps
  BY MishapsStay DEF Known
<1>2. Crash => workflow'.stage = workflow.stage
  <2>1. Crash => saved = workflow.stage
    BY DEF Crash, Known
  <2>2. Crash => workflow' = [workflow EXCEPT !.stage = saved]
    BY DEF Crash
  <2> QED BY <2>1, <2>2 DEF ShapeInv, StageOK
<1>3. /\ workflow'.stage = workflow.stage /\ Live /\ workflow.stage \in Stages
      /\ Current'.coverage = Current.coverage
  BY <1>2, SameStage DEF Known
<1>4. Current \in ManifestType
  BY <1>3, CurrentFacts DEF Live
<1> QED BY <1>1, <1>3, <1>4 DEF Known

(* What a step that starts no stage makes of the manifest of the current one: prepare_effect *)
(* may extend a scoped one, and the rest leaves its baseline and its scope alone.            *)
LEMMA CurrentMoves ==
  ASSUME ShapeInv, [Next]_vars, ~NewStage, Known'
  PROVE  \/ /\ Current'.baseline = Current.baseline /\ Current'.scoped = Current.scoped
            /\ Current'.uncovered = Current.uncovered
         \/ \E a \in Agents, paths \in Jobs :
              /\ Prepare(a) /\ Accepts(Current, paths) /\ cid[a] = workflow.stage
              /\ Current' = Prepared(Current, paths) /\ job' = [job EXCEPT ![a] = paths]
<1>0. /\ Known /\ workflow'.stage = workflow.stage /\ workflow.stage \in Stages
      /\ Current \in ManifestType /\ manifest \in [Stages -> ManifestType]
      /\ disk \in Files
  BY KnownBefore DEF ShapeInv, FilesOK
<1>1. CASE SameFiles
  BY <1>0, <1>1 DEF SameFiles, Current
<1>2. ASSUME NEW a \in Agents, NEW paths \in Jobs, Prepare(a), Accepts(manifest[cid[a]], paths),
             manifest' = [manifest EXCEPT ![cid[a]] = Prepared(manifest[cid[a]], paths)],
             job' = [job EXCEPT ![a] = paths]
      PROVE  \/ Current' = Current
             \/ /\ Prepare(a) /\ Accepts(Current, paths) /\ cid[a] = workflow.stage
                /\ Current' = Prepared(Current, paths) /\ job' = [job EXCEPT ![a] = paths]
  <2>1. CASE cid[a] = workflow.stage
    BY <1>0, <1>2, <2>1 DEF Current
  <2>2. CASE cid[a] # workflow.stage
    BY <1>0, <1>2, <2>2 DEF Current
  <2> QED BY <2>1, <2>2
<1>3. ASSUME manifest' = [manifest EXCEPT ![workflow.stage] = Recorded(Current)]
      PROVE  /\ Current'.baseline = Current.baseline /\ Current'.scoped = Current.scoped
             /\ Current'.uncovered = Current.uncovered
  <2>1. Current' = Recorded(Current)
    BY <1>0, <1>3 DEF Current
  <2> QED BY <1>0, <2>1, RecordedFacts
<1>4. manifest' # [manifest EXCEPT ![workflow.stage] = Missing]
  BY <1>0, MissingType DEF Known, Live, Current, ManifestIs
<1>5. ASSUME manifest' = [manifest EXCEPT ![workflow.stage].observed = Current.baseline]
      PROVE  /\ Current'.baseline = Current.baseline /\ Current'.scoped = Current.scoped
             /\ Current'.uncovered = Current.uncovered
  BY <1>0, <1>5 DEF Current, ManifestType
<1> QED BY <1>1, <1>2, <1>3, <1>4, <1>5, StageMoves DEF StageMove

LEMMA BaseKeptStep == ASSUME BaseInv, [Next]_vars PROVE BaseKept'
<1> SUFFICES ASSUME Known', Current'.coverage \in {"full", "scoped"}, Current'.uncovered = 0,
                    NEW p \in Paths, p \notin outside'
             PROVE  /\ p \in Covered(Current') => Current'.baseline[p] = pre'[workflow'.stage][p]
                    /\ p \notin Covered(Current') => disk'[p] = pre'[workflow'.stage][p]
  BY DEF BaseKept, Covered
<1> USE DEF BaseInv, ConflictInv, PlaceInv
<1>1. CASE NewStage
  <2>1. PICK c \in CoverageOf(policy) : Create(c)
    BY <1>1 DEF NewStage
  <2> DEFINE files == IF c = "full" THEN disk ELSE Nothing
  <2>2. /\ ManifestIs(Current', c, files, files, {}, 0) /\ disk' = disk
        /\ pre'[workflow'.stage] = disk
    BY <1>1, <2>1, Creation DEF NewStage, ApprovePlan, Acquire, Current
  <2>3. CASE c = "full"
    BY <2>2, <2>3 DEF ManifestIs, Covered
  <2>4. CASE c # "full"
    BY <2>2, <2>4 DEF ManifestIs, Covered
  <2> QED BY <2>3, <2>4
<1>2. CASE ~NewStage
  <2>1. /\ Known /\ workflow'.stage = workflow.stage /\ workflow.stage \in Stages
        /\ Current \in ManifestType /\ Current'.coverage = Current.coverage /\ pre' = pre
    BY <1>2, KnownBefore, CoverageKept
  <2>2. p \notin outside
    BY <1>2, DiskMoves DEF DiskMove, WriteTo, RestoreOf, EditOf, StopOf
  <2>3. CASE /\ Current'.baseline = Current.baseline /\ Current'.scoped = Current.scoped
             /\ Current'.uncovered = Current.uncovered
    <3>1. Covered(Current') = Covered(Current)
      BY <2>1, <2>3 DEF Covered
    <3>2. /\ p \in Covered(Current) => Current.baseline[p] = pre[workflow.stage][p]
          /\ p \notin Covered(Current) => disk[p] = pre[workflow.stage][p]
      BY <2>1, <2>2, <2>3 DEF BaseKept
    <3>3. p \notin Covered(Current) => disk'[p] = disk[p]
      <4>1. ASSUME NEW a \in Agents, NEW q \in Paths, WriteTo(a, q) PROVE q \in Covered(Current)
        <5>1. CASE Current.coverage = "full"
          BY <5>1 DEF Covered
        <5>2. CASE Current.coverage = "scoped"
          <6>1. pc[a] = "effect" /\ (job[a] = Unknown \/ q \in job[a])
            BY <4>1 DEF WriteTo, Write
          <6> QED BY <2>1, <2>3, <5>2, <6>1 DEF EffectCovered, Covered
        <5> QED BY <2>1, <5>1, <5>2
      <4>2. ASSUME NEW q \in Paths, RestoreOf(q) PROVE q \in Covered(Current)
        BY <4>2 DEF RestoreOf, Restore, UserPlaces
      <4>5. ASSUME NEW q \in Paths, StopOf(q) PROVE q \in Covered(Current)
        BY <4>5 DEF StopOf, UserPlaces
      <4>3. ASSUME NEW q \in Paths, EditOf(q) PROVE q # p
        BY <4>3 DEF EditOf
      <4>4. p \in Paths
        OBVIOUS
      <4> QED BY <1>2, <4>1, <4>2, <4>3, <4>4, <4>5, DiskMoves
              DEF DiskMove, WriteTo, RestoreOf, EditOf, StopOf, ElseSame
    <3> QED BY <2>1, <2>3, <3>1, <3>2, <3>3
  <2>4. ASSUME NEW a \in Agents, NEW paths \in Jobs, Prepare(a), Accepts(Current, paths),
               Current' = Prepared(Current, paths)
        PROVE  /\ p \in Covered(Current') => Current'.baseline[p] = pre'[workflow'.stage][p]
               /\ p \notin Covered(Current') => disk'[p] = pre'[workflow'.stage][p]
    <3>1. disk' = disk /\ disk \in Files
      BY <2>4 DEF Prepare, ShapeInv, FilesOK
    <3>2. Current.uncovered = 0
      BY <2>1, <2>4, <3>1, PreparedFacts
    <3>3. /\ p \in Covered(Current) => Current.baseline[p] = pre[workflow.stage][p]
          /\ p \notin Covered(Current) => disk[p] = pre[workflow.stage][p]
      BY <2>1, <2>2, <3>2 DEF BaseKept
    <3>4. CASE Current.coverage = "full"
      <4>1. Current' = Current
        BY <2>1, <2>4, <3>1, <3>4, PreparedFacts
      <4> QED BY <2>1, <3>1, <3>3, <4>1
    <3>5. CASE Current.coverage = "scoped"
      <4>1. /\ Current'.scoped = Current.scoped \union paths
            /\ \A q \in Current.scoped : Current'.baseline[q] = Current.baseline[q]
            /\ \A q \in paths \ Current.scoped : Current'.baseline[q] = disk[q]
        BY <2>1, <2>4, <3>1, <3>5, PreparedFacts
      <4> QED BY <2>1, <3>1, <3>3, <3>5, <4>1 DEF Covered
    <3> QED BY <2>1, <3>4, <3>5
  <2> QED BY <1>2, <2>3, <2>4, CurrentMoves
<1> QED BY <1>1, <1>2

LEMMA EffectCoveredStep == ASSUME BaseInv, [Next]_vars PROVE EffectCovered'
<1> SUFFICES ASSUME Known', Current'.coverage = "scoped", Current'.uncovered = 0,
                    NEW a \in Agents, pc'[a] = "effect"
             PROVE  job'[a] # Unknown /\ job'[a] \subseteq Current'.scoped
  BY DEF EffectCovered
<1> USE DEF BaseInv, ConflictInv, PlaceInv
<1>1. InEffect(a)
  BY AgentMoves DEF InEffect, Prepare
<1>2. ~NewStage
  BY <1>1, DisplacedByNewStage DEF Known
<1>3. /\ Known /\ workflow'.stage = workflow.stage /\ workflow.stage \in Stages
      /\ Current \in ManifestType /\ Current.coverage = "scoped" /\ disk \in Files
  BY <1>2, KnownBefore DEF ShapeInv, FilesOK
<1>4. CASE Prepare(a)
  <2>1. PICK paths \in Jobs :
          /\ Accepts(manifest[cid[a]], paths)
          /\ manifest' = [manifest EXCEPT ![cid[a]] = Prepared(@, paths)]
          /\ job' = [job EXCEPT ![a] = paths]
    BY <1>4 DEF Prepare
  <2>2. manifest[cid[a]].coverage # "missing"
    BY <2>1 DEF Accepts
  <2>3. cid[a] = workflow.stage
    BY <1>3, <1>4, <2>2 DEF StageOfLock, Known, Prepare
  <2>4. Current' = Prepared(Current, paths) /\ Accepts(Current, paths) /\ job'[a] = paths
    BY <1>3, <2>1, <2>3 DEF Current, ShapeInv, FilesOK, AgentsOK
  <2>5. paths # Unknown /\ Current'.scoped = Current.scoped \union paths
    BY <1>3, <2>4, PreparedFacts
  <2> QED BY <2>4, <2>5
<1>5. CASE pc[a] = "effect" /\ job'[a] = job[a]
  <2>1. \A b \in Agents : ~Prepare(b)
    BY <1>5 DEF Prepare, LockTaken, InEffect
  <2>2. Current'.scoped = Current.scoped /\ Current'.uncovered = Current.uncovered
    BY <1>2, <2>1, CurrentMoves
  <2> QED BY <1>3, <1>5, <2>2 DEF EffectCovered
<1> QED BY <1>4, <1>5, AgentMoves

LEMMA BaseInit == Init => BaseInv
<1> SUFFICES ASSUME Init PROVE BaseInv
  OBVIOUS
<1>1. StageOfLock /\ BaseKept /\ EffectCovered
  BY DEF Init, StageOfLock, BaseKept, EffectCovered, Known, Live
<1> QED BY <1>1, ConflictInit DEF BaseInv

LEMMA BaseStep == BaseInv /\ [Next]_vars => BaseInv'
<1> SUFFICES ASSUME BaseInv, [Next]_vars PROVE BaseInv'
  OBVIOUS
<1>1. ConflictInv' /\ StageOfLock' /\ BaseKept' /\ EffectCovered'
  BY ConflictStep, StageOfLockStep, BaseKeptStep, EffectCoveredStep DEF BaseInv
<1> QED BY <1>1 DEF BaseInv

(* RollbackRestoresStage: a rollback that did not have to be partial ends with every *)
(* file as it was when the stage began, except those that somebody else changed.     *)
THEOREM CompleteRollback == Spec => RollbackRestoresStage
<1>1. BaseInv /\ [Next]_vars =>
        [(FinishRollback /\ Current.uncovered = 0 /\ "displaced" \notin mishaps)
           => \A p \in Paths \ outside : disk[p] = pre[workflow.stage][p]]_vars
  <2> SUFFICES ASSUME BaseInv, FinishRollback, Current.uncovered = 0, "displaced" \notin mishaps,
                      NEW p \in Paths \ outside
               PROVE  disk[p] = pre[workflow.stage][p]
    OBVIOUS
  <2> USE DEF BaseInv, ConflictInv, PlaceInv
  <2>1. user = "restoring" /\ todo = {}
    BY DEF FinishRollback
  <2>2. workflow.stage # NoStage /\ Current.coverage \in {"full", "scoped"}
    BY <2>1 DEF UserPlaces
  <2>3. /\ p \in Covered(Current) => Current.baseline[p] = pre[workflow.stage][p]
        /\ p \notin Covered(Current) => disk[p] = pre[workflow.stage][p]
    BY <2>2 DEF BaseKept, Known, Live
  <2>4. edited[p] = "no"
    BY DEF EditsOutside
  <2>5. p \in Covered(Current) => disk[p] = Current.baseline[p]
    BY <2>1, <2>4 DEF RestoredSoFar
  <2> QED BY <2>3, <2>5
<1> QED BY BaseInit, BaseStep, <1>1, PTL DEF Spec, RollbackRestoresStage

=============================================================================
