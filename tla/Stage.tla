-------------------------------- MODULE Stage --------------------------------
(***************************************************************************)
(* One implementation stage after the other: WorkflowRuntime and           *)
(* WorkflowState (workflow_runtime.py, workflow.py) over the manifests of  *)
(* CheckpointManager (checkpoints.py) and the project's files.             *)
(*                                                                         *)
(* The root Agent and the children bracket every sensitive tool call with  *)
(* before_effect and after_effect, under one lock.  Between two turns the  *)
(* user accepts the stage, rolls it back or changes the mode; at any time  *)
(* the user, or a process left running, edits a file.                      *)
(***************************************************************************)
EXTENDS Integers, FiniteSets

CONSTANTS
  Root,           \* the root Agent
  Children,       \* child Agents
  Tasks,          \* execution sessions that may be left in the background
  Paths,          \* files of the project
  Present,        \* those that exist at first
  Contents,       \* what a file may hold, as the Agents leave it
  Edited,         \* what a file may hold after anyone else edited it
  Absent,         \* the content of a file that does not exist
  Free,           \* nobody holds the effect lock
  Policies,       \* checkpoint policies the user may start with
  Interruptible,  \* plain CLI: Ctrl-C raises KeyboardInterrupt in the root
  MayCrash,       \* may the process die and the session be resumed?
  MaxStages,      \* bound: stages created
  MaxEffects,     \* bound: sensitive tool calls requested
  MaxWrites,      \* bound: files written by tools
  MaxEdits,       \* bound: files edited by anyone else
  MaxMishaps,     \* bound: kinds of mishap in one behaviour
  MaxUncovered    \* MAX_UNCOVERED_EFFECTS

ASSUME BoundsAssumption ==
  /\ MaxStages \in Nat /\ MaxEffects \in Nat /\ MaxWrites \in Nat
  /\ MaxEdits \in Nat /\ MaxMishaps \in Nat /\ MaxUncovered \in Nat \ {0}
ASSUME ActorsAssumption == /\ Root \notin Children /\ Tasks \intersect Children = {}
                           /\ Free \notin Children \union {Root}
ASSUME FilesAssumption == Absent \in Contents /\ Present \subseteq Paths
ASSUME PoliciesAssumption == Policies \subseteq {"required", "best-effort", "off"}
ASSUME SwitchesAssumption == Interruptible \in BOOLEAN /\ MayCrash \in BOOLEAN

VARIABLES
  disk,      \* the files of the project
  policy,    \* checkpoint_policy
  manifest,  \* state_root: the manifest of each stage
  created,   \* how many stages were created
  workflow,  \* WorkflowState: checkpoint_id and mode
  saved,     \* the checkpoint_id of the last record of the session
  turn,      \* is a turn of the root under way?
  running,   \* children and execution sessions that are running
  pc,        \* where each Agent is in invoke_tool
  cid,       \* before_effect's checkpoint_id, until it returns
  job,       \* recovery_paths of the tool at work: a set of paths, or Unknown
  holder,    \* who holds _effect_lock
  user,      \* what the user's thread is doing
  todo,      \* the paths a rollback has still to restore
  effects, writes, edits,  \* the bounded counters
  pre,       \* history: the files when each stage was created
  edited,    \* history: was a file changed last by anyone but an Agent; "alone":
             \* outside any effect and rollback, to bytes no full stage recorded last
  outside,   \* history: files changed by anyone else since the stage began
  mishaps    \* history: a crash; an effect or a rollback stopped halfway; an effect
             \* that could not be recorded; a stage that straddles an effect, or was
             \* resumed in place of a later one

vars == <<disk, policy, manifest, created, workflow, saved, turn, running, pc, cid,
          job, holder, user, todo, effects, writes, edits, pre, edited, outside, mishaps>>
stageVars == <<manifest, created, pre>>
agentVars == <<pc, cid, job, holder>>
userVars == <<user, todo>>
countVars == <<effects, writes, edits>>
historyVars == <<edited, outside, mishaps>>

Agents == Children \union {Root}
Unknown == {}    \* recovery_paths is None: no predictable target
Jobs == SUBSET Paths
Files == [Paths -> Contents \union Edited]
Stages == 1..MaxStages
NoStage == 0
Modes == {"plan", "implementation"}  \* review refuses what plan refuses, and plans
Mishaps == {"crash", "halfway", "untracked", "displaced"}

\* The bound leaves room for this mishap.
MayHappen(mishap) ==
  Cardinality((mishaps \ {"displaced"}) \union {mishap}) <= MaxMishaps

Nothing == [p \in Paths |-> Absent]
Manifest(coverage, files) ==
  [coverage |-> coverage, baseline |-> files, observed |-> files, scoped |-> {}, uncovered |-> 0]
Missing == Manifest("missing", Nothing)

-----------------------------------------------------------------------------
\* CheckpointManager.create: the coverage a policy may yield.  A best-effort
\* stage is scoped outside Git, or when the full capture fails.
CoverageOf(p) ==
  CASE p = "required" -> {"full"}
    [] p = "best-effort" -> {"full", "scoped"}
    [] p = "off" -> {"none"}

Capture(paths) == [p \in Paths |-> IF p \in paths THEN disk[p] ELSE Absent]
Covered(m) == IF m.coverage = "full" THEN Paths ELSE m.scoped

\* Mutant: only the paths that were recorded are compared, so a file that
\* came into being since is no conflict.
ConflictsOfRecorded(m) == {p \in Covered(m) : m.observed[p] \notin {Absent, disk[p]}}

\* _state_differences of the observed files and the files now.
Conflicts(m) == {p \in Covered(m) : m.observed[p] # disk[p]}

\* Mutant: the list of uncovered effects is not capped.
UncoverAll(m) == [m EXCEPT !.uncovered = @ + 1]

Uncover(m) ==
  [m EXCEPT !.uncovered = IF @ >= MaxUncovered THEN @ ELSE @ + 1]

\* Mutant: every targeted path is captured again, not only the new ones.
ExtendAgain(m, paths) ==
  [m EXCEPT !.baseline = [p \in Paths |-> IF p \in paths THEN disk[p] ELSE @[p]],
            !.observed = [p \in Paths |-> IF p \in paths THEN disk[p] ELSE @[p]],
            !.scoped = @ \union paths]

\* The scoped branch of prepare_effect: paths first targeted now are captured.
Extend(m, paths) ==
  LET new == paths \ m.scoped IN
  [m EXCEPT !.baseline = [p \in Paths |-> IF p \in new THEN disk[p] ELSE @[p]],
            !.observed = [p \in Paths |-> IF p \in new THEN disk[p] ELSE @[p]],
            !.scoped = @ \union paths]

\* May prepare_effect let the tool call of this job go on?
Accepts(m, paths) ==
  \/ m.coverage = "none"
  \/ m.coverage = "full" /\ Conflicts(m) = {}
  \/ m.coverage = "scoped" /\ (paths = Unknown \/ Conflicts(m) = {})

Prepared(m, paths) ==
  CASE m.coverage = "full" -> m
    [] m.coverage = "none" -> Uncover(m)
    [] OTHER -> IF paths = Unknown THEN Uncover(m) ELSE Extend(m, paths)

\* Mutant: only files of the baseline are recorded, not those created since.
RecordedBaseline(m) ==
  IF m.coverage = "none" THEN m
  ELSE [m EXCEPT !.observed = Capture({p \in Covered(m) : m.baseline[p] # Absent})]

\* record_effect
Recorded(m) ==
  IF m.coverage = "none" THEN m ELSE [m EXCEPT !.observed = Capture(Covered(m))]

\* Does _load_manifest find the stage that checkpoint_id names?
Current == manifest[workflow.stage]
Live == workflow.stage # NoStage /\ Current.coverage # "missing"

\* A new stage starts with the files as they are.  A stage that starts while
\* an Agent is between before_effect and after_effect straddles that effect.
Create(coverage) ==
  /\ created < MaxStages
  /\ coverage \in CoverageOf(policy)
  /\ created' = created + 1
  /\ manifest' = [manifest EXCEPT ![created + 1] =
                    Manifest(coverage, IF coverage = "full" THEN disk ELSE Nothing)]
  /\ pre' = [pre EXCEPT ![created + 1] = disk]
  /\ edited' = [p \in Paths |-> "no"]
  /\ outside' = {}
  /\ mishaps' = IF holder = Free THEN mishaps ELSE mishaps \union {"displaced"}

-----------------------------------------------------------------------------
TypeOK ==
  /\ disk \in Files
  /\ policy \in Policies
  /\ manifest \in [Stages -> [coverage : {"full", "scoped", "none", "missing"},
                              baseline : Files, observed : Files,
                              scoped : SUBSET Paths,
                              uncovered : 0..MaxUncovered]]
  /\ created \in 0..MaxStages
  /\ workflow \in [stage : 0..created, mode : Modes]
  /\ saved \in 0..created
  /\ turn \in BOOLEAN
  /\ running \subseteq Children \union Tasks
  /\ pc \in [Agents -> {"idle", "waiting", "locked", "effect"}]
  /\ cid \in [Agents -> 0..created]
  /\ job \in [Agents -> Jobs]
  /\ holder \in Agents \union {Free}
  /\ user \in {"ready", "accepting", "restoring"}
  /\ todo \subseteq Paths
  /\ effects \in 0..MaxEffects /\ writes \in 0..MaxWrites /\ edits \in 0..MaxEdits
  /\ pre \in [Stages -> Files]
  /\ edited \in [Paths -> {"no", "alone", "raced"}]
  /\ outside \subseteq Paths
  /\ mishaps \subseteq Mishaps

Init ==
  /\ disk \in [Paths -> Contents]
  /\ Present = {p \in Paths : disk[p] # Absent}
  /\ policy \in Policies
  /\ manifest = [s \in Stages |-> Missing]
  /\ created = 0
  /\ workflow = [stage |-> NoStage, mode |-> "implementation"]
  /\ saved = NoStage
  /\ turn = FALSE
  /\ running = {}
  /\ pc = [a \in Agents |-> "idle"]
  /\ cid = [a \in Agents |-> NoStage]
  /\ job = [a \in Agents |-> Unknown]
  /\ holder = Free
  /\ user = "ready"
  /\ todo = {}
  /\ effects = 0 /\ writes = 0 /\ edits = 0
  /\ pre = [s \in Stages |-> disk]
  /\ edited = [p \in Paths |-> "no"]
  /\ outside = {}
  /\ mishaps = {}

-----------------------------------------------------------------------------
(* The turns of the root, and its plan *)

Quiet == ~turn /\ user = "ready"

BeginTurn ==
  /\ Quiet
  /\ turn' = TRUE
  /\ UNCHANGED <<disk, policy, stageVars, workflow, saved, running, agentVars, userVars,
                 countVars, historyVars>>

\* The end of a turn saves the session, or fails to.
EndTurn ==
  /\ turn /\ pc[Root] = "idle"
  /\ turn' = FALSE
  /\ saved' \in {saved, workflow.stage}
  /\ UNCHANGED <<disk, policy, stageVars, workflow, running, agentVars, userVars,
                 countVars, historyVars>>

\* propose_plan, approved: a new stage, created without the effect lock.
ApprovePlan ==
  /\ turn /\ pc[Root] = "idle"
  /\ workflow.mode = "plan"
  /\ \E c \in CoverageOf(policy) : Create(c)
  /\ workflow' = [stage |-> created + 1, mode |-> "implementation"]
  /\ UNCHANGED <<disk, policy, saved, turn, running, agentVars, userVars, countVars>>

-----------------------------------------------------------------------------
(* A sensitive tool call: invoke_tool, before_effect, after_effect *)

Leave(a) ==
  /\ pc' = [pc EXCEPT ![a] = "idle"]
  /\ cid' = [cid EXCEPT ![a] = NoStage]
  /\ job' = [job EXCEPT ![a] = Unknown]

\* The tool call is authorized in the mode of the moment.
RequestEffect(a) ==
  /\ IF a = Root THEN turn ELSE a \in running
  /\ pc[a] = "idle"
  /\ workflow.mode = "implementation"
  /\ effects < MaxEffects
  /\ effects' = effects + 1
  /\ pc' = [pc EXCEPT ![a] = "waiting"]
  /\ UNCHANGED <<disk, policy, stageVars, workflow, saved, turn, running, cid, job, holder,
                 userVars, writes, edits, historyVars>>

\* before_effect takes the lock; the first effect creates the stage.
Acquire(a) ==
  /\ pc[a] = "waiting"
  /\ holder = Free
  /\ holder' = a
  /\ pc' = [pc EXCEPT ![a] = "locked"]
  /\ \/ /\ workflow.stage # NoStage
        /\ cid' = [cid EXCEPT ![a] = workflow.stage]
        /\ UNCHANGED <<workflow, stageVars, historyVars>>
     \/ /\ workflow.stage = NoStage
        /\ \E c \in CoverageOf(policy) : Create(c)
        /\ cid' = [cid EXCEPT ![a] = created + 1]
        /\ workflow' = [workflow EXCEPT !.stage = created + 1]
  /\ UNCHANGED <<disk, policy, saved, turn, running, job, userVars, countVars>>

\* create raises (too many files, an unreadable one, a full disk): the lock is
\* released and the tool call fails.
CreateFails(a) ==
  /\ pc[a] = "waiting"
  /\ holder = Free
  /\ workflow.stage = NoStage
  /\ Leave(a)
  /\ UNCHANGED <<disk, policy, stageVars, workflow, saved, turn, running, holder,
                 userVars, countVars, historyVars>>

\* prepare_effect on the stage read under the lock, with the recovery paths of
\* the tool call.
Prepare(a) ==
  /\ pc[a] = "locked"
  /\ \E paths \in Jobs :
       /\ Accepts(manifest[cid[a]], paths)
       /\ manifest' = [manifest EXCEPT ![cid[a]] = Prepared(@, paths)]
       /\ job' = [job EXCEPT ![a] = paths]
  /\ cid' = [cid EXCEPT ![a] = NoStage]
  /\ pc' = [pc EXCEPT ![a] = "effect"]
  /\ UNCHANGED <<disk, policy, created, pre, workflow, saved, turn, running, holder,
                 userVars, countVars, historyVars>>

\* Mutant: before_effect raises without giving the lock back.
RefuseHoldingLock(a) ==
  /\ pc[a] = "locked"
  /\ Leave(a)
  /\ UNCHANGED <<disk, policy, stageVars, workflow, saved, turn, running, holder,
                 userVars, countVars, historyVars>>

\* A conflict, a manifest that is gone, a file that cannot be read, too many
\* files, a full disk: prepare_effect raises and the tool call fails.
Refuse(a) ==
  /\ pc[a] = "locked"
  /\ holder' = Free
  /\ Leave(a)
  /\ UNCHANGED <<disk, policy, stageVars, workflow, saved, turn, running,
                 userVars, countVars, historyVars>>

\* The tool at work.
Write(a) ==
  /\ pc[a] = "effect"
  /\ writes < MaxWrites
  /\ writes' = writes + 1
  /\ \E p \in (IF job[a] = Unknown THEN Paths ELSE job[a]), c \in Contents :
       /\ c # disk[p]
       /\ disk' = [disk EXCEPT ![p] = c]
       /\ edited' = [edited EXCEPT ![p] = "no"]
  /\ UNCHANGED <<policy, stageVars, workflow, saved, turn, running, agentVars, userVars,
                 effects, edits, outside, mishaps>>

\* spawn_agent, a follow-up, a command put in the background.
Spawn ==
  /\ pc[Root] = "effect"
  /\ job[Root] = Unknown
  /\ \E x \in (Children \union Tasks) \ running : running' = running \union {x}
  /\ UNCHANGED <<disk, policy, stageVars, workflow, saved, turn, agentVars, userVars,
                 countVars, historyVars>>

Finish(x) ==
  /\ x \in running
  /\ x \in Children => pc[x] = "idle"
  /\ running' = running \ {x}
  /\ UNCHANGED <<disk, policy, stageVars, workflow, saved, turn, agentVars, userVars,
                 countVars, historyVars>>

\* after_effect: what the files are now is recorded in the stage that is
\* current now, and the lock is released; it raises if there is no such stage.
Record(a) ==
  /\ pc[a] = "effect"
  /\ \/ /\ Live
        /\ manifest' = [manifest EXCEPT ![workflow.stage] = Recorded(@)]
     \/ /\ ~Live
        /\ UNCHANGED manifest
  /\ holder' = Free
  /\ Leave(a)
  /\ UNCHANGED <<disk, policy, created, pre, workflow, saved, turn, running,
                 userVars, countVars, historyVars>>

\* record_effect raises (a file that cannot be read, a full disk): the result of
\* the tool says that change tracking failed, the lock is released as well, and
\* the manifest keeps what it recorded before.  (Where that is what the files are
\* now, this is Record.)
RecordFails(a) ==
  /\ pc[a] = "effect"
  /\ Live
  /\ Recorded(Current) # Current
  /\ holder' = Free
  /\ Leave(a)
  /\ MayHappen("untracked")
  /\ mishaps' = mishaps \union {"untracked"}
  /\ UNCHANGED <<disk, policy, stageVars, workflow, saved, turn, running, userVars,
                 countVars, edited, outside>>

\* Ctrl-C in the plain CLI: before_effect gives the lock back, invoke_tool
\* does not; the turn is saved as interrupted and the prompt returns.
Interrupt ==
  /\ Interruptible
  /\ turn /\ pc[Root] # "idle"
  /\ holder' = IF pc[Root] = "locked" THEN Free ELSE holder
  /\ Leave(Root)
  /\ turn' = FALSE
  /\ saved' \in {saved, workflow.stage}
  /\ IF pc[Root] = "effect"
     THEN MayHappen("halfway") /\ mishaps' = mishaps \union {"halfway"}
     ELSE UNCHANGED mishaps
  /\ UNCHANGED <<disk, policy, stageVars, workflow, running, userVars, countVars,
                 edited, outside>>

-----------------------------------------------------------------------------
(* The user, between turns *)

ChangeMode ==
  /\ Quiet
  /\ \E m \in Modes \ {workflow.mode} : workflow' = [workflow EXCEPT !.mode = m]
  /\ saved' \in {saved, workflow.stage}
  /\ UNCHANGED <<disk, policy, stageVars, turn, running, agentVars, userVars, countVars,
                 historyVars>>

Closed == [stage |-> NoStage, mode |-> "implementation"]

\* accept deletes the stage's directory, then calls the listeners.
Accept ==
  /\ Quiet
  /\ Live
  /\ manifest' = [manifest EXCEPT ![workflow.stage] = Missing]
  /\ user' = "accepting"
  /\ UNCHANGED <<disk, policy, created, pre, workflow, saved, turn, running, agentVars,
                 todo, countVars, historyVars>>

\* The state is committed at once; that may fail, and what was saved stays.
FinishAccept ==
  /\ user = "accepting"
  /\ workflow' = Closed
  /\ saved' \in {NoStage, saved}
  /\ user' = "ready"
  /\ UNCHANGED <<disk, policy, stageVars, turn, running, agentVars, todo, countVars,
                 historyVars>>

\* A listener raises: checkpoint_id keeps naming the deleted stage.
AcceptFails ==
  /\ user = "accepting"
  /\ user' = "ready"
  /\ UNCHANGED <<disk, policy, stageVars, workflow, saved, turn, running, agentVars, todo,
                 countVars, historyVars>>

\* rollback, with or without --partial: its checks.
Rollback(allowPartial) ==
  /\ Quiet
  /\ Live
  /\ running = {}
  /\ Current.coverage \in {"full", "scoped"}
  /\ Current.coverage = "scoped" /\ Current.uncovered > 0 => allowPartial
  /\ Conflicts(Current) = {}
  /\ user' = "restoring"
  /\ todo' = {p \in Covered(Current) : {Current.observed[p], Current.baseline[p]} # {Absent}}
  /\ UNCHANGED <<disk, policy, stageVars, workflow, saved, turn, running, agentVars,
                 countVars, historyVars>>

Restore(p) ==
  /\ user = "restoring"
  /\ p \in todo
  /\ todo' = todo \ {p}
  /\ disk' = [disk EXCEPT ![p] = manifest[workflow.stage].baseline[p]]
  /\ edited' = [edited EXCEPT ![p] = "no"]
  /\ UNCHANGED <<policy, stageVars, workflow, saved, turn, running, agentVars, user,
                 countVars, outside, mishaps>>

\* A rollback that stops anywhere leaves the rest as it is, but perhaps for one
\* file that is already unlinked and not yet written.
StopRestoring ==
  \/ UNCHANGED <<disk, edited>>
  \/ \E p \in todo : /\ disk' = [disk EXCEPT ![p] = Absent]
                     /\ edited' = [edited EXCEPT ![p] = "no"]

\* A file cannot be written, or at the end the manifest cannot.
RestoreFails ==
  /\ user = "restoring"
  /\ StopRestoring
  /\ user' = "ready"
  /\ todo' = {}
  /\ MayHappen("halfway")
  /\ mishaps' = mishaps \union {"halfway"}
  /\ UNCHANGED <<policy, stageVars, workflow, saved, turn, running, agentVars,
                 countVars, outside>>

\* The manifest is written, the listeners run, and the stage is closed; a
\* listener that raises leaves it open.
FinishRollback ==
  /\ user = "restoring"
  /\ todo = {}
  /\ manifest' = [manifest EXCEPT ![workflow.stage].observed = manifest[workflow.stage].baseline]
  /\ \/ workflow' = Closed /\ saved' \in {NoStage, saved}
     \/ UNCHANGED <<workflow, saved>>
  /\ user' = "ready"
  /\ UNCHANGED <<disk, policy, created, pre, turn, running, agentVars, todo, countVars,
                 historyVars>>

-----------------------------------------------------------------------------
(* The rest of the world *)

\* Is that what a full stage recorded last of the file?  Only contents are
\* compared, so an edit that brings it back cannot be told from no edit.
Recalled(p, c) == \E s \in Stages : /\ manifest[s].coverage = "full"
                                    /\ manifest[s].observed[p] = c

\* The user's editor, or a process left running, changes a file.  (Before the
\* first stage an edit would be one more way for the project to start.)
Edit(p) ==
  /\ created > 0
  /\ edits < MaxEdits
  /\ edits' = edits + 1
  /\ \E c \in Edited \ {disk[p]} :
       /\ disk' = [disk EXCEPT ![p] = c]
       /\ edited' = [edited EXCEPT ![p] =
                       IF holder = Free /\ user # "restoring" /\ ~Recalled(p, c)
                       THEN "alone" ELSE "raced"]
  /\ outside' = outside \union {p}
  /\ UNCHANGED <<policy, stageVars, workflow, saved, turn, running, agentVars, userVars,
                 effects, writes, mishaps>>

\* The process dies; the session is resumed in another one, with the stage of
\* its last record, which may not be the one the process had.  (The mode of
\* that record is not kept: the user may change it at once.)
Crash ==
  /\ MayCrash
  /\ "crash" \notin mishaps
  /\ MayHappen("crash")
  /\ mishaps' = mishaps \union {"crash"}
                      \union (IF saved = workflow.stage THEN {} ELSE {"displaced"})
  /\ workflow' = [workflow EXCEPT !.stage = saved]
  /\ turn' = FALSE
  /\ running' = {}
  /\ pc' = [a \in Agents |-> "idle"]
  /\ cid' = [a \in Agents |-> NoStage]
  /\ job' = [a \in Agents |-> Unknown]
  /\ holder' = Free
  /\ user' = "ready"
  /\ todo' = {}
  /\ StopRestoring
  /\ UNCHANGED <<policy, stageVars, saved, countVars, outside>>

AgentStep(a) ==
  Acquire(a) \/ CreateFails(a) \/ Prepare(a) \/ Refuse(a) \/ Record(a)
  \/ RecordFails(a)

Next ==
  \/ BeginTurn \/ EndTurn \/ ApprovePlan \/ Spawn \/ Interrupt \/ Crash
  \/ \E a \in Agents : RequestEffect(a) \/ Write(a) \/ AgentStep(a)
  \/ \E x \in Children \union Tasks : Finish(x)
  \/ ChangeMode \/ Accept \/ FinishAccept \/ AcceptFails
  \/ \E allowPartial \in BOOLEAN : Rollback(allowPartial)
  \/ RestoreFails \/ FinishRollback
  \/ \E p \in Paths : Restore(p) \/ Edit(p)

Spec == Init /\ [][Next]_vars

-----------------------------------------------------------------------------
(* Properties *)

InEffect(a) == pc[a] \in {"locked", "effect"}

\* The lock is held by the Agent that is between before_effect and
\* after_effect, and by nobody when there is none: no error path keeps it,
\* and none gives back the lock of another Agent.  (Ctrl-C does keep it.)
LockMatchesEffect ==
  "halfway" \notin mishaps => \A a \in Agents : InEffect(a) <=> holder = a

\* The Agents never stand in their own way: until a crash, an effect or a
\* rollback that stops halfway, or an effect whose change tracking fails, the
\* files a stage protects differ from what it last recorded only where
\* somebody else changed them, so that prepare_effect and rollback find no
\* conflict but an outside edit.
OwnEffectsNeverConflict ==
  (Live /\ Current.coverage # "none" /\ holder = Free /\ user = "ready" /\ mishaps \subseteq {"displaced"})
    => \A p \in Conflicts(Current) : edited[p] # "no"

\* A rollback under way changes this file: a step that is nobody's edit.
RollbackChanges(p) == user = "restoring" /\ edits' = edits /\ disk'[p] # disk[p]

\* A rollback, also one that fails or dies, never overwrites bytes that the user,
\* and not an Agent, put into a file outside any effect, and that no stage knew
\* before.
RollbackSparesUserEdits ==
  [][\A p \in Paths : RollbackChanges(p) => edited[p] # "alone"]_vars

\* The same where the stage has full coverage.
FullRollbackSparesUserEdits ==
  [][\A p \in Paths :
       RollbackChanges(p) /\ Current.coverage = "full" => edited[p] # "alone"]_vars

\* A rollback that did not have to be called partial brings every file back
\* to its bytes at the start of the stage, except the files that somebody
\* else changed meanwhile.  This is not said of a stage that straddles an
\* effect, nor after a crash that resumed another stage than the last.
RollbackRestoresStage ==
  [][(FinishRollback /\ Current.uncovered = 0 /\ "displaced" \notin mishaps)
       => \A p \in Paths \ outside : disk[p] = pre[workflow.stage][p]]_vars

=============================================================================
