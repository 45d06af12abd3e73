------------------------------ MODULE Worktrees ------------------------------
(***************************************************************************)
(* The operations on the isolated workspaces of child Agents               *)
(* (worktrees.py), whose state is in module Workspaces: a manifest and     *)
(* a Git worktree for each, and the root's files, into which the delta of  *)
(* a child is integrated.                                                  *)
(*                                                                         *)
(* Three parties act on them: the children, that work in their worktrees   *)
(* and finish; the root Agent or the user, one operation after the other   *)
(* (there is one foreground activity); and stage acceptance and rollback,  *)
(* through the listeners AgentManager registers.  An operation with steps  *)
(* a crash can separate has an action for each.  The files of the stage    *)
(* are protected as a whole, or, when a full capture fails, not at all;    *)
(* module Stage has the detail.                                            *)
(***************************************************************************)
EXTENDS Workspaces

vars == <<root, manifest, work, baseline, head, child, stage, op, writes, stages, starts,
          applied, finished, mishaps>>
gitVars == <<work, baseline, head>>
countVars == <<writes, stages, starts>>
historyVars == <<applied, finished, mishaps>>

Initial == [p \in Paths |-> First]

\* With full coverage, what the files held when it began and when it last
\* recorded them; before: the Agents whose delta was in the root when it began.
NoStage ==
  [open |-> FALSE, full |-> FALSE, start |-> Initial, observed |-> Initial, before |-> {}]
NewStage(full) ==
  IF full THEN [open |-> TRUE, full |-> TRUE, start |-> root, observed |-> root, before |-> applied]
  ELSE [NoStage EXCEPT !.open = TRUE]

Idle == [kind |-> "idle", agent |-> "none", snapshot |-> Initial]

-----------------------------------------------------------------------------
(* Git *)

\* _result_patch: the files that differ between baseline_commit and HEAD.
Patch(a) == {p \in Paths : baseline[a][p] # head[a][p]}

\* git apply --check: the root has what the child started from.
Applies(a) == \A p \in Patch(a) : root[p] = baseline[a][p]

\* Mutant: on a conflict the root's side is taken.
MergeOurs(base, ours, theirs) == IF ours = base THEN theirs ELSE ours

\* git apply --3way, for one file.
Merge(base, ours, theirs) ==
  CASE ours = base -> theirs
    [] ours = theirs -> ours
    [] OTHER -> Markers

\* The child's delta over the captured root.
Replayed(a) ==
  [p \in Paths |-> IF p \in Patch(a) THEN Merge(baseline[a][p], op.snapshot[p], head[a][p])
                   ELSE op.snapshot[p]]

\* Are there changes in the worktree that are in no commit?
Uncommitted(a) == work[a] # head[a]

-----------------------------------------------------------------------------
Init ==
  /\ root = Initial
  /\ manifest = [a \in Owners |-> "none"]
  /\ work = [a \in Owners |-> Gone]
  /\ baseline = [a \in Owners |-> Gone]
  /\ head = [a \in Owners |-> Gone]
  /\ child = [a \in Owners |-> "unknown"]
  /\ stage = NoStage
  /\ op = Idle
  /\ writes = 0 /\ stages = 0 /\ starts = 0
  /\ applied = {}
  /\ finished = [a \in Owners |-> {}]
  /\ mishaps = {}

\* The lock of the manager, and the one foreground activity.
Quiet == op = Idle

-----------------------------------------------------------------------------
(* Effects *)

\* Does a new stage find integrations that none has accepted?
Unsettled == {m \in {"earlier"} : \E a \in Owners : manifest[a] = "integrated_pending"}

StartStage ==
  /\ stages < MaxStages
  /\ stages' = stages + 1
  /\ \E full \in BOOLEAN : stage' = NewStage(full)
  /\ mishaps' = mishaps \union Unsettled

\* before_effect: the first effect opens a stage; one with full coverage
\* refuses effects while the root differs from what it last recorded.
OpenStage ==
  /\ Quiet /\ ~stage.open
  /\ StartStage
  /\ UNCHANGED <<root, manifest, gitVars, child, op, writes, starts, applied, finished>>

MayTakeEffect == Quiet /\ stage.open /\ (stage.full => root = stage.observed)

\* after_effect
Observed(files) == IF stage.full THEN [stage EXCEPT !.observed = files] ELSE stage

\* An Agent changes a file of the root, or the user does, of which the stage
\* has no record.
Edit(p) ==
  /\ writes < MaxWrites
  /\ writes' = writes + 1
  /\ \E c \in Contents \ {root[p]} : root' = [root EXCEPT ![p] = c]
  /\ \/ stage' = stage
     \/ MayTakeEffect /\ stage' = Observed(root')
  /\ UNCHANGED <<manifest, gitVars, child, op, stages, starts, historyVars>>

-----------------------------------------------------------------------------
(* The children *)

\* start: create captures the root, the worktree is its baseline commit, and
\* the child runs.  Making room for it may evict an older record, which then is
\* as unknown to this process as after a restart: module AgentManager has that.
Create(a) ==
  /\ MayTakeEffect
  /\ head[a] = Gone
  /\ manifest' = [manifest EXCEPT ![a] = "active"]
  /\ work' = [work EXCEPT ![a] = root]
  /\ baseline' = [baseline EXCEPT ![a] = root]
  /\ head' = [head EXCEPT ![a] = root]
  /\ child' = [child EXCEPT ![a] = "running"]
  /\ UNCHANGED <<root, stage, op, countVars, historyVars>>

\* followup, with activate.
Followup(a) ==
  /\ MayTakeEffect
  /\ child[a] = "terminal"
  /\ manifest[a] \in {"ready", "conflicted", "orphaned"}
  /\ manifest' = [manifest EXCEPT ![a] = "active"]
  /\ child' = [child EXCEPT ![a] = "running"]
  /\ UNCHANGED <<root, gitVars, stage, op, countVars, historyVars>>

\* A tool of the child changes a file: an effect like those of the root.
ChildWrites(a) ==
  /\ MayTakeEffect
  /\ child[a] = "running"
  /\ writes < MaxWrites
  /\ writes' = writes + 1
  /\ \E p \in Paths, c \in Contents :
       /\ c # work[a][p]
       /\ work' = [work EXCEPT ![a][p] = c]
       /\ finished' = [finished EXCEPT ![a] = {change \in @ : change[1] # p}]
  /\ UNCHANGED <<root, manifest, baseline, head, child, stage, op, stages, starts, applied,
                 mishaps>>

\* Mutant: what the child has changed is not committed.
CompletesUncommitted(a) ==
  /\ Quiet
  /\ child[a] = "running"
  /\ child' = [child EXCEPT ![a] = "terminal"]
  /\ manifest[a] = "active"
  /\ manifest' = [manifest EXCEPT ![a] = "ready"]
  /\ finished' = [finished EXCEPT ![a] =
                    {<<p, work[a][p]>> : p \in {q \in Paths : work[a][q] # baseline[a][q]}}]
  /\ UNCHANGED <<root, gitVars, stage, op, countVars, applied, mishaps>>

\* A run completes, with finalize: everything is staged, which also settles
\* what Git held for unmerged, so no conflict is found; it is committed.  A
\* workspace that is no longer active is left as it is.
Completes(a) ==
  /\ Quiet
  /\ child[a] = "running"
  /\ child' = [child EXCEPT ![a] = "terminal"]
  /\ \/ /\ manifest[a] = "active"
        /\ head' = [head EXCEPT ![a] = work[a]]
        /\ manifest' = [manifest EXCEPT ![a] = "ready"]
        /\ finished' = [finished EXCEPT ![a] =
                          {<<p, work[a][p]>> : p \in {q \in Paths : work[a][q] # baseline[a][q]}}]
        /\ mishaps' = mishaps \union {m \in {"unresolved"} : \E p \in Paths : work[a][p] = Markers}
     \/ /\ manifest[a] # "active"
        /\ UNCHANGED <<head, manifest, finished, mishaps>>
  /\ UNCHANGED <<root, work, baseline, stage, op, countVars, applied>>

\* Mutant: the manifest takes the status of the Agent, which from_dict refuses.
StopsWithAgentStatus(a) ==
  /\ Quiet
  /\ child[a] = "running"
  /\ child' = [child EXCEPT ![a] = "terminal"]
  /\ manifest' = [manifest EXCEPT ![a] = IF @ = "active" THEN "stopped" ELSE @]
  /\ UNCHANGED <<root, gitVars, stage, op, countVars, historyVars>>

\* A run is stopped or fails, with fail: the worktree stays as it is.
StopsOrFails(a) ==
  /\ Quiet
  /\ child[a] = "running"
  /\ child' = [child EXCEPT ![a] = "terminal"]
  /\ manifest' = [manifest EXCEPT ![a] = IF @ = "active" THEN "orphaned" ELSE @]
  /\ UNCHANGED <<root, gitVars, stage, op, countVars, historyVars>>

\* _remove_owned, for good: the worktree and the branch with its commits, for
\* which the initial files stand from then on.
Removed(a) ==
  /\ work' = [work EXCEPT ![a] = Gone]
  /\ baseline' = [baseline EXCEPT ![a] = Initial]
  /\ head' = [head EXCEPT ![a] = Initial]

-----------------------------------------------------------------------------
(* Review: integrate, reconcile, discard *)

\* integrate: the whole patch is checked, then put into the root.
Integrate(a) ==
  /\ MayTakeEffect
  /\ child[a] = "terminal"
  /\ manifest[a] \in {"ready", "orphaned"}
  /\ Applies(a)
  /\ root' = [p \in Paths |-> IF p \in Patch(a) THEN head[a][p] ELSE root[p]]
  /\ op' = [Idle EXCEPT !.kind = "integrate", !.agent = a]
  /\ applied' = applied \union {a}
  /\ mishaps' = mishaps \union {m \in {"uncommitted"} : Uncommitted(a)}
  /\ UNCHANGED <<manifest, gitVars, child, stage, countVars, finished>>

\* The manifest is saved, and after_effect records the root.
FinishIntegrate ==
  /\ op.kind = "integrate"
  /\ manifest' = [manifest EXCEPT ![op.agent] = "integrated_pending"]
  /\ stage' = Observed(root)
  /\ op' = Idle
  /\ UNCHANGED <<root, gitVars, child, countVars, historyVars>>

\* reconcile: the patch and the root are captured, and the worktree is removed
\* with its branch and its manifest.
Reconcile(a) ==
  /\ MayTakeEffect
  /\ child[a] = "terminal"
  /\ manifest[a] \in {"ready", "orphaned"}
  /\ manifest' = [manifest EXCEPT ![a] = "none"]
  /\ work' = [work EXCEPT ![a] = Gone]
  /\ op' = [kind |-> "reconcile", agent |-> a, snapshot |-> root]
  /\ mishaps' = mishaps \union {m \in {"uncommitted"} : Uncommitted(a)}
  /\ UNCHANGED <<root, baseline, head, child, stage, countVars, applied, finished>>

\* A worktree of the captured root, with these files and this HEAD.
Replace(a, newStatus, files, commit) ==
  /\ manifest' = [manifest EXCEPT ![a] = newStatus]
  /\ work' = [work EXCEPT ![a] = files]
  /\ baseline' = [baseline EXCEPT ![a] = op.snapshot]
  /\ head' = [head EXCEPT ![a] = commit]
  /\ applied' = applied \ {a}
  /\ finished' = [finished EXCEPT ![a] = {change \in @ : op.snapshot[change[1]] # change[2]}]
  /\ stage' = Observed(root)
  /\ op' = Idle
  /\ UNCHANGED <<root, child, countVars>>

\* Mutant: what git apply could not merge is finalized like the rest.
ReplayIgnoringConflicts ==
  /\ op.kind = "reconcile"
  /\ LET a == op.agent
         files == Replayed(a)
     IN \/ Patch(a) = {} /\ Replace(a, "active", files, files)
        \/ Patch(a) # {} /\ Replace(a, "ready", files, files)
  /\ UNCHANGED mishaps

\* The delta is replayed over it: nothing to replay leaves it active, a merge
\* without conflicts is finalized, and a conflict waits for the child.
Replay ==
  /\ op.kind = "reconcile"
  /\ LET a == op.agent
         files == Replayed(a)
     IN \/ Patch(a) = {} /\ Replace(a, "active", files, files)
        \/ /\ Patch(a) # {} /\ \A p \in Patch(a) : files[p] # Markers
           /\ Replace(a, "ready", files, files)
        \/ /\ \E p \in Patch(a) : files[p] = Markers
           /\ Replace(a, "conflicted", files, op.snapshot)
  /\ UNCHANGED mishaps

\* git apply fails without a conflict, and the new worktree stays empty of it;
\* or the worktree cannot be made, and nothing stays.
ReplayFails ==
  /\ op.kind = "reconcile"
  /\ \/ /\ Patch(op.agent) # {}
        /\ Replace(op.agent, "orphaned", op.snapshot, op.snapshot)
     \/ /\ stage' = Observed(root)
        /\ op' = Idle
        /\ UNCHANGED <<root, manifest, gitVars, child, countVars, applied, finished>>
  /\ mishaps' = mishaps \union {"cut short"}

\* discard, which the user or the root confirms.
Discard(a) ==
  /\ MayTakeEffect
  /\ child[a] = "terminal"
  /\ manifest[a] \notin {"none", "active", "integrated_pending"}
  /\ manifest' = [manifest EXCEPT ![a] = "discarded"]
  /\ Removed(a)
  /\ finished' = [finished EXCEPT ![a] = {}]
  /\ applied' = applied \ {a}
  /\ UNCHANGED <<root, child, stage, op, countVars, mishaps>>

-----------------------------------------------------------------------------
(* The stage: acceptance, rollback, a new plan *)

\* An approved plan starts a stage, whatever became of the one before.
ApprovePlan ==
  /\ Quiet /\ stage.open
  /\ StartStage
  /\ UNCHANGED <<root, manifest, gitVars, child, op, writes, starts, applied, finished>>

Accept ==
  /\ Quiet /\ stage.open
  /\ op' = [Idle EXCEPT !.kind = "accept"]
  /\ UNCHANGED <<root, manifest, gitVars, child, stage, countVars, historyVars>>

\* accept_integrated: for each integrated workspace the worktree is removed,
\* then the manifest is saved.
AcceptRemove(a) ==
  /\ op.kind = "accept"
  /\ manifest[a] = "integrated_pending"
  /\ work[a] # Gone
  /\ Removed(a)
  /\ UNCHANGED <<root, manifest, child, stage, op, countVars, historyVars>>

AcceptSave(a) ==
  /\ op.kind = "accept"
  /\ manifest[a] = "integrated_pending"
  /\ work[a] = Gone
  /\ manifest' = [manifest EXCEPT ![a] = "integrated"]
  /\ finished' = [finished EXCEPT ![a] = {}]
  /\ applied' = applied \ {a}
  /\ UNCHANGED <<root, gitVars, child, stage, op, countVars, mishaps>>

FinishAccept ==
  /\ op.kind = "accept"
  /\ \A a \in Owners : manifest[a] # "integrated_pending"
  /\ stage' = NoStage
  /\ op' = Idle
  /\ UNCHANGED <<root, manifest, gitVars, child, countVars, historyVars>>

\* rollback: the files a full stage protects are as they were; those of a
\* scoped one stay.
Rollback ==
  /\ MayTakeEffect
  /\ \A a \in Owners : child[a] # "running"
  /\ root' = IF stage.full THEN stage.start ELSE root
  /\ applied' = IF stage.full THEN applied \intersect stage.before ELSE applied
  /\ stage' = Observed(root')
  /\ op' = [Idle EXCEPT !.kind = "rollback"]
  /\ mishaps' = mishaps \union {m \in Unsettled : ~stage.full}
  /\ UNCHANGED <<manifest, gitVars, child, countVars, finished>>

\* Mutant: the rollback listener is not registered.
FinishRollbackAlone ==
  /\ op.kind = "rollback"
  /\ stage' = NoStage
  /\ op' = Idle
  /\ UNCHANGED <<root, manifest, gitVars, child, countVars, historyVars>>

\* rollback_integrated: every integrated workspace is ready again.
FinishRollback ==
  /\ op.kind = "rollback"
  /\ manifest' = [a \in Owners |-> IF manifest[a] = "integrated_pending" THEN "ready"
                                   ELSE manifest[a]]
  /\ stage' = NoStage
  /\ op' = Idle
  /\ UNCHANGED <<root, gitVars, child, countVars, historyVars>>

-----------------------------------------------------------------------------
(* Crashes and other processes *)

\* What a crash in the middle of the operation in hand leaves half done.
CutOff ==
  CASE op.kind = "reconcile" -> {"cut short"}
    [] op.kind = "integrate" -> {"half integrated"}
    [] op.kind = "accept" -> {"half accepted"}
    [] op.kind = "rollback" -> {"half rolled back"}
    [] OTHER -> {}

\* mark_active_as_orphaned: every manifest of the project is looked at.
Orphaned == [a \in Owners |-> IF manifest[a] = "active" THEN "orphaned" ELSE manifest[a]]

\* The process dies and a new AgentManager starts.  The stage is that of the
\* session it resumes, if any; acceptance has deleted its checkpoint before the
\* listeners run, and a session that resumes it can do nothing more with it.
Crash ==
  /\ starts < MaxStarts
  /\ starts' = starts + 1
  /\ mishaps' = mishaps \union CutOff
  /\ manifest' = Orphaned
  /\ child' = [a \in Owners |-> "unknown"]
  /\ stage' \in {s \in {stage, NoStage} : op.kind = "accept" => ~s.open}
  /\ op' = Idle
  /\ UNCHANGED <<root, gitVars, writes, stages, applied, finished>>

\* Another process of the project starts its own AgentManager.
OtherStarts ==
  /\ starts < MaxStarts
  /\ starts' = starts + 1
  /\ manifest' = Orphaned
  /\ UNCHANGED <<root, gitVars, child, stage, op, writes, stages, historyVars>>

-----------------------------------------------------------------------------
Next ==
  \/ OpenStage \/ ApprovePlan
  \/ \E p \in Paths : Edit(p)
  \/ \E a \in Owners :
       \/ Create(a) \/ Followup(a) \/ ChildWrites(a) \/ Completes(a) \/ StopsOrFails(a)
       \/ Integrate(a) \/ Reconcile(a) \/ Discard(a)
       \/ AcceptRemove(a) \/ AcceptSave(a)
  \/ FinishIntegrate \/ Replay \/ ReplayFails
  \/ Accept \/ FinishAccept \/ Rollback \/ FinishRollback
  \/ Crash \/ OtherStarts

Spec == Init /\ [][Next]_vars
=============================================================================
