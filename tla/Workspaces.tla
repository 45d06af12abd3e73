----------------------------- MODULE Workspaces -----------------------------
(***************************************************************************)
(* The isolated workspaces of child Agents (worktrees.py): their state, and*)
(* what has to hold of it.  Module Worktrees extends it with the           *)
(* operations.                                                             *)
(***************************************************************************)
EXTENDS Integers

CONSTANTS
  Owners,        \* Agents that may own a workspace; none is drawn twice
  Paths,         \* files of the project
  Contents,      \* what a file may hold
  First,         \* what every file holds at first
  Markers,       \* what git leaves in a file whose merge conflicts
  Gone,          \* there is no such worktree
  MaxWrites,     \* bound: files written, by children and in the root
  MaxStages,     \* bound: stages opened
  MaxStarts      \* bound: AgentManagers started after the first

ASSUME ContentsAssumption ==
  First \in Contents /\ Markers \notin Contents /\ Gone \notin [Paths -> Contents \union {Markers}]
ASSUME BoundsAssumption == {MaxWrites, MaxStages, MaxStarts} \subseteq Nat

VARIABLES
  root,      \* the files of the project
  manifest,  \* the status in the manifest of each workspace; "none" without one
  work,      \* the files in its worktree
  baseline,  \* the files in baseline_commit
  head,      \* the files in the commit HEAD of its branch
  child,     \* the Agent's record: not known to this process, running, terminal
  stage,     \* the implementation stage
  op,        \* the operation in hand, its Agent, and the root it captured
  writes, stages, starts,  \* the bounded counters
  applied,   \* history: Agents whose delta was put into the root, and is
             \* neither undone nor accepted
  finished,  \* history: what an Agent's completed runs changed and nobody
             \* has accepted or discarded yet: pairs of a path and its content
  mishaps    \* history: what went wrong, as named below

Files == [Paths -> Contents \union {Markers}]

Kept == {"active", "ready", "conflicted", "orphaned"}
ManifestStatuses == Kept \union {"none", "integrated_pending", "integrated", "discarded"}

\* cut short: a crash or a failure after a worktree was removed and before its
\* delta was replayed; half integrated, accepted, rolled back: a crash before
\* the manifests were written; uncommitted: an operation on an orphan with
\* changes that are in no commit; unresolved: a run that completed with markers
\* left; earlier: an integration that its stage's end did not settle.
Mishaps == {"cut short", "half integrated", "half accepted", "half rolled back",
            "uncommitted", "unresolved", "earlier"}

-----------------------------------------------------------------------------
(* Properties *)

\* Types.
WorkspacesTypeOK ==
  /\ root \in Files
  /\ manifest \in [Owners -> ManifestStatuses]
  /\ \A files \in {work, baseline, head} : files \in [Owners -> Files \union {Gone}]
  /\ child \in [Owners -> {"unknown", "running", "terminal"}]
  /\ stage \in [open : BOOLEAN, full : BOOLEAN, start : Files, observed : Files,
                before : SUBSET Owners]
  /\ op \in [kind : {"idle", "integrate", "reconcile", "accept", "rollback"},
             agent : Owners \union {"none"}, snapshot : Files]
  /\ writes \in 0..MaxWrites /\ stages \in 0..MaxStages
  /\ starts \in 0..MaxStarts
  /\ applied \subseteq Owners
  /\ finished \in [Owners -> SUBSET (Paths \X (Contents \union {Markers}))]
  /\ mishaps \subseteq Mishaps

Without(bad) == mishaps \intersect bad = {}

\* The manifests tell where a delta is: it is in the root while its workspace
\* waits for the stage's acceptance, and out of it while it can be integrated
\* (integrate and rollback_integrated, each with its checkpoint).
StatusTellsRoot ==
  \A a \in Owners :
    /\ manifest[a] = "integrated_pending" /\ op.kind # "rollback" /\ Without({"half rolled back"})
         => a \in applied
    /\ manifest[a] = "ready" /\ op.kind # "integrate" /\ Without({"half integrated", "earlier"})
         => a \notin applied

\* What a completed run changed stays in its worktree, or in a conflict the
\* child has to resolve, or in the root, until it is accepted or discarded;
\* reconcile holds it in memory meanwhile.
NoDeltaLost ==
  Without({"cut short", "uncommitted", "unresolved", "half rolled back"}) =>
    \A a \in Owners : \A change \in finished[a] :
      \/ a \in applied
      \/ op.kind = "reconcile" /\ op.agent = a /\ head[a][change[1]] = change[2]
      \/ work[a] # Gone /\ work[a][change[1]] \in {change[2], Markers}

\* Only a child that completes without resolving its conflicts brings their
\* markers into the root (reconcile and finalize).
MarkersComeUnresolved ==
  Without({"unresolved"}) => \A p \in Paths : root[p] # Markers

=============================================================================
