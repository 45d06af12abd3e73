# A TLA+ model of coding-kid

This directory is a verification project for `coding-kid`, a terminal coding
agent written in Python. It models the parts of `src/coding_kid/` that keep
state under concurrency, failure and restart: the control of a turn and the
rounds inside it, the conversation and its compaction, questions to the user,
child Agents, execution sessions, durable sessions, stages with their
checkpoints, isolated worktrees, and long-term memory. TLC checks each part on
small instances. For each part, TLAPS proves every safety invariant and action
property of the runs for all values of the constants, that every step of a turn
is one the abstract `TurnHistory` allows, and that the durable sessions implement
the abstract `SavedTurns`.

`PROJECT.json` lists the components, the runs, the mutants that show each
checked property can fail, the source lines every definition stands for, the
hazards and the theorems. `src/versions/`, `src/coding_kid/_runtimes/` (frozen
copies of old versions), `src/evals/` and `src/examples/` are outside its scope.

## 1. Inventory of the system

Paths are under `src/coding_kid/`. "Hard" names what makes a part difficult to
test.

### Turn control (`turn_control.py`, `tui.py`, `events.py`) - module `TurnControl`
- *State:* the active turn of the interface, the `CancellationToken` of the
  current step with its first reason, the queue of steer texts, the worker's
  local batch and flags, the conversation, the session's dirty flag.
- *Operations:* submit while idle, submit while active (steer), Esc, start of
  another activity, `/session save`; in the worker: begin a step, end it, look
  at the token, take the queue, renew the token, commit, finish.
- *Interactions:* one event loop and one worker thread, over the lock of the
  controller; the token is shared with tools, the provider and child waits.
- *Hard:* a steer or an Esc between any two steps of the worker.
- *Correct when:* a running step polls the token that Esc and steers cancel;
  texts are consumed once and in order; Esc is final; every activity ends,
  unless its worker raises outside the try blocks.

### Turn loop, context and compaction (`agent.py`, `context_manager.py`, `compaction.py`) - modules `TurnLoop`, `Conversation`, `TurnHistory`
- *State:* the transcript of real segments, the active view sent to the model,
  the compaction checkpoints; per turn the counters of steps, calls,
  recoveries and empty answers, a snapshot of the view, the round in progress.
- *Operations:* submit, begin a step, request, execute the calls of a round,
  append a round, compact (before a request, after a context-window error, on
  request), reset to a fresh view, unwind to the snapshot, retry the turn.
- *Interactions:* called by the worker of a turn and by every child; the token
  is cancelled from another thread; an approved plan asks for a fresh view.
- *Hard:* a cancellation, an error or a retry after a compaction or a fresh
  view has already replaced what the snapshot describes.
- *Correct when:* the transcript only grows and holds each effect once; nothing
  is silently missing from the view; the model always sees its task; turns end.

### Questions to the user (`permissions.py`, `workflow_runtime.py`, `tui.py`) - module `Dialogue`
- *State:* the broker's lock, pending requests, responses and session grants;
  the composer's shown request; the workflow's question and its answer.
- *Operations:* authorize, register, resolve, give up, ask or propose a plan,
  answer, drain, Esc, change of mode, follow-up of a child.
- *Interactions:* root worker, children's threads and the event loop share one
  composer and one broker.
- *Hard:* an answer for a request that is being given up; a child's request
  behind the root's; a grant made while another asker waits for the lock.
- *Correct when:* effects run on the user's own answer; a cancelled asker stops
  waiting for an answer, and for the lock unless the question of another asker
  is open.

### Child Agents (`agents.py`) - module `AgentManager`
- *State:* the retained records with status, generation, token and condition;
  a thread per run; the queue of terminal events; the manager's lock.
- *Operations:* start (with eviction), followup, stop, wait, close; in a
  thread: enter, run, finalize, finish, emit.
- *Interactions:* called by the root's tools, the plain CLI and the TUI; reads
  the worktree manager; its running count blocks rollback.
- *Hard:* two locks taken in two orders, stale threads of an earlier run,
  close() at any moment, stop before the thread has begun.
- *Correct when:* each run reports once; nothing runs uncancelled after
  close(); everything settles; close() returns.

### Execution sessions (`background_tasks.py`, `terminal.py`) - module `Background`
- *State:* per session a record with status, condition, cursor and bounded
  buffers, its process, reader and watcher; the manager's closed flag.
- *Operations:* start (with eviction), poll, wait, write, interrupt, stop,
  close; in threads: read, reap, drain, finish.
- *Interactions:* tools of every Agent and the interface use one record; the
  operating system's processes print, exit, leave descendants or resist.
- *Hard:* readers, watcher, writers and stoppers of one record; cursors behind
  the buffers; ends reported by two threads; close() while a write is blocked.
- *Correct when:* no byte is lost unreported; an end is reported once, with all
  output unless the log fails; close() ends and leaves nothing, unless a terminal
  refuses to be killed.

### Durable sessions (`sessions.py`) - modules `Sessions`, `SavedTurns`
- *State:* an append-only, hash-chained JSONL log; a row in SQLite with status,
  last record and writer lease; the handle of each process.
- *Operations:* repair at start-up, create, resume, replay, append, commit,
  retry, close, soft delete.
- *Interactions:* several processes of a project share files and database.
- *Hard:* the log and the row change in separate steps; torn lines; lease
  expiry; a retry that does not know how far the failed call got.
- *Correct when:* saved turns are in the log once; only named mishaps break the
  chain; a session that still has its lease can be saved.

### Stages, checkpoints, effect lock (`workflow_runtime.py`, `checkpoints.py`, `workflow.py`) - module `Stage`
- *State:* collaboration mode and checkpoint id, a manifest per stage (coverage,
  baseline, observed, scoped paths, uncovered effects), the effect lock, files.
- *Operations:* approve a plan, before_effect, after_effect, accept, rollback,
  change of mode, resume.
- *Interactions:* every sensitive tool call of every Agent is bracketed; the
  worktree manager listens to accept and rollback.
- *Hard:* partial failures while the lock is held, edits by the user at any
  time, children that work while the root's user decides, crash and resume.
- *Correct when:* the lock is held exactly during an effect; what an Agent did
  and could be recorded is no conflict for the next; rollback restores the stage and spares user edits.

### Isolated worktrees (`worktrees.py`) - modules `Workspaces`, `Worktrees`
- *State:* a manifest per Agent, a Git worktree and branch, the root's files.
- *Operations:* create, activate, finalize, fail, integrate, reconcile, discard,
  accept and rollback of integrations, orphaning at start-up.
- *Interactions:* AgentManager drives it from child threads and reviews; the
  stage drives it through listeners; every AgentManager of a project shares it.
- *Hard:* crashes between Git and the manifest, conflicts, manifests that
  outlive the stage they belong to.
- *Correct when:* the manifest tells where the delta is; a finished delta is
  not lost; conflicts stay out of the root.

### Long-term memory (`memory.py`) - module `Memory`
- *State:* rows of candidates with a cursor per session, the pipeline's lease,
  the memories with their status.
- *Operations:* a maintenance pass (select, read, extract, consolidate,
  promote, release), /forget.
- *Interactions:* several processes share the database; a pass reads sessions
  that others write.
- *Hard:* a lease that runs out under its owner; a session that grows, or a
  memory that is forgotten, while the provider is asked; failure between the
  extraction and the promotion.
- *Correct when:* one process maintains at a time; what is forgotten stays so;
  what sessions say reaches the memory.

### Parts that are not modelled
| Part | Source | Why |
|---|---|---|
| Patches | `patching.py` | planned: apply all files or restore all; parsing and hunks are text |
| Capabilities, plugins, MCP, skills | `capabilities.py`, `capability_config.py`, `plugins.py`, `skills.py` | little state after start-up; the MCP library owns its loop |
| Tools, sandbox | `tools.py`, `sandbox.py` | tables and I/O; their state is in other parts |
| Provider, parser, web | `provider.py`, `parser.py`, `web.py` | network I/O and conversions |
| Prompt text, launcher, rendering | `context.py`, `cli.py`, `launcher.py`, `tui.py` | text; the loops' turns, interrupts and exit are in `Stage` and `Sessions` |

## 2. Modules

| Module | Holds |
|---|---|
| `TurnControl` | one action per handler of the event loop and per lock-delimited section of `_run_turn` |
| `TurnControlProofs` | its types, tokens, Esc, and the order of texts |
| `Conversation` | the conversation and its compaction as operators on a record |
| `TurnLoop` | one action per exit, recovery or call of `_run_turn_once`, over `Conversation` |
| `TurnHistory` | what a turn promises; `TurnLoop` implements it |
| `TurnLoopProofs` | what a view shows, and that a turn's steps are steps of `TurnHistory` |
| `Dialogue` | one action per section of the broker and per handler of the composer |
| `DialogueProofs` | its types, and consent from the answer to the effect |
| `AgentManager` | one action per critical section; `lock` and `condition` are explicit where a section waits for a second lock |
| `AgentManagerProofs` | its limits, the reports of runs, and what `close()` leaves; also the workspaces of the Agents it drives (`Workspaces`, and the operations by `INSTANCE Worktrees`) |
| `Background` | one action per critical section of reader, watcher, user, `stop` and `close`, and the processes |
| `BackgroundProofs` | its limits, the bytes answers account for, and what an end has collected |
| `Sessions` | one action per durable step (append, index update, repair), per process |
| `SavedTurns` | what a session promises to the processes that share it; `Sessions` implements it |
| `SessionsProofs` | its types, the chain of the log, saved turns and retries, and that it implements `SavedTurns` |
| `Stage` | one action per step of `invoke_tool`'s bracket, acceptance and rollback |
| `StageProofs` | its types, the effect lock, the conflicts of a stage and the promises of a rollback |
| `Workspaces` | the state of the isolated workspaces, its types and what must hold of it |
| `Worktrees` | extends `Workspaces`: one action per operation, two or more where a crash can separate its effects |
| `Memory` | one action per transaction and per provider call of a pass, per process |
| `MemoryProofs` | its types with the cursors, the lease, and what is forgotten |
| `MC_*` | symmetry sets and structured constants and nothing else; other values are in the `.cfg` files |

Conventions. An action is named after the method it models. A definition whose
comment begins with "Mutant" is a plausible bug of the definition below it: no
specification uses it, it only documents what the properties catch.
Variables marked *history* are read by properties alone. `mishaps` is such a
variable: it records that a behaviour met a failure the code does not claim to
survive, so that a property can say exactly which failures it excepts.

### Correspondence and abstractions
**TurnControl.** Handlers of the event loop are atomic, as they are in Textual.
The worker's accesses to the controller are separate actions, because each
takes and releases the lock. What `run_turn` does in a step is reduced to its
end; `TurnLoop` has the inside. Refused submissions change nothing and have no
action. The model begins where `on_composer_submitted` has dealt with approvals
and slash commands; `Dialogue` has those answers.

**TurnLoop and Conversation.** A segment of the transcript is a user message or
one model round with the effects its results report; an entry of the view
carries the transcript positions it stands for, so that a summary is known by
what went into it. Token estimates decide what a compaction plan retains and
whether a summary is accepted: both are choices, limited to what the code's
rules allow (the newest user message stays, something is left to compact).
A response is a sequence of four kinds of calls. The worker polls its token
where the code does. Retries inside one request, failed-tool feedback,
repeated-response texts and web budgets change none of the modelled state.
`/compact` runs between turns, as the interface schedules it.

`TurnHistory` knows a running turn, the transcript, the effects of the round in
progress, and those whose round was never recorded. The refinement maps `busy`
to the worker being away from `idle`, `log` to the transcript, `doing` to the
round, `unheard` to the effects of rounds that an exception ended the turn in:
an approval aborted or cancelled, an approval key that cannot be made, an event
sink or observer that fails (`RoundRaises`), and Ctrl-C in the plain CLI at any
point (`KeyboardInterrupt`), during a write with its effect or without. None of
these is an unusable response, so `run_turn` tries none of them again.
Compaction, fresh views, snapshots and retries are stuttering steps of
`TurnHistory`: they may do what they like to the view, and nothing to the
history.

**Dialogue.** Root events reach the interface synchronously, a child's request
only by the 50 ms drain. An answer to a question is read and stored in two
steps, because the condition's lock is taken between them. Approval policy,
sandbox and hard checks only refuse and are left out; every modelled effect
needs approval. MCP approvals and the prompts of the plain CLI are not modelled.

**AgentManager.** Three kinds of threads: a controller (root tools and TUI run
one at a time), the closer, and one thread per run. The content of a child's
turn, its forked context and the texts of its events are left out; of the event
queue the model keeps how many terminal events each Agent emitted.

**Background.** One output stream in unit chunks; what the head, the tail and
the incremental window hold is a function of how many were appended. A write
holds the record's condition until the program reads; that is the only call
whose duration is the program's. Kills and joins are bounded in time, so a step
that waits has an outcome for "in time" and one for "too late". Process
creation, PTYs, Windows jobs and the event queue's limit are not modelled.

**Sessions.** Each line written has a number of its own (`written`), which stands
for its hash. Deletion, expiry, repair, resume, retry and close are actions of
any process. A retry is in the steps `_recover_pending` makes between its calls:
the check of the lease, the look for a torn tail, the cut at the offset found,
the reading of the records, the UPDATE. Where it finds nothing to adopt, the
check of the `commit_state` that follows belongs to the reading: nothing depends
on the time between the two. `Interrupt` is Ctrl-C of the plain CLI while a turn
is saved; it leaves the handle clean, so `close` follows as after any turn.
`mishaps` names what the chain of the log does not survive, `misled` the turns
whose retry had lost its lease when it came to the UPDATE.
Not modelled: a torn tail that is a whole record without its newline, a torn
header, the records `turn_failed` and `turn_interrupted` that replay skips,
schema migration, and `record_aborted`, which nothing calls.

`SavedTurns` knows the records as turns (0 for any other), the turns in each
process's conversation, what was confirmed, and whether its promise is void. The
refinement maps them to what `_replay` would bring back of the log, to the
memories of the handles, to `acked`, and to `mishaps # {} \/ misled # {}`. There
`Save` asks that the saver's conversation is all that is recorded, so no process saves over turns
it has not seen; `Commit` is `Take`, `Replay` is `Open`, an append is `Save` or
`Note`, the UPDATE and the retry that adopts a record are `Confirm`, a cut that
removes records and Ctrl-C before the UPDATE are `Break`, the end of a process is
`Leave`. Leases, hashes, sequence numbers, the index and the repair
are stuttering steps of it.

**Stage.** Review mode refuses what plan mode refuses, so the two are one. The
predictable paths of a tool are drawn when the effect is prepared. A rollback
restores one path per action, and may stop at any of them, one file unlinked and
not yet written. `MaxMishaps` bounds how many kinds of crashes, halts and failures
one behaviour has; the theorems are about any number. Outside edits write contents Agents never write,
so that overwriting them shows. Saving the workflow state may fail, and then a
resume finds the previous checkpoint id. The plan is accepted by the root only.
The mode in the saved record is not kept. `edited` tells who changed a file last
outside effects and rollbacks. It is `"alone"` when the user did and the bytes
are none a full stage recorded last: a rollback compares contents, so bytes that
come back to what was recorded (`Recalled`) cannot be told from no edit, and
overwriting them loses nothing the stage did not have. Files that Git ignores are
in no full stage and outside the model.

**Worktrees.** `manifest` is the `status` a workspace's manifest holds, and
`Owners` are the Agents. A path stands for a unit that merges as a whole. The stage is
reduced to what decides about integrations: whether it covers all files or
none of them, the files at its start and when last recorded. Making room for a
new child may evict a record; that only makes an Agent unknown to the process,
as a restart does, and is left to `AgentManager`. Between the change of the root
and the manifests an integration or a rollback is interrupted by a crash only.
The code may also raise there (`worktrees.py:282-289`, `workflow_runtime.py:276`);
what that leaves half done is what the crash leaves, with the Agents still known.
Not modelled: validation of
manifests and branches, capture limits, a root that changes while it is being
captured (create then refuses).

**Memory.** A session is the number of its last record, and candidates are known
by the record they were extracted up to. Taking the lease and selecting the
sessions is one step: nothing depends on the time between the two. A failure
before a provider call leaves what one after it leaves, so only the latter is
an action. `/remember`, `/recall` and usage counts touch no row a pass reads or
writes and are left out, and so are redaction and the validation of answers.
A deleted or damaged session is not selected, like one that goes on. The limit
of 256 candidates and their order by `generated_at` are not modelled.

## 3. Runs

Bounds are named constants (`Max...`) and appear in the guards.

| Run | Checks | Bounds |
|---|---|---|
| `turns` | `TypeOK`, `StepPollsLiveToken`, `FirstComeFirstServed`, `EscIsFinal`, `ActivityEnds`, `SteerIsHeard` | 4 texts, queue of 2, 1 other activity |
| `turnloop_turns` | `TypeOK`, `ViewIsWhole`, `LatestUserVisible`, `KeepsHistory` (refinement) | 2 turns of 2 attempts, 2 steps, 2 calls, 1 recovery, 1 compaction held, 1 dropped segment |
| `dialogue_answers` | `TypeOK`, `ConsentIsExplicit`, `CancelEndsTheWait` | root and 1 child, 2 keys, 2 requests |
| `agents_lifecycle` | `TypeOK`, `EveryRunReportedOnce`, `NoneRunsPastClose`, `AgentsSettle`, `CloseReturnsUnlessStopped` | 3 Agents, 2 slots, 2 records, 2 runs each and 3 in all, 1 stop |
| `background_sessions` | `TypeOK`, `EveryByteAccounted`, `EndHasAllOutput`, `EndIsReported`, `CloseEnds` | 2 sessions one after the other, 1 with a terminal, buffers of 2, outputs of 4 and 1; the log of the command may fail |
| `sessions_safety` | `TypeOK`, `ChainBreaksOnlyByMishap`, `RetryCanSave`, `SavesTurns` (refinement) | 2 processes, 3 owner tokens, 2 turns |
| `stage_safety` | `TypeOK`, `LockMatchesEffect`, `OwnEffectsNeverConflict`, `FullRollbackSparesUserEdits`, `RollbackRestoresStage` | root and 1 child, 2 files, 2 stages, 2 effects, 1 write, 1 edit, 1 kind of mishap, of a crash, Ctrl-C, a rollback that stops halfway and a record that fails |
| `worktrees_review` | `WorkspacesTypeOK`, `StatusTellsRoot`, `NoDeltaLost`, `MarkersComeUnresolved` | 2 children, 1 path with 3 contents, 2 writes, 2 stages, 1 restart |
| `memory_sync` | `TypeOK`, `OneMaintainer`, `ForgottenStaysForgotten`, `EvidenceReachesMemory` | 2 processes, 2 sessions of which one goes on once, 1 memory, 2 sessions per pass |

**Why these bounds.** A queue of 2 with 4 texts is filled, emptied and filled
again, under several tokens. In `turnloop_turns` each budget is reached and
exceeded, the second attempt begins on what the first unwound, and the second
turn on a history that was compacted, refreshed or cut short. Two requests let a
child's wait behind the root's, and two keys separate a grant from the request
it was given for. Two runs of an Agent are what a stale thread needs; with three
Agents over two records one start evicts another. An output of 4 over buffers of
2 loses bytes between head and tail and again between two polls. Three owner
tokens allow a lease to be taken, lost and taken again while an old owner acts:
each of the four mishaps happens, a turn reported as saved is cut away, and a
retry adopts another's record. One branch of `RetryCut`, the line it goes by gone
through another cut, needs a third turn; the theorems cover it.
Two stages allow a manifest of one to meet the other; two files separate a
protected path from an unprotected one. Three contents are needed for a merge
conflict (base, ours, theirs), and two children for one integration to put the
other behind the root. Two processes suffice for a lost lease, and two sessions
for a pass that fails after its first extraction; p1 works in the first session
and makes start-up passes only, p2 works elsewhere and uses `/memory sync`. Deadlock
is checked in `turnloop_turns` and `memory_sync`; in the other runs the user may
simply stop, and bounds are exhausted.

### Runs that find a violation
Each checks one statement of the documentation, a test or a message of the
program. The same property holds in the passing run once the cause is excluded.

- `agents_close_deadlock` (`CloseReturns`): a child stopped before its thread
  enters `_run` holds its condition and waits for the manager's lock, while
  `close()` holds that lock and waits for the condition. Without an earlier stop
  `close()` returns (`CloseReturnsUnlessStopped`).
- `stage_user_edit` (`RollbackSparesUserEdits`): in a scoped stage, an effect
  without predictable paths records the user's edit of a protected file as the
  Agent's; the rollback then overwrites it. Where the stage covers all files
  this cannot happen (`FullRollbackSparesUserEdits`).
- `background_stop` (`CloseEnds`): a write to a terminal whose program does not
  read keeps the record's condition, and `stop()` and `close()` wait for it
  before they kill the process. With the code itself, 20,000 characters written
  to `stty raw; sleep 60` block it. Where programs read, `CloseEnds` holds.

### Fairness
Fairness is stated for the program's own threads and never for the user.
- `TurnControl`: weak fairness of the worker. Each of its steps is bounded by
  budgets, provider timeouts and cancellation points.
- `TurnLoop`: weak fairness of the worker, in which the provider answers or
  fails and the user answers an approval; Ctrl-C is not part of it. That every turn ends then rests on
  the budgets alone, which is what `KeepsHistory` includes.
- `Dialogue`: weak fairness of the threads in the broker, of the asker that
  looks for a reply, and of the drain. Users need not answer.
- `AgentManager`: weak fairness of a started followup, a wait (it has a
  timeout), the steps of `close()` and of every thread. A child's turn ends: it
  is bounded by `MAX_CHILD_STEPS` and `MAX_CHILD_TOOL_CALLS`, and by its token;
  that the user answers its approvals, that the effect lock comes free and that a
  terminal it writes to is read is assumed here, and is what `Dialogue`, `Stage`
  and `Background` are about.
  Locks are Python locks, so a waiter gets a lock that becomes free.
- `Background`: strong fairness of the manager's threads, since users may make a
  condition busy again and again but not for ever, and weak fairness of a write
  whose program reads; a program is taken to read even while its own output waits
  for the condition the write holds. The threads are one formula: each of their steps is taken
  finitely often in the life of a session, so that fairness of the whole gives
  each its turn; the stops of terminals, which may be refused and called again
  without end, have formulas of their own. Programs need not print, read, exit or
  die.
- `Memory`: crashes stop one day and an hour passes; a process that uses
  `/memory sync` again and again (`Keen`) takes its steps, gets the lease if it
  is free again and again, and a provider asked again and again answers validly
  at last. Other processes may hang in the middle of a pass.
- `Sessions`, `Stage` and `Worktrees` state safety only.

## 4. Proofs

Each `*Proofs` module extends its component (`AgentManagerProofs` also extends
`Workspaces` and instantiates `Worktrees`). `PROJECT.json` lists the results;
this section gives the argument of each. No invariant of the runs is inductive
as it stands, but for a few types, and the strengthenings say what the code
relies on. The assumptions are those named in the modules: bounds are natural
numbers (positive where the code's own constant must be at least one),
the names for "nobody" are no Agent or process, policies and responses are among
those the code knows. They exclude no value the program can have.

**TurnControl** (`MaxPendingAssumption`, `MaxActivitiesAssumption`,
`FailureFlagsAssumption`)
- `TokenInv` is types, `OneLiveToken` and `StepPollsLiveToken` together. None is
  inductive alone: that a renewed token is the newest needs the live activity,
  and that a step's token is the live one needs to know which positions of the
  worker imply an activity. It yields `TypeCorrect`, `LiveTokenUnique` and
  `StepIsCancellable`.
- `EscFinal` adds `TakeAfterSteer`: the worker is at `take` or `renew` only after
  a steer cancelled its token first. With "the first reason stays"
  (`CancelledKeeps`) no step after an Esc takes texts.
- `FirstComeServed` follows the texts on their way, `Line`: conversation, then
  the worker's batch, then the queue. `OrderInv` says that a line is in the order
  of acceptance, that no accepted text can be accepted again, and that the
  worker's hands are empty where it takes texts. A step appends an accepted text
  to the line, moves texts inside it, or drops some of its end.

**Turn loop, conversation and history** (`LimitsAssumption`,
`ResponsesAssumption`, `MaxSummaryDropsAssumption`)
- A conversation is `Good` when what it refers to exists (`Typed`), its user
  messages are real, in order, and the newest is among them (`UsersShown`), and
  every segment since the last fresh start is in one place of the view or in one
  checkpoint (`Whole`). Each operator of `Conversation` (append, compact, fresh
  view, restore) preserves `Good`; compaction is the long one.
- `Inv` adds that the snapshot is `Good` and a prefix of the conversation, which
  makes a restore safe, that a user message exists while a turn runs, and that
  `round` is empty outside a round. It yields `ViewsAreWhole` and
  `TaskStaysVisible`.
- `TurnsKeepHistory` is the safety half of the refinement: every step maps to a
  step of `TurnHistory` or to a stutter. `HistoryIsKeptIfTurnsEnd` adds the
  liveness half under the condition that turns end, which TLC checks.
- `TurnTypes` bounds the counters; it needs at each position of the worker what
  the guards before it have left in them.

**Dialogue** (`AskersAssumption`, `MaxRequestsAssumption`)
- `ConsentInv` follows consent from the user to the effect: a stored response
  that consents was said to that request (`ResponsesOK`), a grant was said for
  the session to a request with that key (`GrantsOK`), an asker's request is for
  the call it makes (`OwnRequestOK`), so an effect that runs was consented to
  (`RunsOK`). Requests are never changed or removed (`Kept`).
  `EffectsHaveConsent` and `DialogueTypes` follow.

**AgentManager** (`LimitsAssumption`, `StopsAssumption`, `CloseAssumption`)
- `LifecycleInv`: a thread that has yet to report belongs to the record's newest
  generation and the record is active (`RunsOK`), and the events reported and the
  threads that still have to report add up to the generation (`CountsOK`).
  Eviction takes an inactive record, so no thread loses its record, and
  `RunsReportOnce` and `LifecycleTypes` follow.
- `CloseInv`: once closed nothing becomes live, and while `close()` signals, each
  live child is still on its list. `CloseLeavesNothingRunning` follows.

**Worktrees** (`ContentsAssumption`, `BoundsAssumption` of `Workspaces`; proved in
`AgentManagerProofs`). That module extends `Workspaces`, which states the
properties, and instantiates the operations as `W`, so that they do not meet
those of `AgentManager` of the same names; `SameDefinitions` says that the
instance speaks of the same things. Its theorems are about `W!Spec`, which is
the specification the run checks.
- `TypeInv` has the files, records and bounds (`WorkspaceTypes`), and `Known`: an
  Agent without a worktree has none of the rest, and a child that runs or may be
  reviewed has its worktree. `OpOK` keeps the Agent of an operation in hand out of
  every other one.
- `DeltaInv` is `StatusTellsRoot` with what an operation leaves between its two
  steps: the delta of an integration is in the root before its manifest says so
  (`InRoot`), and nothing of an earlier stage is left there (`InNoRoot`).
  `ManifestsTellTheRoot` follows.
- `MarkersInv`: markers that are not in the root, in what a rollback or a
  reconcile restores it from, or in any commit, cannot get there, but through a
  `finalize` that commits an unresolved file (`ConflictsStayOutside`).
- `KeptInv` follows a change of a completed run from the worktree to the commit in
  hand and to the root (`StillThere`); where the root lost it, its stage was
  rolled back. It rests on the two invariants above: a marker in a commit, or a
  manifest that is wrong about the root, loses a delta. `DeltasAreKept` follows.

**Background** (`BoundsAssumption`, `RetentionAssumption`,
`InteractiveAssumption`, `MayResistAssumption`)
- `TypeInv` holds the limits, `accounted = cursor`, and that an end is announced
  with the terminal status. `SinceCovers` is the lemma that an incremental
  answer and its gap cover what lies between two cursors, for any buffer sizes;
  `AnswersAccountForOutput` rests on it. That an eviction always finds an ended
  record needs `MaxRunning <= MaxRetained`, as `background_tasks.py` has it.
- `CollectInv`: only a stop and the watcher of a terminal close the read end of
  a reader that still runs; any other reader has ended because its log failed or
  because nobody was left who could print. `EndsAreComplete` follows.

**Sessions** (`BoundsAssumption`)
- `TypeInv` has the shapes, where a process may be with what in hand, and that
  an owner token is held by one process. That no process may write to a session
  without a row (`BirthOK`) is what makes the repair's insertion safe.
- `SyncOK`: before the first mishap, the process with the lease knows what the
  log ends in, with one line more at most when its own save failed halfway, and
  so does what its retry has read (`seen`). A process without the lease may be in
  the middle of a retry with anything. `NumbersOK`: until then the number of a
  line is its place, so a cut at a line removes what came after it and nothing
  else.
  `OnceOK` and `SavedOK` relate the turn in hand, its number and its line. The
  chain (`ChainHolds`) and `RetryCanSave` are proved from them together;
  `OnceOK` holds in spite of mishaps. `TurnsKeptOnce` is what they say of a state
  alone, without the steps of `SavedTurns`.
- `BasisOK`, for the refinement: before the first mishap the conversation of the
  process with the lease has exactly the turns of the log, and the one it is
  about to save (`Basis`). A resume establishes it from the log, and it lasts
  because nobody appends without the lease, nor gets it by the step of another.
  It is not claimed of a process that closes, which Ctrl-C may have brought there
  with a turn in its conversation that is in no record.
  `Refines` maps each step, and `TurnsAreSaved` is the whole implementation:
  `SavedTurns` asks for no liveness.

**Stage** (`ActorsAssumption`, `FilesAssumption`, `PoliciesAssumption`,
`BoundsAssumption`, `SwitchesAssumption`)
- `LockInv`: each step of a call moves lock and Agent together, every other step
  leaves both, and an effect that Ctrl-C cuts off is
  recorded as `halfway`. `LockHeldDuringEffects` and
  `OneEffectAtATime` follow.
- `ShapeInv` has the types (`StageTypes`); `PlaceInv` adds who can be where: an
  Agent in an effect holds the lock, and a rollback under way is of the current
  stage. The three invariants below each extend it with what may differ while
  an effect or a rollback is under way, which is where manifest and files do.
- `ConflictInv` (`EffectsNeverConflict`): outside them, what was recorded last is
  what the files hold, but for edits, and until a mishap other than `displaced`; what a rollback has restored holds its
  bytes of the start.
- `AloneInv` (`RollbackKeepsUserEdits`): bytes the user alone wrote differ from
  what any full stage recorded last, so the check before an effect or a rollback
  refuses, and past that check there are none.
- `BaseInv` (`CompleteRollback`): a baseline has the bytes of the start of the
  stage, and a file it does not cover has them still, while each effect was
  covered; an Agent under the lock works for the current stage unless that was
  replaced beside it (`displaced`).

**Memory** (`BoundsAssumption`, `CallersAssumption`)
- `TypeInv`: a row in hand was selected no later than the session has grown, and
  what was read lies between, so a cursor never passes its candidates
  (`CandidatesCoverCursor`).
- `LeaseInv`: a pass whose lease never ran out still has it
  (`MaintenanceExclusive`). `ErasedInv`: the id of an erased memory is with no
  pass about to promote (`ForgettingIsFinal`).

**What TLC alone checks.** Liveness under fairness and `ENABLED` are out of the
prover's reach: `ActivityEnds`, `SteerIsHeard`, `AgentsSettle`,
`CloseReturnsUnlessStopped`, `CancelEndsTheWait`, `EndIsReported`, `CloseEnds`,
`EvidenceReachesMemory`, and that turns end in `KeepsHistory`. So is induction
over data. No module declares a RECURSIVE operator, so every module stays open to proofs.

## 5. Divergences seen while modelling, without a run

Where a model shows one, the way to see it is given.

- *Turn control.* The interface steers whenever an activity is live, but
  compaction, memory sync, task and agent actions never take the queue, so an
  acknowledged text is dropped, although `README.md:178` says it is queued and
  the work continues; `SteerIsHeard` is stated of turns. The same happens to a text accepted
  after the worker's last look at its token. Texts already taken are dropped
  when the commit fails. Esc after a steer continues with the queue although
  `docs/ARCHITECTURE.md:155` says Esc "does not continue". An exception outside the
  worker's try blocks leaves the activity live for ever (`pc = "dead"`, which
  `ActivityEnds` excepts): while a step's request is built (`tui.py:569`), in a
  memory sync, which has no try block although taking or releasing the lease may
  raise (`tui.py:1279`; `memory.py:272`, `317`), and before the try block of a
  manual compaction (`tui.py:1313`).
- *Turn loop.* The retry after an unusable response starts with new counters,
  so one turn may use twice the budget of `docs/ARCHITECTURE.md:157`. An
  exception in the middle of a round takes the round with it: tools that already
  ran leave no result in the conversation (`lost` in `TurnLoop`, `unheard` in
  `TurnHistory`). It is an approval that is cancelled or aborted (`agent.py:500`),
  a key of an approval that cannot be made (`permissions.py:291`, `315`), or Ctrl-C
  in the plain CLI, which `dispatch` does not catch (`tools.py:126`). The request
  for a fresh context survives such a round and takes effect in a later one, of
  a later turn or of a child (`clear` is shared; `workflow_runtime.py:164`,
  `agent.py:657`). A steer or an Esc after an approved fresh context brings the
  old view back (`Restored`).
- *Questions.* An answer typed while the worker gives up a cancelled question
  stays behind and answers the next one, which may approve a plan the user never
  saw (`tui.py:1074`): `reply # NoReply => reply.to = question` is not an
  invariant of `Dialogue`. A stopped child's request on display keeps the
  composer until the user answers it (`tui.py:1021`), although by
  `README.md:178` a text submitted while work is active steers. The wait for
  `_approval_lock` looks at no token (`permissions.py:174`): an asker that is
  cancelled while another one's question is open waits until the user answers
  that question, or its asker is cancelled as well, and then still opens its own
  request before it gives up. `CancelEndsTheWait` says so.
- *Child Agents.* A followup between the two sections of `_finish` gives the
  terminal event of run n the turn number n+1. `wait()` may return before the
  terminal event is in the queue (`agents.py:684`). A launch that fails calls
  `fail()` and `discard()` before it removes the record, so an error of either
  leaves a record that never ends (`agents.py:276`). A child stopped, or a mode
  changed, while a child waits for the effect lock is not noticed after the
  wait.
- *Execution sessions.* The watcher of a terminal closes it before it joins the
  reader, so the last output may be lost; `EndHasAllOutput` excepts terminals. A
  reader whose log cannot be opened or written ends without a word
  (`background_tasks.py:577`, `587`): what comes later is not collected, the end is
  reported as if it were, and a program that fills its pipe blocks (`unlogged`).
  `terminate_tree` of a terminal catches `ProcessLookupError` alone
  (`terminal.py:477`, `484`), so a signal refused with `PermissionError`, by a
  setuid program, raises out of `stop()`, which leaves the session running, and
  out of `close()`, which stops none of the sessions that come after
  (`background_tasks.py:482`; `close = "failed"`, which `CloseEnds` excepts),
  although `docs/ARCHITECTURE.md:269` says shutdown stops all.
  The number of bytes `os.write` took is ignored. `/tasks poll` moves the cursor
  the model polls with. A session evicted takes its log with it, although
  `docs/ARCHITECTURE.md:265` keeps logs until shutdown. A stop that comes after
  the natural exit and before it is noticed reports "stopped".
- *Sessions.* The lease is checked before the append and outside a transaction,
  so two processes can be about to append to one log although
  `docs/ARCHITECTURE.md:377` says one lease prevents concurrent writers; this is
  the mishap that `ChainBreaksOnlyByMishap` excepts. A torn last line is cut off
  only by an explicit retry: an append after a resume is glued to it and the log
  becomes unreadable. A retry looks at its lease once: when the lease expires and
  another process commits before the UPDATE, which then matches no row
  (`sessions.py:510`), the retry adopts the other's record and reports its own turn
  as saved (`misled`, which `SavesTurns` excepts). The cut of a torn tail goes to an
  offset read before (`sessions.py:692`), so it may remove a record another process
  saved in between (`cut`). Ctrl-C in the plain CLI after the append of a turn
  and before the UPDATE is no `Exception` (`sessions.py:91`): the handle stays
  clean, `session_closed` follows with the same number, and the log is unreadable
  (`interrupted`). The repair of the next `SessionStore` gives a soft-deleted
  session its old status back (`sessions.py:291`).
- *Stage.* Ctrl-C in the plain CLI during a tool is caught by the loop
  (`cli.py:716`) and not by the bracket (`agent.py:544`), so the effect lock stays
  held and the next sensitive call of any Agent waits for ever. A plan approved,
  or a stage accepted, while a child is in an effect (`workflow_runtime.py:164`,
  `287`) starts a stage that does not protect the child's files;
  `RollbackRestoresStage` excepts such stages (`displaced`). A `record_effect`
  that raises, because a file cannot be read or the manifest not be written, is
  reported with the tool's result as "Change tracking failed" (`agent.py:546`) and
  nothing else follows: the manifest keeps what it recorded before, so the
  Agent's own change is a conflict for every later effect and for the rollback
  (`untracked`, which `OwnEffectsNeverConflict` excepts).
- *Worktrees.* `finalize` stages everything before it asks Git for unmerged
  paths; a child that leaves its conflict unresolved is offered as ready, and the
  markers reach the root, although `docs/ARCHITECTURE.md:211` says conflicts
  remain private. This is the mishap `unresolved`; the two facts about Git it
  rests on were confirmed with the real `WorktreeManager`. Integrating an
  orphan applies only its commits; acceptance then deletes the uncommitted rest,
  and reconcile drops it at once (`uncommitted`). A reconcile whose patch is
  empty leaves the manifest `active` without a child until the next start. An
  integration survives a new plan and a scoped rollback, and is then set `ready`
  although the root keeps its delta (`earlier`). `docs/ARCHITECTURE.md:205` says
  integrate verifies the root's fingerprint; the code runs `git apply --check`.
  A crash after the root was rolled back and before the manifests are written
  leaves `integrated_pending`, and the next acceptance deletes the delta
  (`half rolled back`). A second process orphans the workspaces of running
  children, which then fail at their end. After a restart the Agents are
  unknown, so their workspaces cannot be reviewed.
- *Memory.* Candidates whose consolidation failed wait for the next extraction
  or a forced pass (`memory.py:310`), although `docs/ARCHITECTURE.md:399` says
  failures remain retryable: with `p2 :> {FALSE}` in `ForcesUsed` TLC finds
  `EvidenceReachesMemory` violated. Nothing renews the lease during provider
  calls, so two passes may overlap (`docs/ARCHITECTURE.md:398`) and the later
  promotion may be built on older candidates; `OneMaintainer` says when. A
  memory forgotten while a consolidation is in flight comes back if the model
  keeps its id, and one forgotten at rest may be made again under a new id,
  since its candidates stay. A session whose extraction always fails is first in
  every pass and keeps the others from it. Candidates of deleted sessions are
  still consolidated.

## 6. Plan

Next modules, in this order:
1. A composition of `AgentManager`'s tokens with `Stage`'s lock: effects after a
   stop or a change of mode, and a stop that holds the lock while it waits for a
   child that waits for the lock.
2. `PatchApply`: apply all files or restore all, when a write and a restore fail.
3. The event queue of `background_tasks.py` with its limit.

Abstract specifications worth stating: a stage as "files at the start, changes
since, all or nothing" implemented by `Stage` in the absence of mishaps; one
cancellable activity implemented by `TurnControl`.

Theorems worth proving next: the step half of each refinement above, once
stated, and the invariants of the composition in 1.

## 7. Running it

    tlc -workers 2 -config TurnControl_turns.cfg MC_TurnControl.tla
    tlapm TurnControlProofs.tla          # and the other *Proofs modules

Each configuration belongs to the `MC_` module with its prefix. The largest
run, `stage_safety`, has about 3.4 million distinct states.
