---------------------------- MODULE TurnControl ----------------------------
(***************************************************************************)
(* One foreground activity of the full-screen interface: the               *)
(* TurnController (turn_control.py), the event-loop handlers of            *)
(* CodingKidApp that drive it (tui.py) and the worker thread that runs     *)
(* _run_turn.  Handlers run on one event loop and are atomic with respect  *)
(* to each other; the worker interleaves with them at every lock           *)
(* acquisition of the controller.                                          *)
(*                                                                         *)
(* A turn runs steps.  A text submitted while the activity is live is      *)
(* queued and cancels the token of the current step ("steered"); Esc       *)
(* cancels it with "interrupted".  After a step the worker looks at its    *)
(* token, and after a steer takes the queue and goes on under a new token. *)
(*                                                                         *)
(* The model starts where on_composer_submitted has dealt with approvals,  *)
(* plan questions and read-only slash commands: none of them touches this  *)
(* state.  What a step does (run_turn) is one visible outcome.             *)
(***************************************************************************)
EXTENDS Integers, Sequences, SequencesExt

CONSTANTS
  Texts,            \* the texts the user may submit, each at most once
  MaxPending,       \* TurnLimits.max_pending_inputs (8)
  MaxActivities,    \* bound: how many activities other than turns are started
  CommitsMayFail,   \* may a durable commit fail (SQLite, disk, lost lease)?
  WorkersMayRaise   \* may a worker raise outside its try block: while a step's
                    \* request or a compaction is prepared, or in a memory sync?

ASSUME MaxPendingAssumption == MaxPending \in Nat \ {0}
ASSUME MaxActivitiesAssumption == MaxActivities \in Nat
ASSUME FailureFlagsAssumption == {CommitsMayFail, WorkersMayRaise} \subseteq BOOLEAN

VARIABLES
  active,        \* CodingKidApp.active_turn
  reasons,       \* the reason of every CancellationToken created, in order
  token,         \* TurnController._token (an index of reasons), 0 = None;
                 \* CodingKidApp.cancellation_token is assigned with it
  pending,       \* TurnController._pending
  pc,            \* where the worker thread is
  stepToken,     \* the token the worker's current step polls
  batch,         \* _run_turn's pending_texts
  shouldContinue,\* _run_turn's should_continue
  conversation,  \* the user texts appended to the conversation
  dirty,         \* session_handle.dirty
  unsent,        \* texts not submitted yet
  acknowledged,  \* texts shown as accepted (a new turn, or InputQueued), in order
  esc,           \* history: was Esc pressed in this activity?
  activities     \* how many non-turn activities were started

uiVars == <<unsent, acknowledged, esc, activities>>
workVars == <<stepToken, batch, shouldContinue, conversation>>
vars == <<active, reasons, token, pending, pc, stepToken, batch, shouldContinue,
          conversation, dirty, unsent, acknowledged, esc, activities>>

Reasons == {"none", "steered", "interrupted"}
WorkerPoints == {"idle", "start", "step", "check", "take", "renew", "commit",
                 "finish", "activity", "dead"}

NewToken == /\ token' = Len(reasons) + 1
            /\ reasons' = Append(reasons, "none")

\* Mutant: the last reason wins.
CancelledOverwrites(r, t, reason) == [r EXCEPT ![t] = reason]

\* CancellationToken.cancel: the first reason stays.
Cancelled(r, t, reason) == IF r[t] = "none" THEN [r EXCEPT ![t] = reason] ELSE r

Init ==
  /\ active = FALSE
  /\ reasons = << >>
  /\ token = 0
  /\ pending = << >>
  /\ pc = "idle"
  /\ stepToken = 0
  /\ batch = << >>
  /\ shouldContinue = FALSE
  /\ conversation = << >>
  /\ dirty = FALSE
  /\ unsent = Texts
  /\ acknowledged = << >>
  /\ esc = FALSE
  /\ activities = 0

(***************************************************************************)
(* The event loop.                                                         *)
(***************************************************************************)

\* _begin_activity
BeginActivity ==
  /\ token = 0
  /\ active' = TRUE
  /\ esc' = FALSE
  /\ NewToken

\* on_composer_submitted while idle: a turn starts on the submitted text.
SubmitIdle(text) ==
  /\ text \in unsent
  /\ ~dirty
  /\ ~active
  /\ BeginActivity
  /\ batch' = <<text>>
  /\ pc' = "start"
  /\ unsent' = unsent \ {text}
  /\ acknowledged' = Append(acknowledged, text)
  /\ UNCHANGED <<pending, stepToken, shouldContinue, conversation, dirty, activities>>

\* Mutant: no queue limit.
SubmitSteerUnlimited(text) ==
  /\ text \in unsent
  /\ ~dirty
  /\ active
  /\ pending' = Append(pending, text)
  /\ reasons' = Cancelled(reasons, token, "steered")
  /\ unsent' = unsent \ {text}
  /\ acknowledged' = Append(acknowledged, text)
  /\ UNCHANGED <<active, token, pc, workVars, dirty, esc, activities>>

\* on_composer_submitted while an activity is live: TurnController.steer.
SubmitSteer(text) ==
  /\ text \in unsent
  /\ ~dirty
  /\ active
  /\ Len(pending) < MaxPending
  /\ pending' = Append(pending, text)
  /\ reasons' = Cancelled(reasons, token, "steered")
  /\ unsent' = unsent \ {text}
  /\ acknowledged' = Append(acknowledged, text)
  /\ UNCHANGED <<active, token, pc, workVars, dirty, esc, activities>>

\* A steer beyond the limit goes back to the composer, and a submission on a
\* dirty session is refused: neither changes this state.

\* action_interrupt (Esc)
Interrupt ==
  /\ active
  /\ reasons' = Cancelled(reasons, token, "interrupted")
  /\ esc' = TRUE
  /\ UNCHANGED <<active, token, pending, pc, workVars, dirty, unsent, acknowledged,
                 activities>>

\* Manual compaction, a memory sync, a task action or an agent action.
StartActivity ==
  /\ ~active
  /\ activities < MaxActivities
  /\ BeginActivity
  /\ pc' = "activity"
  /\ activities' = activities + 1
  /\ UNCHANGED <<pending, workVars, dirty, unsent, acknowledged>>

\* "/session save" (_retry_session_save) succeeds.
RetrySave ==
  /\ dirty
  /\ dirty' = FALSE
  /\ UNCHANGED <<active, reasons, token, pending, pc, workVars, uiVars>>

(***************************************************************************)
(* The worker thread: _run_turn.                                           *)
(***************************************************************************)

\* Mutant: the token is read once, before the loop.
BeginStepOldToken ==
  /\ pc = "start"
  /\ stepToken' = IF conversation = << >> THEN token ELSE stepToken
  /\ conversation' = conversation \o batch
  /\ batch' = << >>
  /\ shouldContinue' = FALSE
  /\ pc' = "step"
  /\ UNCHANGED <<active, reasons, token, pending, dirty, uiVars>>

\* The pending texts enter the conversation and a step starts on the token.
BeginStep ==
  /\ pc = "start"
  /\ stepToken' = token
  /\ conversation' = conversation \o batch
  /\ batch' = << >>
  /\ shouldContinue' = FALSE
  /\ pc' = "step"
  /\ UNCHANGED <<active, reasons, token, pending, dirty, uiVars>>

\* _run_controlled_step raises before its try block: no _finish_activity.
PrepareRaises ==
  /\ WorkersMayRaise
  /\ pc = "step"
  /\ pc' = "dead"
  /\ UNCHANGED <<active, reasons, token, pending, workVars, dirty, uiVars>>

\* The step completed, failed, or stopped at a cancellation boundary.  A plan
\* it got approved is committed in between (_commit_workflow).
EndStep ==
  /\ pc = "step"
  /\ pc' = "check"
  /\ dirty' \in {dirty, dirty \/ CommitsMayFail}
  /\ UNCHANGED <<active, reasons, token, pending, workVars, uiVars>>

\* token.cancelled and token.reason, read without the controller's lock.
CheckToken ==
  /\ pc = "check"
  /\ pc' = IF reasons[stepToken] = "steered" THEN "take" ELSE "commit"
  /\ UNCHANGED <<active, reasons, token, pending, workVars, dirty, uiVars>>

\* Mutant: the queue is read but not cleared.
TakePendingKeepsQueue ==
  /\ pc = "take"
  /\ batch' = pending
  /\ pc' = IF pending = << >> THEN "commit" ELSE "renew"
  /\ UNCHANGED <<active, reasons, token, pending, stepToken, shouldContinue,
                 conversation, dirty, uiVars>>

\* take_pending, then an InputConsumed event for every text.
TakePending ==
  /\ pc = "take"
  /\ batch' = pending
  /\ pending' = << >>
  /\ pc' = IF pending = << >> THEN "commit" ELSE "renew"
  /\ UNCHANGED <<active, reasons, token, stepToken, shouldContinue, conversation,
                 dirty, uiVars>>

\* Mutant: should_continue is not set.
RenewTokenStops ==
  /\ pc = "renew"
  /\ NewToken
  /\ pc' = "commit"
  /\ UNCHANGED <<active, pending, stepToken, batch, shouldContinue, conversation,
                 dirty, uiVars>>

\* next_step_token
RenewToken ==
  /\ pc = "renew"
  /\ NewToken
  /\ shouldContinue' = TRUE
  /\ pc' = "commit"
  /\ UNCHANGED <<active, pending, stepToken, batch, conversation, dirty, uiVars>>

\* Mutant: the commit's exception escapes from _run_turn.
CommitStateEscapes ==
  /\ pc = "commit"
  /\ \/ /\ ~dirty
        /\ pc' = IF shouldContinue THEN "start" ELSE "finish"
        /\ UNCHANGED <<shouldContinue, dirty>>
     \/ /\ dirty \/ CommitsMayFail
        /\ pc' = "gone"
        /\ shouldContinue' = FALSE
        /\ dirty' = TRUE
  /\ UNCHANGED <<active, reasons, token, pending, stepToken, batch, conversation,
                 uiVars>>

\* session_handle.commit_state: refused on a dirty handle, which stays dirty.
CommitState ==
  /\ pc = "commit"
  /\ \/ /\ ~dirty
        /\ pc' = IF shouldContinue THEN "start" ELSE "finish"
        /\ UNCHANGED <<shouldContinue, dirty>>
     \/ /\ dirty \/ CommitsMayFail
        /\ pc' = "finish"
        /\ shouldContinue' = FALSE
        /\ dirty' = TRUE
  /\ UNCHANGED <<active, reasons, token, pending, stepToken, batch, conversation,
                 uiVars>>

\* The other activities never look at the queue; compaction commits at its end.
EndActivity ==
  /\ pc = "activity"
  /\ pc' = "finish"
  /\ dirty' \in {dirty, dirty \/ CommitsMayFail}
  /\ UNCHANGED <<active, reasons, token, pending, workVars, uiVars>>

\* An activity raises where nothing catches it: MemoryManager.sync in
\* _run_memory_sync, which has no try block, or _run_manual_compaction before
\* its own.  No _finish_activity.
ActivityRaises ==
  /\ WorkersMayRaise
  /\ pc = "activity"
  /\ pc' = "dead"
  /\ UNCHANGED <<active, reasons, token, pending, workVars, dirty, uiVars>>

\* _finish_activity on the event loop, with TurnController.finish.
FinishActivity ==
  /\ pc = "finish"
  /\ pc' = "idle"
  /\ active' = FALSE
  /\ token' = 0
  /\ pending' = << >>
  /\ batch' = << >>
  /\ UNCHANGED <<reasons, stepToken, shouldContinue, conversation, dirty, uiVars>>

(***************************************************************************)
(* Behaviours.  The user is free to do nothing; the worker is a thread and *)
(* every step ends (budgets, provider timeouts, cancellation), so each of  *)
(* its actions is weakly fair.                                             *)
(***************************************************************************)
User == \/ \E text \in Texts : SubmitIdle(text) \/ SubmitSteer(text)
        \/ Interrupt
        \/ StartActivity
        \/ RetrySave

Worker == \/ BeginStep
          \/ PrepareRaises
          \/ EndStep
          \/ CheckToken
          \/ TakePending
          \/ RenewToken
          \/ CommitState
          \/ EndActivity
          \/ ActivityRaises
          \/ FinishActivity

Next == User \/ Worker

Spec == Init /\ [][Next]_vars

FairSpec == Spec /\ WF_vars(Worker)

-----------------------------------------------------------------------------
(***************************************************************************)
(* Properties.                                                             *)
(***************************************************************************)

\* Types; the steer queue never exceeds its limit.
TypeOK ==
  /\ active \in BOOLEAN
  /\ reasons \in Seq(Reasons)
  /\ token \in 0 .. Len(reasons)
  /\ pending \in Seq(Texts) /\ Len(pending) <= MaxPending
  /\ pc \in WorkerPoints
  /\ stepToken \in 0 .. Len(reasons)
  /\ batch \in Seq(Texts)
  /\ shouldContinue \in BOOLEAN
  /\ conversation \in Seq(Texts)
  /\ dirty \in BOOLEAN
  /\ unsent \subseteq Texts
  /\ acknowledged \in Seq(Texts)
  /\ esc \in BOOLEAN
  /\ activities \in 0 .. MaxActivities

\* The event loop's idea of a live activity, the controller's token and the
\* worker agree: begin() never meets a live turn, next_step_token() and steer()
\* never meet a missing one, and the live token is the newest.
OneLiveToken ==
  /\ active <=> token # 0
  /\ active <=> pc # "idle"
  /\ active => token = Len(reasons)

\* Until the worker renews its token, the step it runs or has just run polls the
\* token that steer() and interrupt() cancel: neither can cancel a token nobody
\* looks at while the step runs.
StepPollsLiveToken ==
  pc \in {"step", "check", "take", "renew"} => stepToken = token

\* Accepted texts reach the conversation at most once and in the order in which
\* the interface accepted them, whatever the worker was doing when they came.
FirstComeFirstServed ==
  LET line == conversation \o batch \o pending
      Accepted(text) == CHOOSE k \in 1 .. Len(acknowledged) : acknowledged[k] = text
  IN \A i, j \in 1 .. Len(line) : i < j => Accepted(line[i]) < Accepted(line[j])

\* An Esc that reached the token before any steer is final: no later steer turns
\* it into one, and the turn takes nothing more from the queue.
EscIsFinal ==
  [][(active /\ reasons[token] = "interrupted")
       => /\ reasons'[token] = "interrupted"
          /\ batch' \in {batch, << >>}]_vars

\* Every activity ends, whatever commits fail: the interface becomes idle again,
\* unless the worker raised outside its try blocks.  That ends the thread without
\* _finish_activity, and the interface stays busy for good.
ActivityEnds == active ~> (~active \/ pc = "dead")

\* A text queued while a step runs, before any Esc, reaches the conversation,
\* unless a durable commit fails on the way or the worker ends that way.
SteerIsHeard ==
  \A text \in Texts :
    (/\ pc = "step"
     /\ reasons[stepToken] = "steered"
     /\ text \in ToSet(pending)
     /\ ~dirty) ~> (text \in ToSet(conversation) \/ dirty \/ pc = "dead")

=============================================================================
