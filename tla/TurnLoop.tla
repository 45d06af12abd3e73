------------------------------- MODULE TurnLoop -------------------------------
(***************************************************************************)
(* One turn of an Agent (agent.py: run_turn, _run_turn_once): steps of one *)
(* model request and the tool calls of its answer, under the budgets and   *)
(* recoveries that keep a turn finite, with compaction before a request    *)
(* and after a context-window error, and a conversation that has to come   *)
(* out whole on every path.  Turns follow each other on one conversation,  *)
(* as the interface runs them; /mode and /compact happen between turns.    *)
(*                                                                         *)
(* The provider's answers, the user's and the elapsed time are choices.    *)
(* Another thread cancels the token at any moment; the worker looks at it  *)
(* where the code does.  A response is a sequence of calls: "read" for the *)
(* tools that run in a parallel batch, "write" for those with an effect,   *)
(* "free" for those outside the budget (todo, skill), "plan".  A batch and *)
(* the look at the token that follows it are one step.  Retries inside one *)
(* request (_provider_request_with_retry) are part of the request.         *)
(***************************************************************************)
EXTENDS Conversation

CONSTANTS
  Responses,              \* the sequences of calls an answer may have
  MaxSteps,               \* TurnLimits.max_steps
  MaxToolCalls,           \* TurnLimits.max_tool_calls
  MaxRecoveries,          \* TurnLimits.max_recoveries
  MaxOutputRecoveries,    \* MAX_OUTPUT_LIMIT_RECOVERIES
  MaxEmptyResponses,      \* MAX_EMPTY_RESPONSES
  MaxCompactionFailures,  \* MAX_CONSECUTIVE_AUTO_COMPACTION_FAILURES
  MaxAttempts,            \* the attempts of run_turn
  MaxTurns,               \* bound: turns
  MaxHistory,             \* bound: segments since a fresh start when a turn begins
  MaxCompactions          \* bound: checkpoints held at a time

ASSUME LimitsAssumption ==
  /\ {MaxToolCalls, MaxRecoveries, MaxOutputRecoveries, MaxTurns, MaxHistory, MaxCompactions} \subseteq Nat
  /\ {MaxSteps, MaxEmptyResponses, MaxCompactionFailures, MaxAttempts} \subseteq Nat \ {0}

ASSUME ResponsesAssumption == Responses \subseteq Seq({"read", "write", "free", "plan"}) \ {<<>>}

VARIABLES
  conv,      \* manager.conversation
  failures,  \* consecutive_auto_compaction_failures
  planning,  \* workflow.mode is PLAN
  clear,     \* _clear_context_requested
  cancelled, \* the turn's token is cancelled
  pc,        \* where the worker is
  snapshot,  \* turn_snapshot.conversation
  attempt,   \* of run_turn
  turn,      \* the local counters of _run_turn_once
  left,      \* calls of this round still to execute
  round,     \* effects this round has had
  effects,   \* history: how many effects there were
  lost,      \* history: effects of rounds an exception cut short
  turns      \* history: how many turns there were

control == <<pc, turn, snapshot, attempt, cancelled>>
shared  == <<planning, clear>>
history == <<effects, lost, turns>>
vars == <<conv, failures, shared, control, left, round, history>>

Kinds  == {"read", "write", "free", "plan"}
Triggers == {"auto", "recovery", "manual"}   \* of the compaction it is in
Points == {"idle", "top", "request", "round", "backoff"} \union Triggers

NewTurn == [step |-> 0, calls |-> 0, recoveries |-> 0, outputs |-> 0, empties |-> 0,
            reactive |-> FALSE, asked |-> FALSE, stalled |-> FALSE]

Init ==
  /\ conv = EmptyConversation
  /\ failures = 0
  /\ planning \in BOOLEAN
  /\ clear = FALSE
  /\ cancelled = FALSE
  /\ pc = "idle"
  /\ snapshot = EmptyConversation
  /\ attempt = 0
  /\ turn = NewTurn
  /\ left = <<>>
  /\ round = {}
  /\ effects = 0
  /\ lost = {}
  /\ turns = 0

(* Within an attempt, and out of run_turn, its local variables gone. *)
Goto(there, locals) ==
  /\ pc' = there /\ turn' = locals
  /\ UNCHANGED <<snapshot, attempt, cancelled>>

Return ==
  /\ pc' = "idle" /\ turn' = NewTurn /\ snapshot' = EmptyConversation
  /\ attempt' = 0 /\ cancelled' = FALSE

\* Mutant: one failure more.
DisabledLate == failures > MaxCompactionFailures

Disabled == failures >= MaxCompactionFailures   \* proactive_compaction_disabled

NoRound == left' = <<>> /\ round' = {}

(* _controlled_incomplete_result: one more segment, and a normal return.   *)
Incomplete(c) == conv' = AppendRound(c, {}) /\ Return

(* The handlers of TurnCancelled and of every other exception. *)
Unwind(c) == conv' = Restored(c, snapshot) /\ NoRound

(* record_recovery: on to the next step, or out of the budget. *)
Recover(c, locals) ==
  IF turn.recoveries + 1 > MaxRecoveries THEN Incomplete(c)
  ELSE conv' = c /\ Goto("top", [locals EXCEPT !.recoveries = @ + 1])

---------------------------------------------------------------------------
(* Between turns.                                                          *)

BeginAttempt(c, n) ==
  /\ pc' = "top" /\ turn' = NewTurn
  /\ snapshot' = c /\ attempt' = n
  /\ UNCHANGED cancelled

Users == {i \in DOMAIN conv.transcript : conv.transcript[i].kind = "user"}

SubmitText ==
  /\ pc = "idle" /\ turns < MaxTurns /\ Len(conv.transcript) - conv.start < MaxHistory
  /\ conv' = AppendUser(conv)
  /\ BeginAttempt(conv', 1)
  /\ turns' = turns + 1
  /\ UNCHANGED <<failures, shared, left, round, effects, lost>>

ChangeMode ==
  /\ pc = "idle"
  /\ planning' = ~planning
  /\ UNCHANGED <<conv, failures, clear, control, left, round, history>>

MayCompact == HasCompactableHistory(conv) /\ Len(conv.checkpoints) < MaxCompactions

StartManualCompaction ==
  /\ pc = "idle" /\ Users # {} /\ MayCompact
  /\ Goto("manual", turn)
  /\ UNCHANGED <<conv, failures, shared, left, round, history>>

Cancel ==
  /\ pc # "idle" /\ ~cancelled
  /\ cancelled' = TRUE
  /\ UNCHANGED <<conv, failures, shared, pc, turn, snapshot, attempt, left, round,
                 history>>

---------------------------------------------------------------------------
(* The top of a step.                                                      *)

NextStep ==
  /\ pc = "top" /\ turn.step < MaxSteps /\ ~cancelled
  /\ LET next == [turn EXCEPT !.step = @ + 1] IN
     \/ Goto("request", next)
     \/ ~Disabled /\ MayCompact /\ Goto("auto", next)
  /\ UNCHANGED <<conv, failures, shared, left, round, history>>

(* The step budget is used up, or the time is. *)
StopAtBoundary ==
  /\ pc = "top"
  /\ Incomplete(conv)
  /\ UNCHANGED <<failures, shared, left, round, history>>

Interrupt ==
  /\ pc \in {"top", "request"} \union Triggers /\ cancelled
  /\ IF pc = "manual" THEN UNCHANGED <<conv, left, round>>
     ELSE Unwind(conv)
  /\ Return
  /\ UNCHANGED <<failures, shared, history>>

---------------------------------------------------------------------------
(* compact_context.                                                        *)

CompactionInstalls ==
  /\ pc \in Triggers /\ ~cancelled
  /\ failures' = 0
  /\ \E retained \in Plans(conv), d \in 0 .. MaxSummaryDrops :
       LET compacted == Compacted(conv, retained, d) IN
       \/ pc = "recovery" /\ Recover(compacted, [turn EXCEPT !.reactive = TRUE])
       \/ pc = "auto" /\ conv' = compacted /\ Goto("request", turn)
       \/ pc = "manual" /\ conv' = compacted /\ Return
  /\ UNCHANGED <<shared, left, round, history>>

(* No plan, no summary, or one that does not help.  Before a request this  *)
(* is counted and the request goes out; after a context-window error it is *)
(* what the turn fails with (FailRequest).                                 *)
CompactionFails ==
  /\ \/ pc = "auto" /\ failures' = failures + 1 /\ Goto("request", turn)
     \/ pc = "manual" /\ Return /\ UNCHANGED failures
  /\ UNCHANGED <<conv, shared, left, round, history>>

---------------------------------------------------------------------------
(* The request.                                                            *)

ContextOverflow ==
  /\ pc = "request"
  /\ ~turn.reactive /\ MayCompact
  /\ Goto("recovery", turn)
  /\ UNCHANGED <<conv, failures, shared, left, round, history>>

OutputLimit ==
  /\ pc = "request"
  /\ turn.outputs < MaxOutputRecoveries
  /\ Recover(conv, [turn EXCEPT !.outputs = @ + 1])
  /\ UNCHANGED <<failures, shared, left, round, history>>

(* Any other failure ends the turn, except an unusable response on the     *)
(* first attempt.                                                          *)
FailRequest ==
  /\ \/ pc = "request"
     \/ pc = "recovery"
  /\ Unwind(conv)
  /\ \/ Return
     \/ attempt < MaxAttempts /\ Goto("backoff", turn)
  /\ UNCHANGED <<failures, shared, history>>

Retry ==
  /\ pc = "backoff"
  /\ IF cancelled THEN Return ELSE BeginAttempt(conv, attempt + 1)
  /\ UNCHANGED <<conv, failures, shared, left, round, history>>

(* A text.  Once per turn it is sent back when a todo is in progress.      *)
Text ==
  /\ pc = "request" /\ ~cancelled
  /\ conv' = AppendRound(conv, {})
  /\ \/ Return
     \/ ~turn.asked /\ Goto("top", [turn EXCEPT !.asked = TRUE])
  /\ UNCHANGED <<failures, shared, left, round, history>>

Empty ==
  /\ pc = "request" /\ ~cancelled
  /\ LET c == AppendRound(conv, {}) IN
     IF turn.empties + 1 >= MaxEmptyResponses THEN Incomplete(c)
     ELSE Recover(c, [turn EXCEPT !.empties = @ + 1])
  /\ UNCHANGED <<failures, shared, left, round, history>>

(* The first calls the budget allows, and the free ones. *)
Admitted(calls) ==
  LET counted(i) == Cardinality({j \in 1 .. i : calls[j] # "free"})
      which == {i \in DOMAIN calls :
                  calls[i] = "free" \/ turn.calls + counted(i) <= MaxToolCalls}
  IN [k \in 1 .. Cardinality(which) |-> calls[Nth(which, k)]]

ToolCalls(calls) ==
  /\ pc = "request" /\ ~cancelled
  /\ IF turn.stalled THEN Incomplete(AppendRound(conv, {})) /\ UNCHANGED left
     ELSE LET admitted == Admitted(calls)
              counted == Cardinality({i \in DOMAIN admitted : admitted[i] # "free"}) IN
          /\ left' = admitted
          /\ Goto("round", [turn EXCEPT !.empties = 0, !.calls = @ + counted])
          /\ UNCHANGED conv
  /\ UNCHANGED <<failures, shared, round, history>>

---------------------------------------------------------------------------
(* The calls of a round, in order.  After each of them a cancelled turn    *)
(* records what it has and unwinds.                                        *)

\* Mutant: a cancelled turn unwinds without recording the round.
ExecutedUnrecorded(done, rest) ==
  IF cancelled THEN Unwind(conv) /\ Return
  ELSE left' = rest /\ round' = done /\ Goto("round", turn) /\ UNCHANGED conv

Executed(done, rest) ==
  IF cancelled THEN Unwind(AppendRound(conv, done)) /\ Return
  ELSE left' = rest /\ round' = done /\ Goto("round", turn) /\ UNCHANGED conv

NextCall(kind) == pc = "round" /\ left # <<>> /\ Head(left) = kind

ReadBatch ==
  /\ NextCall("read")
  /\ \E n \in 1 .. Len(left) :
       /\ \A i \in 1 .. n : left[i] = "read"
       /\ n < Len(left) => left[n + 1] # "read"
       /\ Executed(round, SubSeq(left, n + 1, Len(left)))
  /\ UNCHANGED <<failures, shared, history>>

(* Denied, refused in plan mode, or an error: a result without an effect.  *)
NoEffect ==
  /\ NextCall("write") \/ NextCall("free") \/ NextCall("plan")
  /\ Executed(round, Tail(left))
  /\ UNCHANGED <<failures, shared, history>>

MayWrite == NextCall("write") /\ ~planning

Write ==
  /\ MayWrite
  /\ effects' = effects + 1
  /\ Executed(round \union {effects'}, Tail(left))
  /\ UNCHANGED <<failures, shared, lost, turns>>

(* An exception leaves the round unrecorded; the write it interrupts, if it *)
(* does, may have had its effect.                                          *)
LoseRound ==
  /\ effects' \in {effects} \union {e \in {effects + 1} : MayWrite}
  /\ lost' = lost \union round \union (effects + 1 .. effects')

(* The user aborts the turn from the prompt or the wait for the answer is  *)
(* cancelled, the key of an approval cannot be made, a sink of events or   *)
(* an observer fails: whatever dispatch does not turn into a result.  None *)
(* of it is the unusable response that run_turn tries again.               *)
RoundRaises ==
  /\ pc = "round"
  /\ LoseRound
  /\ Unwind(conv) /\ Return
  /\ UNCHANGED <<failures, shared, turns>>

(* propose_plan: approved with the context kept, or with a fresh one. *)
ApprovePlan ==
  /\ NextCall("plan") /\ planning
  /\ planning' = FALSE
  /\ clear' \in BOOLEAN
  /\ Executed(round, Tail(left))
  /\ UNCHANGED <<failures, history>>

FinishRound ==
  /\ pc = "round" /\ left = <<>>
  /\ LET c == AppendRound(conv, round) IN
     conv' = IF clear THEN ResetActive(c) ELSE c
  /\ clear' = FALSE
  /\ \E stalled \in {turn.stalled, TRUE} : Goto("top", [turn EXCEPT !.stalled = stalled])
  /\ NoRound
  /\ UNCHANGED <<failures, planning, history>>

(* Ctrl-C in the plain CLI, at any point; no handler takes it for a result *)
(* or an error to retry.                                                   *)
KeyboardInterrupt ==
  /\ pc # "idle"
  /\ LoseRound
  /\ IF pc \in {"manual", "backoff"} THEN UNCHANGED <<conv, left, round>> ELSE Unwind(conv)
  /\ Return
  /\ UNCHANGED <<failures, shared, turns>>

---------------------------------------------------------------------------
Worker ==
  \/ NextStep \/ StopAtBoundary \/ Interrupt
  \/ CompactionInstalls \/ CompactionFails
  \/ ContextOverflow \/ OutputLimit \/ FailRequest \/ Retry
  \/ Text \/ Empty \/ \E calls \in Responses : ToolCalls(calls)
  \/ ReadBatch \/ NoEffect \/ Write \/ RoundRaises \/ ApprovePlan
  \/ FinishRound

Next == Worker \/ SubmitText \/ ChangeMode \/ StartManualCompaction \/ Cancel
        \/ KeyboardInterrupt

Spec == Init /\ [][Next]_vars

(* The worker runs, and the provider and the user answer it. *)
FairSpec == Spec /\ WF_vars(Worker)

---------------------------------------------------------------------------
TypeOK ==
  /\ IsConversation(conv, 1 .. effects) /\ IsConversation(snapshot, 1 .. effects)
  /\ failures \in 0 .. MaxCompactionFailures
  /\ planning \in BOOLEAN /\ clear \in BOOLEAN /\ cancelled \in BOOLEAN
  /\ pc \in Points
  /\ attempt \in 0 .. MaxAttempts
  /\ turn \in [step : 0 .. MaxSteps, calls : 0 .. MaxToolCalls,
               recoveries : 0 .. MaxRecoveries + 1, outputs : 0 .. MaxOutputRecoveries,
               empties : 0 .. MaxEmptyResponses, reactive : BOOLEAN, asked : BOOLEAN,
               stalled : BOOLEAN]
  /\ left \in Seq(Kinds)
  /\ round \subseteq 1 .. effects /\ lost \subseteq 1 .. effects
  /\ effects \in Nat /\ turns \in 0 .. MaxTurns

(* Compactions, failures, interrupts and fresh contexts in any order leave *)
(* every segment since the last fresh start in exactly one place: once in  *)
(* the view, itself or in a summary, or reported as omitted from one.      *)
ViewIsWhole ==
  \A i \in conv.start .. Len(conv.transcript) : Accounted(conv, i)

(* The newest user message, or the plan a fresh view starts from, is in    *)
(* the view word for word, never in a summary only: the model sees its task.*)
LatestUserVisible ==
  \A i \in Users : (\A j \in Users : j <= i) =>
    \E k \in DOMAIN conv.active : conv.active[k] = Real("user", i)

Turns == INSTANCE TurnHistory
  WITH busy <- pc # "idle",
       log <- conv.transcript,
       doing <- round,
       unheard <- lost

(* The turn loop keeps the promises of TurnHistory: the transcript only    *)
(* grows, every effect is recorded once, or its round was cut short by an  *)
(* exception and is lost whole, and every turn ends.                       *)
KeepsHistory == Turns!Spec
=============================================================================
