------------------------------ MODULE Dialogue ------------------------------
(***************************************************************************)
(* Questions to the user.  Two of them share the one composer of the       *)
(* full-screen interface (tui.py):                                         *)
(*  - the approval of a sensitive tool call, asked by the root worker or   *)
(*    by a child Agent's thread through the PermissionBroker they all      *)
(*    share (permissions.py);                                              *)
(*  - the structured questions and the plan of plan mode, asked by the     *)
(*    root worker through _tui_interaction (workflow_runtime.py, tui.py).  *)
(*                                                                         *)
(* A text submitted while one of them holds the composer is an answer and  *)
(* nothing else.  Event-loop handlers are atomic with respect to each      *)
(* other, and the root worker's events are delivered to the interface      *)
(* synchronously; a child's events only reach its own record (agents.py,   *)
(* _observe), so a child's request is found by the 50 ms drain alone.      *)
(*                                                                         *)
(* Hard and sandbox checks, which only refuse, are left out; the approval  *)
(* policy is one under which every effect of the model must be approved.   *)
(***************************************************************************)
EXTENDS Integers, Sequences

CONSTANTS
  Root,         \* the root worker
  Children,     \* child Agents, whose threads share the broker
  Keys,         \* approval keys (approval_key)
  MaxRequests   \* bound: how many requests are ever made

ASSUME AskersAssumption == Root \notin Children
ASSUME MaxRequestsAssumption == MaxRequests \in Nat

Askers == {Root} \union Children

VARIABLES
  mode,       \* workflow.mode
  active,     \* CodingKidApp.active_turn
  cancelled,  \* per asker: is its CancellationToken cancelled?
  pc,         \* per asker: where it is
  wants,      \* per asker: the key of the tool call it authorizes, 0 = none
  current,    \* per asker: the request it made for it, 0 = none
  requests,   \* every request made, by id: who asks, what kind, which key
  lock,       \* the owner of _approval_lock, 0 = free
  pending,    \* ids in _pending
  responses,  \* _responses: id -> choice, "none" when absent
  grants,     \* _session_grants
  shown,      \* _pending_approval_id, 0 = None
  question,   \* _interaction_request, 0 = None
  reply,      \* _interaction_response
  reading,    \* the answer _resolve_interaction_input is building
  said        \* history: <<id, choice>>, the consents the user gave

workflow    == <<mode, active>>
locals      == <<wants, current>>
broker      == <<lock, pending, responses, grants>>
interaction == <<question, reply, reading>>
vars == <<workflow, cancelled, pc, locals, requests, broker, shown, interaction, said>>

Ids     == 1 .. MaxRequests
Consents == {"once", "session"}
Choices == Consents \union {"deny", "abort"}
Kinds   == {"tool", "questions", "plan"}
Actions == {"approve", "revise", "answer"}
Points  == {"idle", "locking", "asking", "registering", "waiting", "cancelling",
            "answered", "run", "inquiring", "over"}
NoReply == [to |-> 0, action |-> "none"]

Init ==
  /\ mode \in {"plan", "implementation"}
  /\ active = FALSE
  /\ cancelled = [a \in Askers |-> FALSE]
  /\ pc = [a \in Askers |-> "idle"]
  /\ wants = [a \in Askers |-> 0]
  /\ current = [a \in Askers |-> 0]
  /\ requests = <<>>
  /\ lock = 0
  /\ pending = {}
  /\ responses = [i \in Ids |-> "none"]
  /\ grants = {}
  /\ shown = 0
  /\ question = 0
  /\ reply = NoReply
  /\ reading = NoReply
  /\ said = {}

Goto(a, there) == pc' = [pc EXCEPT ![a] = there]

(* Out of the call: what it kept in local variables is gone. *)
Leave(a, there) ==
  /\ Goto(a, there)
  /\ wants' = [wants EXCEPT ![a] = 0]
  /\ current' = [current EXCEPT ![a] = 0]

Issue(a, kind, key) ==
  /\ Len(requests) < MaxRequests
  /\ requests' = Append(requests, [asker |-> a, kind |-> kind, key |-> key])
  /\ current' = [current EXCEPT ![a] = Len(requests) + 1]

Asked(kind, i) == i \in DOMAIN requests /\ requests[i].kind = kind

(* The event loop runs no other handler while it reads an answer. *)
LoopFree == reading = NoReply

---------------------------------------------------------------------------
(* PermissionBroker.authorize, in the asker's thread.                      *)

Working(a) == IF a = Root THEN active /\ ~cancelled[a] ELSE ~cancelled[a]

(* The mode check, and the look at the grants before any lock. *)
Authorize(a, key) ==
  /\ pc[a] = "idle" /\ Working(a)
  /\ mode = "implementation"
  /\ wants' = [wants EXCEPT ![a] = key]
  /\ Goto(a, IF key \in grants THEN "run" ELSE "locking")
  /\ UNCHANGED <<workflow, cancelled, current, requests, broker, shown,
                 interaction, said>>

(* Under the lock: a grant made meanwhile is enough. *)
SeeGrant(a) ==
  /\ pc[a] = "locking" /\ lock = 0
  /\ wants[a] \in grants
  /\ Goto(a, "run")
  /\ UNCHANGED <<workflow, cancelled, locals, requests, broker, shown,
                 interaction, said>>

IssueRequest(a) ==
  /\ pc[a] = "locking" /\ lock = 0
  /\ wants[a] \notin grants
  /\ Issue(a, "tool", wants[a])
  /\ lock' = a
  /\ Goto(a, "asking")
  /\ UNCHANGED <<workflow, cancelled, wants, pending, responses, grants, shown,
                 interaction, said>>

(* ApprovalRequested reaches the interface from the root worker only. *)
EmitRequested(a) ==
  /\ pc[a] = "asking"
  /\ IF a = Root THEN LoopFree /\ shown' = current[a] ELSE UNCHANGED shown
  /\ Goto(a, "registering")
  /\ UNCHANGED <<workflow, cancelled, locals, requests, broker, interaction, said>>

Register(a) ==
  /\ pc[a] = "registering"
  /\ pending' = pending \union {current[a]}
  /\ Goto(a, "waiting")
  /\ UNCHANGED <<workflow, cancelled, locals, requests, lock, responses, grants,
                 shown, interaction, said>>

(* The response is popped and the request is no longer pending. *)
ReceiveResponse(a) ==
  /\ pc[a] = "waiting"
  /\ responses[current[a]] # "none"
  /\ pending' = pending \ {current[a]}
  /\ Goto(a, "answered")
  /\ UNCHANGED <<workflow, cancelled, locals, requests, lock, responses, grants,
                 shown, interaction, said>>

\* Mutant: the wait looks at the token of the root worker's turn only.
GiveUpWithRoot(a) ==
  /\ pc[a] = "waiting"
  /\ responses[current[a]] = "none" /\ cancelled[Root]
  /\ pending' = pending \ {current[a]}
  /\ Goto(a, "cancelling")
  /\ UNCHANGED <<workflow, cancelled, locals, requests, lock, responses, grants,
                 shown, interaction, said>>

GiveUp(a) ==
  /\ pc[a] = "waiting"
  /\ responses[current[a]] = "none" /\ cancelled[a]
  /\ pending' = pending \ {current[a]}
  /\ Goto(a, "cancelling")
  /\ UNCHANGED <<workflow, cancelled, locals, requests, lock, responses, grants,
                 shown, interaction, said>>

(* handle_turn_event for ApprovalCancelled and ApprovalResolved. *)
ReleaseComposer(a) ==
  IF a = Root THEN LoopFree /\ shown' = IF shown = current[a] THEN 0 ELSE shown
              ELSE UNCHANGED shown

EmitCancelled(a) ==
  /\ pc[a] = "cancelling"
  /\ ReleaseComposer(a)
  /\ lock' = 0
  /\ Leave(a, "over")
  /\ UNCHANGED <<workflow, cancelled, requests, pending, responses,
                 grants, interaction, said>>

\* Mutant: "once" is remembered as if it were for the session.
ResolvedForSession(a) ==
  LET choice == responses[current[a]] IN
  /\ pc[a] = "answered"
  /\ ReleaseComposer(a)
  /\ lock' = 0
  /\ responses' = [responses EXCEPT ![current[a]] = "none"]
  /\ grants' = IF choice \in Consents THEN grants \union {wants[a]} ELSE grants
  /\ IF choice \in Consents THEN Goto(a, "run") /\ UNCHANGED locals
     ELSE Leave(a, IF choice = "abort" THEN "over" ELSE "idle")
  /\ UNCHANGED <<workflow, cancelled, requests, pending, interaction, said>>

\* Mutant: the request is granted, not its key.
ResolvedById(a) ==
  LET choice == responses[current[a]] IN
  /\ pc[a] = "answered"
  /\ ReleaseComposer(a)
  /\ lock' = 0
  /\ responses' = [responses EXCEPT ![current[a]] = "none"]
  /\ grants' = IF choice = "session" THEN grants \union {current[a]} ELSE grants
  /\ IF choice \in Consents THEN Goto(a, "run") /\ UNCHANGED locals
     ELSE Leave(a, IF choice = "abort" THEN "over" ELSE "idle")
  /\ UNCHANGED <<workflow, cancelled, requests, pending, interaction, said>>

(* ApprovalResolved, then what the choice means; an abort ends the turn as  *)
(* a cancellation does.                                                    *)
Resolved(a) ==
  LET choice == responses[current[a]] IN
  /\ pc[a] = "answered"
  /\ ReleaseComposer(a)
  /\ lock' = 0
  /\ responses' = [responses EXCEPT ![current[a]] = "none"]
  /\ grants' = IF choice = "session" THEN grants \union {wants[a]} ELSE grants
  /\ IF choice \in Consents THEN Goto(a, "run") /\ UNCHANGED locals
     ELSE Leave(a, IF choice = "abort" THEN "over" ELSE "idle")
  /\ UNCHANGED <<workflow, cancelled, requests, pending, interaction, said>>

(* The authorized effect (before_effect .. after_effect, see Stage). *)
RunEffect(a) ==
  /\ pc[a] = "run"
  /\ Leave(a, "idle")
  /\ UNCHANGED <<workflow, cancelled, requests, broker, shown,
                 interaction, said>>

---------------------------------------------------------------------------
(* request_user_input and propose_plan, in the root worker.                *)

ShowInteraction(kind) ==
  /\ pc[Root] = "idle" /\ Working(Root) /\ mode = "plan"
  /\ LoopFree
  /\ Issue(Root, kind, 0)
  /\ question' = Len(requests) + 1
  /\ Goto(Root, "inquiring")
  /\ UNCHANGED <<workflow, cancelled, wants, broker, shown, reply, reading, said>>

(* A response is there: whatever it answered.  An answer of the wrong kind *)
(* is an error of the tool, an approved plan starts the implementation.    *)
TakeReply ==
  /\ pc[Root] = "inquiring"
  /\ reply # NoReply
  /\ reply' = NoReply
  /\ question' = 0
  /\ mode' = IF Asked("plan", current[Root]) /\ reply.action = "approve"
             THEN "implementation" ELSE mode
  /\ Leave(Root, "idle")
  /\ UNCHANGED <<active, cancelled, requests, broker, shown, reading, said>>

AbandonQuestion ==
  /\ pc[Root] = "inquiring"
  /\ reply = NoReply /\ cancelled[Root]
  /\ question' = 0
  /\ Leave(Root, "idle")
  /\ UNCHANGED <<workflow, cancelled, requests, broker, shown, reply,
                 reading, said>>

---------------------------------------------------------------------------
(* The event loop: on_composer_submitted, the drain, Esc, /mode.           *)

(* A text while an approval holds the composer: 1 to 4. *)
AnswerApproval(choice) ==
  /\ LoopFree /\ shown # 0
  /\ shown \in pending /\ responses[shown] = "none"
  /\ responses' = [responses EXCEPT ![shown] = choice]
  /\ said' = said \union ({shown} \X ({choice} \intersect Consents))
  /\ shown' = 0
  /\ UNCHANGED <<workflow, cancelled, pc, locals, requests, lock, pending, grants,
                 interaction>>

(* A text while a question holds it: the request is read ... *)
ReadAnswer(action) ==
  /\ LoopFree /\ shown = 0 /\ question # 0
  /\ action \in (IF Asked("plan", question) THEN {"approve", "revise"} ELSE {"answer"})
  /\ reading' = [to |-> question, action |-> action]
  /\ UNCHANGED <<workflow, cancelled, pc, locals, requests, broker, shown,
                 question, reply, said>>

(* ... and the response stored, under the condition's lock. *)
StoreAnswer ==
  /\ reading # NoReply
  /\ reply' = reading
  /\ reading' = NoReply
  /\ UNCHANGED <<workflow, cancelled, pc, locals, requests, broker, shown,
                 question, said>>

DrainRequests ==
  /\ LoopFree
  /\ \E i \in pending : i # shown /\ shown' = i
  /\ UNCHANGED <<workflow, cancelled, pc, locals, requests, broker, interaction,
                 said>>

ComposerFree == LoopFree /\ shown = 0 /\ question = 0

BeginTurn ==
  /\ ComposerFree /\ ~active
  /\ active' = TRUE
  /\ cancelled' = [cancelled EXCEPT ![Root] = FALSE]
  /\ UNCHANGED <<mode, pc, locals, requests, broker, shown, interaction, said>>

FinishTurn ==
  /\ active /\ pc[Root] \in {"idle", "over"} /\ LoopFree
  /\ active' = FALSE
  /\ Goto(Root, "idle")
  /\ UNCHANGED <<mode, cancelled, locals, requests, broker, shown, interaction, said>>

ChangeMode ==
  /\ ComposerFree /\ ~active
  /\ mode' \in {"plan", "implementation"} \ {mode}
  /\ UNCHANGED <<active, cancelled, pc, locals, requests, broker, shown,
                 interaction, said>>

(* Esc for the root, a stop or a close for a child. *)
Cancel(a) ==
  /\ ~cancelled[a]
  /\ a = Root => active /\ LoopFree
  /\ cancelled' = [cancelled EXCEPT ![a] = TRUE]
  /\ UNCHANGED <<workflow, pc, locals, requests, broker, shown, interaction, said>>

(* A follow-up gives a settled child a new token. *)
FollowUp(a) ==
  /\ a \in Children
  /\ \/ pc[a] = "over"
     \/ pc[a] = "idle" /\ cancelled[a]
  /\ cancelled' = [cancelled EXCEPT ![a] = FALSE]
  /\ Goto(a, "idle")
  /\ UNCHANGED <<workflow, locals, requests, broker, shown, interaction, said>>

---------------------------------------------------------------------------
Broker(a) == \/ SeeGrant(a) \/ IssueRequest(a) \/ EmitRequested(a) \/ Register(a)
             \/ ReceiveResponse(a) \/ GiveUp(a) \/ EmitCancelled(a) \/ Resolved(a)
             \/ RunEffect(a)

Next ==
  \/ \E a \in Askers : \/ \E key \in Keys : Authorize(a, key)
                       \/ Broker(a)
                       \/ Cancel(a)
                       \/ FollowUp(a)
  \/ \E kind \in {"questions", "plan"} : ShowInteraction(kind)
  \/ TakeReply
  \/ AbandonQuestion
  \/ \E choice \in Choices : AnswerApproval(choice)
  \/ \E action \in Actions : ReadAnswer(action)
  \/ StoreAnswer
  \/ DrainRequests
  \/ BeginTurn
  \/ FinishTurn
  \/ ChangeMode

Spec == Init /\ [][Next]_vars

(* The threads and the event loop run; the user need not do anything.      *)
FairSpec ==
  /\ Spec
  /\ \A a \in Askers : WF_vars(Broker(a))
  /\ WF_vars(TakeReply \/ AbandonQuestion)
  /\ WF_vars(StoreAnswer)
  /\ WF_vars(DrainRequests)

---------------------------------------------------------------------------
(* The types, and who may hold what. *)
TypeOK ==
  /\ mode \in {"plan", "implementation"}
  /\ active \in BOOLEAN
  /\ cancelled \in [Askers -> BOOLEAN]
  /\ pc \in [Askers -> Points]
  /\ wants \in [Askers -> Keys \union {0}]
  /\ current \in [Askers -> 0 .. MaxRequests]
  /\ requests \in Seq([asker : Askers, kind : Kinds, key : Keys \union {0}])
  /\ Len(requests) <= MaxRequests
  /\ lock \in Askers \union {0}
  /\ pending \subseteq Ids
  /\ responses \in [Ids -> Choices \union {"none"}]
  /\ grants \subseteq Keys
  /\ shown \in 0 .. MaxRequests
  /\ question \in 0 .. MaxRequests
  /\ reply \in [to : Ids, action : Actions] \union {NoReply}
  /\ reading \in [to : Ids, action : Actions] \union {NoReply}
  /\ said \subseteq Ids \X Consents

(* A sensitive effect runs on the user's answer to the very request made   *)
(* for it, or on a session answer to a request with the same key.          *)
ConsentIsExplicit ==
  \A a \in Askers : pc[a] = "run" =>
    \/ <<current[a], "once">> \in said /\ requests[current[a]].key = wants[a]
    \/ \E i \in DOMAIN requests : /\ requests[i].kind = "tool"
                                  /\ requests[i].key = wants[a]
                                  /\ <<i, "session">> \in said

(* A cancelled asker that has a question open stops waiting for its answer *)
(* (GiveUp, AbandonQuestion).  One that waits for _approval_lock, which    *)
(* looks at no token, gets past it unless the lock's holder is an asker    *)
(* that nobody cancelled: then it waits as long as the user leaves that    *)
(* question open, and opens its own request before it gives up.            *)
CancelEndsTheWait ==
  \A a \in Askers :
    /\ cancelled[a] /\ pc[a] \in {"asking", "registering", "waiting", "inquiring"}
         ~> pc[a] \in {"idle", "over"}
    /\ cancelled[a] /\ pc[a] = "locking"
         ~> \/ pc[a] # "locking"
            \/ lock # 0 /\ ~cancelled[lock]
            \/ Len(requests) = MaxRequests   \* the bound

=============================================================================
