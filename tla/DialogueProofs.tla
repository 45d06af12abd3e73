--------------------------- MODULE DialogueProofs ---------------------------
(***************************************************************************)
(* Theorems about Dialogue, for any set of child Agents, any set of        *)
(* approval keys and any number of requests: what each variable holds, and *)
(* that a sensitive effect only ever runs with the user's consent.         *)
(***************************************************************************)
EXTENDS Dialogue, SequenceTheorems, TLAPS

---------------------------------------------------------------------------
(* The invariant.  What an asker may do next depends on what its request   *)
(* says and on what the user said to it, so both are followed from the     *)
(* request to the effect.                                                  *)

Request == [asker : Askers, kind : Kinds, key : Keys \union {0}]
Answer  == [to : Ids, action : Actions]

TypesOK ==
  /\ mode \in {"plan", "implementation"}
  /\ pc \in [Askers -> Points]
  /\ wants \in [Askers -> Keys \union {0}]
  /\ current \in [Askers -> 0 .. MaxRequests]
  /\ lock \in Askers \union {0}
  /\ pending \subseteq Ids
  /\ responses \in [Ids -> Choices \union {"none"}]
  /\ shown \in 0 .. MaxRequests
  /\ question \in 0 .. MaxRequests
  /\ reply \in Answer \union {NoReply}
  /\ reading \in Answer \union {NoReply}
  /\ said \subseteq Ids \X Consents

FlagsOK == active \in BOOLEAN /\ cancelled \in [Askers -> BOOLEAN]

RequestsOK == requests \in Seq(Request) /\ Len(requests) <= MaxRequests

\* Request i asks to use the key.
Asks(i, key) ==
  /\ i \in DOMAIN requests
  /\ requests[i].kind = "tool" /\ requests[i].key = key

\* From the request to the answer, an asker's request is for the call it makes.
OwnRequestOK ==
  \A a \in Askers :
    /\ pc[a] \notin {"idle", "inquiring", "over"} => wants[a] \in Keys
    /\ pc[a] \in {"asking", "registering", "waiting", "cancelling", "answered"} =>
         Asks(current[a], wants[a])

\* A response that consents is one the user gave.
ResponsesOK == \A i \in Ids : responses[i] \in Consents => <<i, responses[i]>> \in said

SaidForSession(key) == \E i \in DOMAIN requests : Asks(i, key) /\ <<i, "session">> \in said

GrantsOK == \A key \in grants : key \in Keys /\ SaidForSession(key)

RunsOK ==
  \A a \in Askers : pc[a] = "run" =>
    \/ Asks(current[a], wants[a]) /\ <<current[a], "once">> \in said
    \/ SaidForSession(wants[a])

ConsentInv ==
  TypesOK /\ FlagsOK /\ RequestsOK /\ OwnRequestOK /\ ResponsesOK /\ GrantsOK /\ RunsOK

LEMMA ConsentInvTypeOK == ConsentInv => TypeOK
  BY DEF ConsentInv, TypesOK, FlagsOK, RequestsOK, GrantsOK, TypeOK, Request, Answer

LEMMA ConsentInvExplicit == ConsentInv => ConsentIsExplicit
  BY DEF ConsentInv, RunsOK, Asks, SaidForSession, ConsentIsExplicit

LEMMA InitConsentInv == Init => ConsentInv
<1> SUFFICES ASSUME Init PROVE ConsentInv
  OBVIOUS
<1>1. TypesOK
  BY MaxRequestsAssumption DEF Init, TypesOK, Points, Choices
<1>2. FlagsOK
  BY DEF Init, FlagsOK
<1>3. RequestsOK
  BY MaxRequestsAssumption DEF Init, RequestsOK
<1>4. OwnRequestOK /\ ResponsesOK /\ GrantsOK /\ RunsOK
  BY DEF Init, OwnRequestOK, ResponsesOK, GrantsOK, RunsOK, Consents
<1> QED BY <1>1, <1>2, <1>3, <1>4 DEF ConsentInv

---------------------------------------------------------------------------
(* What holds of a request and what was said about it holds for ever:      *)
(* requests are only appended and consents are only added.                 *)

LEMMA IssueAppends ==
  ASSUME RequestsOK, NEW a \in Askers, NEW kind \in Kinds, NEW key \in Keys \union {0},
         Issue(a, kind, key)
  PROVE  /\ RequestsOK'
         /\ Len(requests) + 1 \in DOMAIN requests' /\ Len(requests) + 1 \in Ids
         /\ requests'[Len(requests) + 1].kind = kind /\ requests'[Len(requests) + 1].key = key
         /\ \A i \in DOMAIN requests : i \in DOMAIN requests' /\ requests'[i] = requests[i]
<1> DEFINE request == [asker |-> a, kind |-> kind, key |-> key]
<1>1. requests' = Append(requests, request) /\ Len(requests) < MaxRequests
  BY DEF Issue
<1>2. request \in Request /\ requests \in Seq(Request)
  BY DEF Request, RequestsOK
<1>3. request.kind = kind /\ request.key = key
  OBVIOUS
<1> HIDE DEF request
<1>4. /\ requests' \in Seq(Request) /\ Len(requests') = Len(requests) + 1
      /\ \A i \in 1 .. Len(requests) : requests'[i] = requests[i]
      /\ requests'[Len(requests) + 1] = request
  BY <1>1, <1>2, AppendProperties
<1>5. /\ Len(requests) \in Nat
      /\ DOMAIN requests = 1 .. Len(requests) /\ DOMAIN requests' = 1 .. Len(requests')
  BY <1>2, <1>4, LenProperties
<1> QED BY <1>1, <1>3, <1>4, <1>5, MaxRequestsAssumption DEF RequestsOK, Ids

Kept == /\ \A i \in DOMAIN requests : i \in DOMAIN requests' /\ requests'[i] = requests[i]
        /\ said \subseteq said'

LEMMA KeptFacts ==
  ASSUME Kept
  PROVE  /\ \A i, key : Asks(i, key) => Asks(i, key)'
         /\ \A key : SaidForSession(key) => SaidForSession(key)'
  BY DEF Kept, Asks, SaidForSession

\* A step that is none of the answers to a tool request.
LEMMA OtherStepsKeepConsent ==
  ASSUME ConsentInv, Kept, TypesOK', UNCHANGED <<responses, grants>>,
         \A a \in Askers : \/ /\ pc'[a] = pc[a] /\ wants'[a] = wants[a]
                              /\ current'[a] = current[a]
                           \/ pc'[a] \in {"idle", "inquiring", "over"}
  PROVE  OwnRequestOK' /\ ResponsesOK' /\ GrantsOK' /\ RunsOK'
<1>1. OwnRequestOK'
  BY KeptFacts DEF ConsentInv, OwnRequestOK
<1>2. ResponsesOK'
  BY DEF ConsentInv, ResponsesOK, Kept
<1>3. GrantsOK'
  BY KeptFacts DEF ConsentInv, GrantsOK
<1>4. RunsOK'
  BY KeptFacts DEF ConsentInv, RunsOK, Kept
<1> QED BY <1>1, <1>2, <1>3, <1>4

---------------------------------------------------------------------------
(* The steps of an asker before it is answered.                            *)

LEMMA AuthorizeConsentInv ==
  ASSUME ConsentInv, NEW a \in Askers,
         \/ \E key \in Keys : Authorize(a, key)
         \/ SeeGrant(a)
  PROVE  ConsentInv'
<1>1. /\ UNCHANGED <<mode, active, cancelled, current, requests, lock, pending, responses,
                     grants, shown, question, reply, reading, said>>
      /\ wants' = [wants EXCEPT ![a] = wants'[a]] /\ wants'[a] \in Keys
      /\ \/ pc' = [pc EXCEPT ![a] = "run"] /\ wants'[a] \in grants
         \/ pc' = [pc EXCEPT ![a] = "locking"]
  <2>1. ASSUME NEW key \in Keys, Authorize(a, key) PROVE <1>1!:
    BY <2>1 DEF ConsentInv, TypesOK, Authorize, Goto, workflow, broker, interaction
  <2>2. CASE SeeGrant(a)
    BY <2>2 DEF ConsentInv, TypesOK, OwnRequestOK, SeeGrant, Goto, workflow, locals, broker,
                interaction
  <2> QED BY <2>1, <2>2
<1>2. TypesOK'
  BY <1>1 DEF ConsentInv, TypesOK, Points
<1>3. FlagsOK' /\ RequestsOK'
  BY <1>1 DEF ConsentInv, FlagsOK, RequestsOK
<1>4. Kept
  BY <1>1 DEF Kept
<1>5. OwnRequestOK'
  BY <1>1, <1>4, KeptFacts DEF ConsentInv, TypesOK, OwnRequestOK
<1>6. ResponsesOK' /\ GrantsOK'
  BY <1>1, <1>4, KeptFacts DEF ConsentInv, ResponsesOK, GrantsOK
<1>7. RunsOK'
  BY <1>1, <1>4, KeptFacts DEF ConsentInv, TypesOK, GrantsOK, RunsOK
<1> QED BY <1>2, <1>3, <1>5, <1>6, <1>7 DEF ConsentInv

LEMMA IssueRequestConsentInv ==
  ASSUME ConsentInv, NEW a \in Askers, IssueRequest(a)
  PROVE  ConsentInv'
<1>1. /\ UNCHANGED <<mode, active, cancelled, wants, pending, responses, grants, shown,
                     question, reply, reading, said>>
      /\ pc[a] = "locking" /\ pc' = [pc EXCEPT ![a] = "asking"]
      /\ current' = [current EXCEPT ![a] = Len(requests) + 1] /\ lock' = a
      /\ Issue(a, "tool", wants[a])
  BY DEF IssueRequest, Issue, Goto, workflow, interaction
<1>2. wants[a] \in Keys
  BY <1>1 DEF ConsentInv, OwnRequestOK
<1>3. /\ RequestsOK'
      /\ Len(requests) + 1 \in DOMAIN requests' /\ Len(requests) + 1 \in Ids
      /\ requests'[Len(requests) + 1].kind = "tool"
      /\ requests'[Len(requests) + 1].key = wants[a]
      /\ Kept
  BY <1>1, <1>2, IssueAppends DEF ConsentInv, Kinds, Kept
<1>4. TypesOK'
  BY <1>1, <1>3 DEF ConsentInv, TypesOK, Points, Ids
<1>5. FlagsOK'
  BY <1>1 DEF ConsentInv, FlagsOK
<1>6. OwnRequestOK'
  <2>1. ASSUME NEW b \in Askers, b # a
        PROVE  pc'[b] = pc[b] /\ wants'[b] = wants[b] /\ current'[b] = current[b]
    BY <1>1, <2>1 DEF ConsentInv, TypesOK
  <2>2. current'[a] = Len(requests) + 1 /\ wants'[a] = wants[a] /\ pc'[a] = "asking"
    BY <1>1 DEF ConsentInv, TypesOK
  <2>3. Asks(current[a], wants[a])'
    BY <1>3, <2>2 DEF Asks
  <2> QED BY <1>2, <1>3, <2>1, <2>2, <2>3, KeptFacts DEF ConsentInv, OwnRequestOK
<1>7. ResponsesOK' /\ GrantsOK'
  BY <1>1, <1>3, KeptFacts DEF ConsentInv, ResponsesOK, GrantsOK
<1>8. RunsOK'
  BY <1>1, <1>3, KeptFacts DEF ConsentInv, TypesOK, RunsOK
<1> QED BY <1>3, <1>4, <1>5, <1>6, <1>7, <1>8 DEF ConsentInv

LEMMA WaitConsentInv ==
  ASSUME ConsentInv, NEW a \in Askers,
         EmitRequested(a) \/ Register(a) \/ ReceiveResponse(a) \/ GiveUp(a)
  PROVE  ConsentInv'
<1>1. /\ UNCHANGED <<mode, active, cancelled, wants, current, requests, lock, responses, grants,
                     question, reply, reading, said>>
      /\ pc[a] \in {"asking", "registering", "waiting"}
      /\ \E there \in {"registering", "waiting", "answered", "cancelling"} :
           pc' = [pc EXCEPT ![a] = there]
      /\ shown' \in {shown, current[a]}
      /\ pending' \subseteq pending \union {current[a]}
  BY DEF EmitRequested, Register, ReceiveResponse, GiveUp, Goto, workflow, locals, broker,
         interaction
<1>2. Asks(current[a], wants[a]) /\ current[a] \in Ids
  <2>1. Asks(current[a], wants[a])
    BY <1>1 DEF ConsentInv, OwnRequestOK
  <2>2. DOMAIN requests = 1 .. Len(requests) /\ Len(requests) \in Nat
    BY LenProperties DEF ConsentInv, RequestsOK
  <2> QED BY <2>1, <2>2, MaxRequestsAssumption DEF ConsentInv, RequestsOK, Asks, Ids
<1>3. TypesOK'
  BY <1>1, <1>2 DEF ConsentInv, TypesOK, Points
<1>4. FlagsOK' /\ RequestsOK' /\ Kept
  BY <1>1 DEF ConsentInv, FlagsOK, RequestsOK, Kept
<1>5. OwnRequestOK'
  BY <1>1, <1>4, KeptFacts DEF ConsentInv, TypesOK, OwnRequestOK
<1>6. ResponsesOK' /\ GrantsOK'
  BY <1>1, <1>4, KeptFacts DEF ConsentInv, ResponsesOK, GrantsOK
<1>7. RunsOK'
  BY <1>1, <1>4, KeptFacts DEF ConsentInv, TypesOK, RunsOK
<1> QED BY <1>3, <1>4, <1>5, <1>6, <1>7 DEF ConsentInv

---------------------------------------------------------------------------
(* The answer.                                                             *)

LEMMA AnswerApprovalConsentInv ==
  ASSUME ConsentInv, NEW choice \in Choices, AnswerApproval(choice)
  PROVE  ConsentInv'
<1>1. /\ UNCHANGED <<mode, active, cancelled, pc, wants, current, requests, lock, pending, grants,
                     question, reply, reading>>
      /\ shown \in pending /\ shown' = 0
      /\ responses' = [responses EXCEPT ![shown] = choice]
      /\ said' = said \union ({shown} \X ({choice} \intersect Consents))
  BY DEF AnswerApproval, workflow, locals, interaction
<1>2. TypesOK'
  BY <1>1, MaxRequestsAssumption DEF ConsentInv, TypesOK
<1>3. FlagsOK' /\ RequestsOK' /\ Kept
  BY <1>1 DEF ConsentInv, FlagsOK, RequestsOK, Kept
<1>4. OwnRequestOK'
  BY <1>1, <1>3, KeptFacts DEF ConsentInv, OwnRequestOK
<1>5. ResponsesOK'
  BY <1>1 DEF ConsentInv, TypesOK, ResponsesOK
<1>6. GrantsOK'
  BY <1>1, <1>3, KeptFacts DEF ConsentInv, GrantsOK
<1>7. RunsOK'
  BY <1>1, <1>3, KeptFacts DEF ConsentInv, RunsOK, Kept
<1> QED BY <1>2, <1>3, <1>4, <1>5, <1>6, <1>7 DEF ConsentInv

\* What the broker makes of a choice: the one step that grants anything.
LEMMA ResolvedConsentInv ==
  ASSUME ConsentInv, NEW a \in Askers, Resolved(a)
  PROVE  ConsentInv'
<1> DEFINE choice == responses[current[a]]
<1>1. /\ UNCHANGED <<mode, active, cancelled, requests, pending, question, reply, reading, said>>
      /\ pc[a] = "answered" /\ lock' = 0 /\ shown' \in {shown, 0}
      /\ responses' = [responses EXCEPT ![current[a]] = "none"]
      /\ grants' = IF choice = "session" THEN grants \union {wants[a]} ELSE grants
      /\ \/ /\ choice \in Consents /\ pc' = [pc EXCEPT ![a] = "run"]
            /\ UNCHANGED <<wants, current>>
         \/ /\ choice \notin Consents
            /\ \E there \in {"idle", "over"} : pc' = [pc EXCEPT ![a] = there]
            /\ wants' = [wants EXCEPT ![a] = 0] /\ current' = [current EXCEPT ![a] = 0]
  BY DEF Resolved, ReleaseComposer, Leave, Goto, workflow, locals, interaction
<1>2. Asks(current[a], wants[a]) /\ wants[a] \in Keys /\ current[a] \in Ids
  <2>1. Asks(current[a], wants[a]) /\ wants[a] \in Keys
    BY <1>1 DEF ConsentInv, OwnRequestOK
  <2>2. DOMAIN requests = 1 .. Len(requests) /\ Len(requests) \in Nat
    BY LenProperties DEF ConsentInv, RequestsOK
  <2> QED BY <2>1, <2>2, MaxRequestsAssumption DEF ConsentInv, RequestsOK, Asks, Ids
<1>3. choice \in Consents => <<current[a], choice>> \in said
  BY <1>2 DEF ConsentInv, ResponsesOK
<1>4. TypesOK'
  <2>1. /\ pc' \in [Askers -> Points]
        /\ wants' \in [Askers -> Keys \union {0}] /\ current' \in [Askers -> 0 .. MaxRequests]
    BY <1>1, MaxRequestsAssumption DEF ConsentInv, TypesOK, Points
  <2>2. responses' \in [Ids -> Choices \union {"none"}]
    BY <1>1, <1>2 DEF ConsentInv, TypesOK
  <2> QED BY <1>1, <2>1, <2>2, MaxRequestsAssumption DEF ConsentInv, TypesOK
<1>5. FlagsOK' /\ RequestsOK' /\ Kept
  BY <1>1 DEF ConsentInv, FlagsOK, RequestsOK, Kept
<1>6. OwnRequestOK'
  BY <1>1, <1>2, <1>5, KeptFacts DEF ConsentInv, TypesOK, OwnRequestOK
<1>7. ResponsesOK'
  BY <1>1 DEF ConsentInv, TypesOK, ResponsesOK, Consents
<1>8. choice = "session" => SaidForSession(wants[a])
  BY <1>2, <1>3 DEF SaidForSession, Asks, Consents
<1>9. GrantsOK'
  BY <1>1, <1>2, <1>5, <1>8, KeptFacts DEF ConsentInv, GrantsOK
<1>10. RunsOK'
  <2>1. ASSUME NEW b \in Askers, b # a, pc'[b] = "run"
        PROVE  \/ Asks(current[b], wants[b])' /\ <<current[b], "once">>' \in said'
               \/ SaidForSession(wants[b])'
    <3>1. pc[b] = "run" /\ wants'[b] = wants[b] /\ current'[b] = current[b]
      BY <1>1, <2>1 DEF ConsentInv, TypesOK
    <3> QED BY <1>1, <1>5, <3>1, KeptFacts DEF ConsentInv, RunsOK
  <2>2. ASSUME pc'[a] = "run"
        PROVE  \/ Asks(current[a], wants[a])' /\ <<current[a], "once">>' \in said'
               \/ SaidForSession(wants[a])'
    <3>1. choice \in Consents /\ UNCHANGED <<wants, current>>
      BY <1>1, <2>2 DEF ConsentInv, TypesOK
    <3> QED BY <1>1, <1>2, <1>3, <1>5, <1>8, <3>1, KeptFacts DEF Consents
  <2> QED BY <2>1, <2>2 DEF RunsOK
<1> QED BY <1>4, <1>5, <1>6, <1>7, <1>9, <1>10 DEF ConsentInv

---------------------------------------------------------------------------
(* Everything else: the other end of a call, the questions of plan mode,   *)
(* the event loop and the user's other keys.                               *)

LEMMA LeaveConsentInv ==
  ASSUME ConsentInv, NEW a \in Askers, EmitCancelled(a) \/ RunEffect(a) \/ FollowUp(a)
  PROVE  ConsentInv'
<1>1. /\ UNCHANGED <<mode, active, requests, pending, responses, grants, question, reply, reading,
                     said>>
      /\ lock' \in {lock, 0} /\ shown' \in {shown, 0}
      /\ \E there \in {"idle", "over"} : pc' = [pc EXCEPT ![a] = there]
      /\ \/ UNCHANGED <<wants, current>>
         \/ wants' = [wants EXCEPT ![a] = 0] /\ current' = [current EXCEPT ![a] = 0]
  BY DEF EmitCancelled, RunEffect, FollowUp, ReleaseComposer, Leave, Goto, workflow, locals, broker,
         interaction
<1>2. TypesOK'
  BY <1>1, MaxRequestsAssumption DEF ConsentInv, TypesOK, Points
<1>3. FlagsOK' /\ RequestsOK' /\ Kept
  <2>1. cancelled' \in [Askers -> BOOLEAN]
    BY DEF ConsentInv, FlagsOK, EmitCancelled, RunEffect, FollowUp
  <2> QED BY <1>1, <2>1 DEF ConsentInv, FlagsOK, RequestsOK, Kept
<1>4. \A b \in Askers : \/ pc'[b] = pc[b] /\ wants'[b] = wants[b] /\ current'[b] = current[b]
                        \/ pc'[b] \in {"idle", "inquiring", "over"}
  BY <1>1 DEF ConsentInv, TypesOK
<1> QED BY <1>1, <1>2, <1>3, <1>4, OtherStepsKeepConsent DEF ConsentInv

LEMMA ShowInteractionConsentInv ==
  ASSUME ConsentInv, NEW kind \in {"questions", "plan"}, ShowInteraction(kind)
  PROVE  ConsentInv'
<1>1. Root \in Askers
  BY DEF Askers
<1>2. /\ UNCHANGED <<mode, active, cancelled, wants, lock, pending, responses, grants, shown,
                     reply, reading, said>>
      /\ pc' = [pc EXCEPT ![Root] = "inquiring"]
      /\ question' = Len(requests) + 1 /\ current' = [current EXCEPT ![Root] = Len(requests) + 1]
      /\ Issue(Root, kind, 0)
  BY DEF ShowInteraction, Issue, Goto, workflow, broker
<1>3. RequestsOK' /\ Len(requests) + 1 \in Ids /\ Kept
  BY <1>1, <1>2, IssueAppends DEF ConsentInv, Kinds, Kept
<1>4. TypesOK'
  BY <1>1, <1>2, <1>3 DEF ConsentInv, TypesOK, Points, Ids
<1>5. FlagsOK'
  BY <1>2 DEF ConsentInv, FlagsOK
<1>6. \A b \in Askers : \/ pc'[b] = pc[b] /\ wants'[b] = wants[b] /\ current'[b] = current[b]
                        \/ pc'[b] \in {"idle", "inquiring", "over"}
  BY <1>1, <1>2 DEF ConsentInv, TypesOK
<1> QED BY <1>2, <1>3, <1>4, <1>5, <1>6, OtherStepsKeepConsent DEF ConsentInv

LEMMA EndInquiryConsentInv ==
  ASSUME ConsentInv, TakeReply \/ AbandonQuestion
  PROVE  ConsentInv'
<1>1. Root \in Askers
  BY DEF Askers
<1>2. /\ UNCHANGED <<active, cancelled, requests, lock, pending, responses, grants, shown, reading,
                     said>>
      /\ mode' \in {mode, "implementation"} /\ question' = 0 /\ reply' \in {reply, NoReply}
      /\ pc' = [pc EXCEPT ![Root] = "idle"]
      /\ wants' = [wants EXCEPT ![Root] = 0] /\ current' = [current EXCEPT ![Root] = 0]
  BY DEF TakeReply, AbandonQuestion, Leave, Goto, workflow, broker
<1>3. TypesOK'
  BY <1>1, <1>2, MaxRequestsAssumption DEF ConsentInv, TypesOK, Points
<1>4. FlagsOK' /\ RequestsOK' /\ Kept
  BY <1>2 DEF ConsentInv, FlagsOK, RequestsOK, Kept
<1>5. \A b \in Askers : \/ pc'[b] = pc[b] /\ wants'[b] = wants[b] /\ current'[b] = current[b]
                        \/ pc'[b] \in {"idle", "inquiring", "over"}
  BY <1>1, <1>2 DEF ConsentInv, TypesOK
<1> QED BY <1>2, <1>3, <1>4, <1>5, OtherStepsKeepConsent DEF ConsentInv

LEMMA LoopConsentInv ==
  ASSUME ConsentInv,
         \/ \E a \in Askers : Cancel(a)
         \/ \E action \in Actions : ReadAnswer(action)
         \/ StoreAnswer \/ DrainRequests \/ BeginTurn \/ FinishTurn \/ ChangeMode
         \/ UNCHANGED vars
  PROVE  ConsentInv'
<1>1. Root \in Askers
  BY DEF Askers
<1>2. /\ UNCHANGED <<wants, current, requests, lock, pending, responses, grants, question, said>>
      /\ mode' = mode \/ mode' \in {"plan", "implementation"}
      /\ pc' = pc \/ pc' = [pc EXCEPT ![Root] = "idle"]
      /\ shown' = shown \/ shown' \in pending
  BY DEF Cancel, ReadAnswer, StoreAnswer, DrainRequests, BeginTurn, FinishTurn, ChangeMode, Goto,
         vars, workflow, locals, broker, interaction
<1>3. reply' \in Answer \union {NoReply} /\ reading' \in Answer \union {NoReply}
  <2>1. ASSUME NEW action \in Actions, ReadAnswer(action)
        PROVE  reply' = reply /\ reading' \in Answer
    BY <2>1, MaxRequestsAssumption DEF ConsentInv, TypesOK, ReadAnswer, Answer, Ids
  <2>2. CASE StoreAnswer
    BY <2>2 DEF ConsentInv, TypesOK, StoreAnswer
  <2>3. CASE \/ \E a \in Askers : Cancel(a)
             \/ DrainRequests \/ BeginTurn \/ FinishTurn \/ ChangeMode
             \/ UNCHANGED vars
    BY <2>3 DEF ConsentInv, TypesOK, Cancel, DrainRequests, BeginTurn, FinishTurn, ChangeMode,
                vars, interaction
  <2> QED BY <2>1, <2>2, <2>3 DEF ConsentInv, TypesOK
<1>4. TypesOK'
  <2>1. pc' \in [Askers -> Points]
    BY <1>1, <1>2 DEF ConsentInv, TypesOK, Points
  <2>2. shown' \in 0 .. MaxRequests
    <3>1. shown \in 0 .. MaxRequests /\ pending \subseteq Ids
      BY DEF ConsentInv, TypesOK
    <3>2. Ids \subseteq 0 .. MaxRequests
      BY MaxRequestsAssumption DEF Ids
    <3> QED BY <1>2, <3>1, <3>2
  <2> QED BY <1>2, <1>3, <2>1, <2>2 DEF ConsentInv, TypesOK
<1>5. FlagsOK'
  BY DEF ConsentInv, FlagsOK, Cancel, ReadAnswer, StoreAnswer, DrainRequests, BeginTurn, FinishTurn,
         ChangeMode, vars, workflow
<1>6. RequestsOK' /\ Kept
  BY <1>2 DEF ConsentInv, RequestsOK, Kept
<1>7. \A b \in Askers : \/ pc'[b] = pc[b] /\ wants'[b] = wants[b] /\ current'[b] = current[b]
                        \/ pc'[b] \in {"idle", "inquiring", "over"}
  BY <1>1, <1>2 DEF ConsentInv, TypesOK
<1> QED BY <1>2, <1>4, <1>5, <1>6, <1>7, OtherStepsKeepConsent DEF ConsentInv

LEMMA NextConsentInv == ConsentInv /\ [Next]_vars => ConsentInv'
<1> SUFFICES ASSUME ConsentInv, [Next]_vars PROVE ConsentInv'
  OBVIOUS
<1>1. ASSUME NEW a \in Askers, Broker(a) PROVE ConsentInv'
  BY <1>1, AuthorizeConsentInv, IssueRequestConsentInv, WaitConsentInv, ResolvedConsentInv,
     LeaveConsentInv DEF Broker
<1>2. ASSUME NEW a \in Askers, NEW key \in Keys, Authorize(a, key) PROVE ConsentInv'
  BY <1>2, AuthorizeConsentInv
<1> QED BY <1>1, <1>2, LeaveConsentInv, ShowInteractionConsentInv, EndInquiryConsentInv,
           AnswerApprovalConsentInv, LoopConsentInv DEF Next

\* Whoever asks, answers late, gives up or is cancelled, each variable of the
\* broker and of the interface holds what its readers expect: only keys are
\* granted, and an answer names a request.
THEOREM DialogueTypes == Spec => []TypeOK
<1> QED BY InitConsentInv, NextConsentInv, ConsentInvTypeOK, PTL DEF Spec

\* PermissionBroker.authorize lets a sensitive effect run only on the user's
\* consent to the request made for it, or to one with the same key for the
\* session, however the threads that share the broker interleave.
THEOREM EffectsHaveConsent == Spec => []ConsentIsExplicit
<1> QED BY InitConsentInv, NextConsentInv, ConsentInvExplicit, PTL DEF Spec
=============================================================================
