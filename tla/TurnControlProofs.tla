------------------------- MODULE TurnControlProofs -------------------------
(***************************************************************************)
(* Theorems about TurnControl, for every set of texts, every queue limit   *)
(* and every number of activities.                                         *)
(***************************************************************************)
EXTENDS TurnControl, SequenceTheorems, TLAPS

\* The invariant: types and the two token invariants, which only hold together.
\* The Boolean flags are kept apart from the rest of the types.
FlagsOK ==
  /\ active \in BOOLEAN
  /\ shouldContinue \in BOOLEAN
  /\ dirty \in BOOLEAN
  /\ esc \in BOOLEAN

DataOK ==
  /\ reasons \in Seq(Reasons)
  /\ token \in 0 .. Len(reasons)
  /\ pending \in Seq(Texts) /\ Len(pending) <= MaxPending
  /\ pc \in WorkerPoints
  /\ stepToken \in 0 .. Len(reasons)
  /\ batch \in Seq(Texts)
  /\ conversation \in Seq(Texts)
  /\ unsent \subseteq Texts
  /\ acknowledged \in Seq(Texts)
  /\ activities \in 0 .. MaxActivities

LinkOK == OneLiveToken /\ StepPollsLiveToken

TokenInv == FlagsOK /\ DataOK /\ LinkOK

LEMMA TypeOKSplit == TypeOK <=> FlagsOK /\ DataOK
  BY DEF TypeOK, FlagsOK, DataOK

\* Cancelling a token changes no other token's reason, and not how many there are.
LEMMA CancelledType ==
  ASSUME NEW r \in Seq(Reasons), NEW t \in 1 .. Len(r), NEW reason \in Reasons
  PROVE  /\ Cancelled(r, t, reason) \in Seq(Reasons)
         /\ Len(Cancelled(r, t, reason)) = Len(r)
  BY DEF Cancelled

LEMMA NewTokenType ==
  ASSUME reasons \in Seq(Reasons), NewToken
  PROVE  /\ reasons' \in Seq(Reasons)
         /\ Len(reasons') = Len(reasons) + 1
         /\ token' = Len(reasons')
         /\ token' # 0
         /\ \A t \in 1 .. Len(reasons) : reasons'[t] = reasons[t]
  BY DEF NewToken, Reasons

LEMMA InitTokenInv == Init => TokenInv
<1> SUFFICES ASSUME Init PROVE TokenInv
  OBVIOUS
<1>1. FlagsOK
  BY DEF Init, FlagsOK
<1>2. DataOK
  BY MaxActivitiesAssumption, MaxPendingAssumption DEF Init, DataOK, WorkerPoints
<1>3. LinkOK
  BY DEF Init, LinkOK, OneLiveToken, StepPollsLiveToken
<1> QED BY <1>1, <1>2, <1>3 DEF TokenInv

\* Every step of the event loop and of the worker preserves the invariant.
LEMMA NextTokenInv == TokenInv /\ [Next]_vars => TokenInv'
<1> SUFFICES ASSUME TokenInv, [Next]_vars
             PROVE  TokenInv'
  OBVIOUS
<1> USE MaxActivitiesAssumption, MaxPendingAssumption, FailureFlagsAssumption
<1>1. ASSUME NEW text \in Texts, SubmitIdle(text) PROVE TokenInv'
  <2>1. FlagsOK'
    BY <1>1 DEF TokenInv, FlagsOK, SubmitIdle, BeginActivity, uiVars
  <2>2. DataOK'
    BY <1>1, NewTokenType DEF TokenInv, DataOK, LinkOK, OneLiveToken, WorkerPoints, SubmitIdle, BeginActivity, uiVars
  <2>3. LinkOK'
    BY <1>1, NewTokenType DEF TokenInv, DataOK, LinkOK, OneLiveToken, StepPollsLiveToken, SubmitIdle, BeginActivity, uiVars
  <2> QED BY <2>1, <2>2, <2>3 DEF TokenInv
<1>2. ASSUME NEW text \in Texts, SubmitSteer(text) PROVE TokenInv'
  <2>1. FlagsOK'
    BY <1>2 DEF TokenInv, FlagsOK, SubmitSteer, workVars
  <2>2. DataOK'
    BY <1>2, CancelledType DEF TokenInv, DataOK, LinkOK, OneLiveToken, Reasons, WorkerPoints, SubmitSteer, workVars
  <2>3. LinkOK'
    BY <1>2, CancelledType DEF TokenInv, DataOK, LinkOK, OneLiveToken, StepPollsLiveToken, Reasons, SubmitSteer, workVars
  <2> QED BY <2>1, <2>2, <2>3 DEF TokenInv
<1>3. ASSUME Interrupt PROVE TokenInv'
  <2>1. FlagsOK'
    BY <1>3 DEF TokenInv, FlagsOK, Interrupt, workVars
  <2>2. DataOK'
    BY <1>3, CancelledType DEF TokenInv, DataOK, LinkOK, OneLiveToken, Reasons, WorkerPoints, Interrupt, workVars
  <2>3. LinkOK'
    BY <1>3, CancelledType DEF TokenInv, DataOK, LinkOK, OneLiveToken, StepPollsLiveToken, Reasons, Interrupt, workVars
  <2> QED BY <2>1, <2>2, <2>3 DEF TokenInv
<1>4. ASSUME StartActivity PROVE TokenInv'
  <2>1. FlagsOK'
    BY <1>4 DEF TokenInv, FlagsOK, StartActivity, BeginActivity, workVars
  <2>2. DataOK'
    BY <1>4, NewTokenType DEF TokenInv, DataOK, LinkOK, OneLiveToken, WorkerPoints, StartActivity, BeginActivity, workVars
  <2>3. LinkOK'
    BY <1>4, NewTokenType DEF TokenInv, DataOK, LinkOK, OneLiveToken, StepPollsLiveToken, StartActivity, BeginActivity, workVars
  <2> QED BY <2>1, <2>2, <2>3 DEF TokenInv
<1>5. ASSUME RetrySave PROVE TokenInv'
  <2>1. FlagsOK'
    BY <1>5 DEF TokenInv, FlagsOK, RetrySave, workVars, uiVars
  <2>2. DataOK'
    BY <1>5 DEF TokenInv, DataOK, LinkOK, OneLiveToken, WorkerPoints, RetrySave, workVars, uiVars
  <2>3. LinkOK'
    BY <1>5 DEF TokenInv, DataOK, LinkOK, OneLiveToken, StepPollsLiveToken, RetrySave, workVars, uiVars
  <2> QED BY <2>1, <2>2, <2>3 DEF TokenInv
<1>6. ASSUME BeginStep PROVE TokenInv'
  <2>1. FlagsOK'
    BY <1>6 DEF TokenInv, FlagsOK, BeginStep, uiVars
  <2>2. DataOK'
    BY <1>6 DEF TokenInv, DataOK, LinkOK, OneLiveToken, WorkerPoints, BeginStep, uiVars
  <2>3. LinkOK'
    BY <1>6 DEF TokenInv, DataOK, LinkOK, OneLiveToken, StepPollsLiveToken, BeginStep, uiVars
  <2> QED BY <2>1, <2>2, <2>3 DEF TokenInv
<1>7. ASSUME PrepareRaises PROVE TokenInv'
  <2>1. FlagsOK'
    BY <1>7 DEF TokenInv, FlagsOK, PrepareRaises, workVars, uiVars
  <2>2. DataOK'
    BY <1>7 DEF TokenInv, DataOK, LinkOK, OneLiveToken, WorkerPoints, PrepareRaises, workVars, uiVars
  <2>3. LinkOK'
    BY <1>7 DEF TokenInv, DataOK, LinkOK, OneLiveToken, StepPollsLiveToken, PrepareRaises, workVars, uiVars
  <2> QED BY <2>1, <2>2, <2>3 DEF TokenInv
<1>8. ASSUME EndStep PROVE TokenInv'
  <2>1. FlagsOK'
    BY <1>8 DEF TokenInv, FlagsOK, EndStep, workVars, uiVars
  <2>2. DataOK'
    BY <1>8 DEF TokenInv, DataOK, LinkOK, OneLiveToken, WorkerPoints, EndStep, workVars, uiVars
  <2>3. LinkOK'
    BY <1>8 DEF TokenInv, DataOK, LinkOK, OneLiveToken, StepPollsLiveToken, EndStep, workVars, uiVars
  <2> QED BY <2>1, <2>2, <2>3 DEF TokenInv
<1>9. ASSUME CheckToken PROVE TokenInv'
  <2>1. FlagsOK'
    BY <1>9 DEF TokenInv, FlagsOK, CheckToken, workVars, uiVars
  <2>2. DataOK'
    BY <1>9 DEF TokenInv, DataOK, LinkOK, OneLiveToken, WorkerPoints, CheckToken, workVars, uiVars
  <2>3. LinkOK'
    BY <1>9 DEF TokenInv, DataOK, LinkOK, OneLiveToken, StepPollsLiveToken, CheckToken, workVars, uiVars
  <2> QED BY <2>1, <2>2, <2>3 DEF TokenInv
<1>10. ASSUME TakePending PROVE TokenInv'
  <2>1. FlagsOK'
    BY <1>10 DEF TokenInv, FlagsOK, TakePending, uiVars
  <2>2. DataOK'
    BY <1>10 DEF TokenInv, DataOK, LinkOK, OneLiveToken, WorkerPoints, TakePending, uiVars
  <2>3. LinkOK'
    BY <1>10 DEF TokenInv, DataOK, LinkOK, OneLiveToken, StepPollsLiveToken, TakePending, uiVars
  <2> QED BY <2>1, <2>2, <2>3 DEF TokenInv
<1>11. ASSUME RenewToken PROVE TokenInv'
  <2>1. FlagsOK'
    BY <1>11 DEF TokenInv, FlagsOK, RenewToken, uiVars
  <2>2. DataOK'
    BY <1>11, NewTokenType DEF TokenInv, DataOK, LinkOK, OneLiveToken, WorkerPoints, RenewToken, uiVars
  <2>3. LinkOK'
    BY <1>11, NewTokenType DEF TokenInv, DataOK, LinkOK, OneLiveToken, StepPollsLiveToken, RenewToken, uiVars
  <2> QED BY <2>1, <2>2, <2>3 DEF TokenInv
<1>12. ASSUME CommitState PROVE TokenInv'
  <2>1. FlagsOK'
    BY <1>12 DEF TokenInv, FlagsOK, CommitState, uiVars
  <2>2. DataOK'
    BY <1>12 DEF TokenInv, DataOK, LinkOK, OneLiveToken, WorkerPoints, CommitState, uiVars
  <2>3. LinkOK'
    BY <1>12 DEF TokenInv, DataOK, LinkOK, OneLiveToken, StepPollsLiveToken, CommitState, uiVars
  <2> QED BY <2>1, <2>2, <2>3 DEF TokenInv
<1>13. ASSUME EndActivity PROVE TokenInv'
  <2>1. FlagsOK'
    BY <1>13 DEF TokenInv, FlagsOK, EndActivity, workVars, uiVars
  <2>2. DataOK'
    BY <1>13 DEF TokenInv, DataOK, LinkOK, OneLiveToken, WorkerPoints, EndActivity, workVars, uiVars
  <2>3. LinkOK'
    BY <1>13 DEF TokenInv, DataOK, LinkOK, OneLiveToken, StepPollsLiveToken, EndActivity, workVars, uiVars
  <2> QED BY <2>1, <2>2, <2>3 DEF TokenInv
<1>14. ASSUME FinishActivity PROVE TokenInv'
  <2>1. FlagsOK'
    BY <1>14 DEF TokenInv, FlagsOK, FinishActivity, uiVars
  <2>2. DataOK'
    BY <1>14 DEF TokenInv, DataOK, LinkOK, OneLiveToken, WorkerPoints, FinishActivity, uiVars
  <2>3. LinkOK'
    BY <1>14 DEF TokenInv, DataOK, LinkOK, OneLiveToken, StepPollsLiveToken, FinishActivity, uiVars
  <2> QED BY <2>1, <2>2, <2>3 DEF TokenInv
<1>15. ASSUME ActivityRaises PROVE TokenInv'
  <2>1. FlagsOK'
    BY <1>15 DEF TokenInv, FlagsOK, ActivityRaises, workVars, uiVars
  <2>2. DataOK'
    BY <1>15 DEF TokenInv, DataOK, LinkOK, OneLiveToken, WorkerPoints, ActivityRaises, workVars, uiVars
  <2>3. LinkOK'
    BY <1>15 DEF TokenInv, DataOK, LinkOK, OneLiveToken, StepPollsLiveToken, ActivityRaises, workVars, uiVars
  <2> QED BY <2>1, <2>2, <2>3 DEF TokenInv
<1>16. ASSUME UNCHANGED vars PROVE TokenInv'
  <2>1. FlagsOK'
    BY <1>16 DEF TokenInv, FlagsOK, vars
  <2>2. DataOK'
    BY <1>16 DEF TokenInv, DataOK, LinkOK, OneLiveToken, WorkerPoints, vars
  <2>3. LinkOK'
    BY <1>16 DEF TokenInv, DataOK, LinkOK, OneLiveToken, StepPollsLiveToken, vars
  <2> QED BY <2>1, <2>2, <2>3 DEF TokenInv
<1> QED
  BY <1>1, <1>2, <1>3, <1>4, <1>5, <1>6, <1>7, <1>8, <1>9, <1>10, <1>11, <1>12, <1>13, <1>14, <1>15, <1>16 DEF Next, User, Worker

\* The invariant holds in every reachable state.
THEOREM TokenInvariant == Spec => []TokenInv
  BY InitTokenInv, NextTokenInv, PTL DEF Spec

\* Types, and the limit of the steer queue.
THEOREM TypeCorrect == Spec => []TypeOK
<1>1. TokenInv => TypeOK
  BY TypeOKSplit DEF TokenInv
<1> QED BY TokenInvariant, <1>1, PTL

\* Interface, controller and worker agree on the live token.
THEOREM LiveTokenUnique == Spec => []OneLiveToken
<1>1. TokenInv => OneLiveToken
  BY DEF TokenInv, LinkOK
<1> QED BY TokenInvariant, <1>1, PTL

\* Esc and steers always reach the step that runs.
THEOREM StepIsCancellable == Spec => []StepPollsLiveToken
<1>1. TokenInv => StepPollsLiveToken
  BY DEF TokenInv, LinkOK
<1> QED BY TokenInvariant, <1>1, PTL
-----------------------------------------------------------------------------
\* The worker takes from the queue only after a steer that no Esc preceded.
TakeAfterSteer == pc \in {"take", "renew"} => reasons[stepToken] = "steered"

\* First reason wins, token by token.
LEMMA CancelledKeeps ==
  ASSUME NEW r \in Seq(Reasons), NEW t \in 1 .. Len(r), NEW reason \in Reasons,
         NEW u \in 1 .. Len(r), r[u] # "none"
  PROVE  Cancelled(r, t, reason)[u] = r[u]
  BY DEF Cancelled

LEMMA NextTakeAfterSteer ==
  TokenInv /\ TakeAfterSteer /\ [Next]_vars => TakeAfterSteer'
<1> SUFFICES ASSUME TokenInv, TakeAfterSteer, [Next]_vars
             PROVE  TakeAfterSteer'
  OBVIOUS
<1> USE DEF TokenInv, DataOK, LinkOK, OneLiveToken, TakeAfterSteer, WorkerPoints
<1>1. ASSUME NEW text \in Texts, SubmitIdle(text) PROVE TakeAfterSteer'
  BY <1>1 DEF SubmitIdle
<1>0. pc \in {"take", "renew"} => stepToken \in 1 .. Len(reasons)
  BY DEF StepPollsLiveToken
<1>2. ASSUME NEW text \in Texts, SubmitSteer(text) PROVE TakeAfterSteer'
  <2>1. reasons' = Cancelled(reasons, token, "steered") /\ token \in 1 .. Len(reasons)
    BY <1>2 DEF SubmitSteer
  <2>2. pc' = pc /\ stepToken' = stepToken
    BY <1>2 DEF SubmitSteer, workVars
  <2> QED BY <2>1, <2>2, <1>0, CancelledKeeps DEF Reasons
<1>3. ASSUME Interrupt PROVE TakeAfterSteer'
  <2>1. reasons' = Cancelled(reasons, token, "interrupted") /\ token \in 1 .. Len(reasons)
    BY <1>3 DEF Interrupt
  <2>2. pc' = pc /\ stepToken' = stepToken
    BY <1>3 DEF Interrupt, workVars
  <2> QED BY <2>1, <2>2, <1>0, CancelledKeeps DEF Reasons
<1>4. ASSUME StartActivity PROVE TakeAfterSteer'
  BY <1>4 DEF StartActivity
<1>5. ASSUME RenewToken PROVE TakeAfterSteer'
  BY <1>5 DEF RenewToken
<1>6. ASSUME \/ RetrySave \/ BeginStep \/ PrepareRaises \/ EndStep \/ CheckToken
             \/ TakePending \/ CommitState \/ EndActivity \/ ActivityRaises \/ FinishActivity
             \/ UNCHANGED vars
      PROVE  TakeAfterSteer'
  BY <1>6 DEF RetrySave, BeginStep, PrepareRaises, EndStep, CheckToken, TakePending,
     CommitState, EndActivity, ActivityRaises, FinishActivity, vars, workVars, uiVars
<1> QED
  BY <1>1, <1>2, <1>3, <1>4, <1>5, <1>6 DEF Next, User, Worker

\* One step cannot undo an Esc, nor take from the queue after it.
LEMMA EscStep ==
  ASSUME TokenInv, TakeAfterSteer, [Next]_vars,
         active, reasons[token] = "interrupted"
  PROVE  /\ reasons'[token] = "interrupted"
         /\ batch' \in {batch, << >>}
<1> USE DEF TokenInv, DataOK, LinkOK, OneLiveToken
<1>1. CASE \E text \in Texts : SubmitIdle(text)
  BY <1>1 DEF SubmitIdle
<1>2. CASE \E text \in Texts : SubmitSteer(text)
  <2>1. reasons' = Cancelled(reasons, token, "steered") /\ batch' = batch
    BY <1>2 DEF SubmitSteer, workVars
  <2>2. token \in 1 .. Len(reasons) /\ "steered" \in Reasons
    BY DEF Reasons
  <2>3. Cancelled(reasons, token, "steered")[token] = reasons[token]
    BY <2>2, CancelledKeeps
  <2> QED BY <2>1, <2>3
<1>3. CASE Interrupt
  BY <1>3, CancelledKeeps DEF Interrupt, workVars, Reasons
<1>4. CASE StartActivity
  BY <1>4 DEF StartActivity
<1>5. CASE RenewToken
  BY <1>5, NewTokenType DEF RenewToken
<1>6. CASE TakePending
  BY <1>6 DEF TakePending, TakeAfterSteer, StepPollsLiveToken
<1>7. CASE \/ RetrySave \/ BeginStep \/ PrepareRaises \/ EndStep \/ CheckToken
           \/ CommitState \/ EndActivity \/ ActivityRaises \/ FinishActivity \/ UNCHANGED vars
  BY <1>7 DEF RetrySave, BeginStep, PrepareRaises, EndStep, CheckToken, CommitState,
     EndActivity, ActivityRaises, FinishActivity, vars, workVars, uiVars
<1> QED
  BY <1>1, <1>2, <1>3, <1>4, <1>5, <1>6, <1>7 DEF Next, User, Worker

\* An Esc that came before any steer is final, however the user and the worker
\* interleave.
THEOREM EscFinal == Spec => EscIsFinal
<1>1. Init => TakeAfterSteer
  BY DEF Init, TakeAfterSteer
<1>2. Spec => [](TokenInv /\ TakeAfterSteer)
  BY InitTokenInv, NextTokenInv, NextTakeAfterSteer, <1>1, PTL DEF Spec
<1>3. TokenInv /\ TakeAfterSteer /\ [Next]_vars
      => [(active /\ reasons[token] = "interrupted")
            => /\ reasons'[token] = "interrupted"
               /\ batch' \in {batch, << >>}]_vars
  BY EscStep
<1> QED BY <1>2, <1>3, PTL DEF Spec, EscIsFinal
-----------------------------------------------------------------------------
\* The texts on their way: in the conversation, with the worker, in the queue.
Line == conversation \o batch \o pending

\* A text is submitted once, so what was accepted is not there to be submitted again.
AcceptedOnce == \A k \in 1 .. Len(acknowledged) : acknowledged[k] \notin unsent

\* What is on its way was accepted, and wherever two of its texts were accepted,
\* they were accepted in this order.
InOrder ==
  /\ \A i \in 1 .. Len(Line) : \E k \in 1 .. Len(acknowledged) : acknowledged[k] = Line[i]
  /\ \A i, j \in 1 .. Len(Line) : i < j =>
       \A k, l \in 1 .. Len(acknowledged) :
         acknowledged[k] = Line[i] /\ acknowledged[l] = Line[j] => k < l

\* The worker holds no texts while it takes some, and between two turns nothing is queued.
HandsEmpty ==
  /\ pc \in {"idle", "step", "check", "take", "activity"} => batch = << >>
  /\ pc = "idle" => pending = << >>

OrderInv == TokenInv /\ AcceptedOnce /\ InOrder /\ HandsEmpty

\* Where the texts of a line are.
LEMMA ThreeParts ==
  ASSUME NEW c \in Seq(Texts), NEW b \in Seq(Texts), NEW p \in Seq(Texts)
  PROVE  /\ c \o b \o p \in Seq(Texts)
         /\ Len(c \o b \o p) = Len(c) + Len(b) + Len(p)
         /\ \A i \in 1 .. Len(c) : (c \o b \o p)[i] = c[i]
         /\ \A i \in 1 .. Len(b) : (c \o b \o p)[Len(c) + i] = b[i]
         /\ \A i \in 1 .. Len(p) : (c \o b \o p)[Len(c) + Len(b) + i] = p[i]
  OBVIOUS

\* Moving the middle part, or dropping the end of a line, keeps what is left of it.
LEMMA PartsMoved ==
  ASSUME NEW c \in Seq(Texts), NEW b \in Seq(Texts), NEW p \in Seq(Texts)
  PROVE  /\ (c \o b) \o << >> \o p = c \o b \o p
         /\ c \o p \o << >> = c \o << >> \o p
         /\ Len(c \o << >> \o << >>) <= Len(c \o b \o p)
         /\ \A i \in 1 .. Len(c \o << >> \o << >>) : (c \o << >> \o << >>)[i] = (c \o b \o p)[i]
<1>1. << >> \in Seq(Texts) /\ Len(<< >>) = 0
  OBVIOUS
<1>2. (c \o b) \o << >> = c \o b
  OBVIOUS
<1>3. (c \o p) \o << >> = c \o p /\ c \o << >> = c
  OBVIOUS
<1>4. c \o << >> \o << >> = c
  BY <1>3
<1> QED BY <1>1, <1>2, <1>3, <1>4, ThreeParts

LEMMA LastAppended ==
  ASSUME NEW c \in Seq(Texts), NEW b \in Seq(Texts), NEW p \in Seq(Texts), NEW text \in Texts
  PROVE  /\ c \o b \o Append(p, text) = Append(c \o b \o p, text)
         /\ c \o <<text>> \o << >> = Append(c \o << >> \o << >>, text)
<1>1. ASSUME NEW s \in Seq(Texts) PROVE s \o Append(p, text) = Append(s \o p, text)
  <2>1. <<text>> \in Seq(Texts) /\ Append(p, text) = p \o <<text>>
    BY AppendIsConcat
  <2>2. s \o p \in Seq(Texts) /\ Append(s \o p, text) = (s \o p) \o <<text>>
    BY AppendIsConcat
  <2> QED BY <2>1, <2>2, ConcatAssociative
<1>2. c \o b \in Seq(Texts)
  OBVIOUS
<1>3. c \o << >> = c /\ (c \o <<text>>) \o << >> = c \o <<text>> /\ c \o <<text>> = Append(c, text)
  OBVIOUS
<1> QED BY <1>1, <1>2, <1>3

\* A text accepted now comes last on its way, as it was accepted last.
LEMMA AcceptText ==
  ASSUME OrderInv, NEW text \in unsent, Line' = Append(Line, text),
         acknowledged' = Append(acknowledged, text), unsent' = unsent \ {text}
  PROVE  AcceptedOnce' /\ InOrder'
<1>1. /\ Line \in Seq(Texts) /\ acknowledged \in Seq(Texts) /\ text \in Texts
  BY ThreeParts DEF OrderInv, TokenInv, DataOK, Line
<1> DEFINE n == Len(acknowledged)
           m == Len(Line)
           line == Line'
<1>2. /\ n \in Nat /\ m \in Nat /\ Len(acknowledged') = n + 1 /\ Len(line) = m + 1
      /\ acknowledged'[n + 1] = text /\ line[m + 1] = text
      /\ \A k \in 1 .. n : acknowledged'[k] = acknowledged[k]
      /\ \A i \in 1 .. m : line[i] = Line[i]
  BY <1>1
<1>3. /\ \A k \in 1 .. n : acknowledged[k] # text /\ acknowledged[k] \notin unsent
      /\ \A i \in 1 .. m : \E k \in 1 .. n : acknowledged[k] = Line[i]
      /\ \A i, j \in 1 .. m : i < j =>
           \A k, l \in 1 .. n : acknowledged[k] = Line[i] /\ acknowledged[l] = Line[j] => k < l
  BY DEF OrderInv, AcceptedOnce, InOrder
<1> HIDE DEF n, m, line
<1>4. \A i \in 1 .. m : Line[i] # text
  BY <1>3
<1>5. \A k \in 1 .. (n + 1) : acknowledged'[k] \notin unsent'
  BY <1>2, <1>3
<1>6. \A i \in 1 .. (m + 1) : \E k \in 1 .. (n + 1) : acknowledged'[k] = line[i]
  <2> SUFFICES ASSUME NEW i \in 1 .. (m + 1) PROVE \E k \in 1 .. (n + 1) : acknowledged'[k] = line[i]
    OBVIOUS
  <2>1. CASE i = m + 1
    <3>1. n + 1 \in 1 .. (n + 1)
      BY <1>2
    <3> QED BY <1>2, <2>1, <3>1
  <2>2. CASE i \in 1 .. m
    <3>1. PICK k \in 1 .. n : acknowledged[k] = Line[i]
      BY <1>3, <2>2
    <3>2. k \in 1 .. (n + 1)
      BY <1>2
    <3> QED BY <1>2, <2>2, <3>1, <3>2
  <2> QED BY <1>2, <2>1, <2>2
<1>7. ASSUME NEW i \in 1 .. (m + 1), NEW j \in 1 .. (m + 1), i < j,
             NEW k \in 1 .. (n + 1), NEW l \in 1 .. (n + 1),
             acknowledged'[k] = line[i], acknowledged'[l] = line[j]
      PROVE  k < l
  <2>1. i \in 1 .. m
    BY <1>2, <1>7
  <2>2. k \in 1 .. n
    <3>1. line[i] # text
      BY <1>2, <1>4, <2>1
    <3>2. k # n + 1
      BY <1>2, <1>7, <3>1
    <3> QED BY <1>2, <3>2
  <2>3. CASE j = m + 1
    <3>1. ~(l \in 1 .. n)
      BY <1>2, <1>3, <1>7, <2>3
    <3> QED BY <1>2, <2>2, <3>1
  <2>4. CASE j \in 1 .. m
    <3>1. line[j] # text
      BY <1>2, <1>4, <2>4
    <3>2. l # n + 1
      BY <1>2, <1>7, <3>1
    <3>3. l \in 1 .. n
      BY <1>2, <3>2
    <3> QED BY <1>2, <1>3, <1>7, <2>1, <2>2, <2>4, <3>3
  <2> QED BY <1>2, <2>3, <2>4
<1>8. AcceptedOnce'
  BY <1>2, <1>5 DEF AcceptedOnce
<1>9. InOrder'
  <2>1. \A i \in 1 .. Len(line) : \E k \in 1 .. Len(acknowledged') : acknowledged'[k] = line[i]
    BY <1>2, <1>6
  <2>2. \A i, j \in 1 .. Len(line) : i < j =>
          \A k, l \in 1 .. Len(acknowledged') :
            acknowledged'[k] = line[i] /\ acknowledged'[l] = line[j] => k < l
    BY <1>2, <1>7
  <2> QED BY <2>1, <2>2 DEF InOrder, line
<1> QED BY <1>8, <1>9

\* A step that accepts nothing, and loses at most the end of the line.
LEMMA LineKept ==
  ASSUME AcceptedOnce, InOrder, Line \in Seq(Texts), Line' \in Seq(Texts),
         UNCHANGED <<acknowledged, unsent>>,
         Len(Line') <= Len(Line), \A i \in 1 .. Len(Line') : Line'[i] = Line[i]
  PROVE  AcceptedOnce' /\ InOrder'
<1>1. \A i \in 1 .. Len(Line') : i \in 1 .. Len(Line)
  OBVIOUS
<1>2. AcceptedOnce'
  BY DEF AcceptedOnce
<1> DEFINE line == Line'
<1>3. \A i \in 1 .. Len(line) : line[i] = Line[i] /\ i \in 1 .. Len(Line)
  BY <1>1
<1> HIDE DEF line
<1>4. /\ \A i \in 1 .. Len(line) : \E k \in 1 .. Len(acknowledged) : acknowledged[k] = line[i]
      /\ \A i, j \in 1 .. Len(line) : i < j =>
           \A k, l \in 1 .. Len(acknowledged) :
             acknowledged[k] = line[i] /\ acknowledged[l] = line[j] => k < l
  BY <1>3 DEF InOrder
<1>5. InOrder'
  BY <1>4 DEF InOrder, line
<1> QED BY <1>2, <1>5

LEMMA InitOrderInv == Init => OrderInv
<1> SUFFICES ASSUME Init PROVE OrderInv
  OBVIOUS
<1>1. Line = << >>
  BY DEF Init, Line
<1>2. AcceptedOnce /\ InOrder /\ HandsEmpty
  BY <1>1 DEF Init, AcceptedOnce, InOrder, HandsEmpty
<1> QED BY <1>2, InitTokenInv DEF OrderInv

LEMMA NextOrderInv == OrderInv /\ [Next]_vars => OrderInv'
<1> SUFFICES ASSUME OrderInv, [Next]_vars PROVE OrderInv'
  OBVIOUS
<1> USE DEF OrderInv
<1>0. /\ conversation \in Seq(Texts) /\ batch \in Seq(Texts) /\ pending \in Seq(Texts)
      /\ << >> \in Seq(Texts) /\ Line \in Seq(Texts) /\ Line = conversation \o batch \o pending
      /\ Line' = conversation' \o batch' \o pending'
  BY ThreeParts DEF TokenInv, DataOK, Line
<1>1. TokenInv'
  BY NextTokenInv
<1>2. Line' \in Seq(Texts)
  BY <1>1, ThreeParts DEF TokenInv, DataOK, Line
<1>3. HandsEmpty'
  BY DEF HandsEmpty, TokenInv, LinkOK, OneLiveToken, Next, User, Worker, SubmitIdle, SubmitSteer, Interrupt,
     StartActivity, RetrySave, BeginStep, PrepareRaises, EndStep, CheckToken, TakePending, RenewToken,
     CommitState, EndActivity, ActivityRaises, FinishActivity, BeginActivity, vars, workVars, uiVars
<1>4. ASSUME NEW text \in Texts, SubmitIdle(text) PROVE AcceptedOnce' /\ InOrder'
  <2>1. batch = << >> /\ pending = << >>
    BY <1>4 DEF SubmitIdle, HandsEmpty, TokenInv, LinkOK, OneLiveToken
  <2>2. batch' = <<text>> /\ pending' = << >> /\ conversation' = conversation
    BY <1>4, <2>1 DEF SubmitIdle
  <2>3. Line' = Append(Line, text)
    BY <1>0, <2>1, <2>2, LastAppended
  <2>4. text \in unsent /\ acknowledged' = Append(acknowledged, text) /\ unsent' = unsent \ {text}
    BY <1>4 DEF SubmitIdle
  <2> QED BY <2>3, <2>4, AcceptText
<1>5. ASSUME NEW text \in Texts, SubmitSteer(text) PROVE AcceptedOnce' /\ InOrder'
  <2>1. pending' = Append(pending, text) /\ batch' = batch /\ conversation' = conversation
    BY <1>5 DEF SubmitSteer, workVars
  <2>2. Line' = Append(Line, text)
    BY <1>0, <2>1, LastAppended
  <2>3. text \in unsent /\ acknowledged' = Append(acknowledged, text) /\ unsent' = unsent \ {text}
    BY <1>5 DEF SubmitSteer
  <2> QED BY <2>2, <2>3, AcceptText
<1>6. ASSUME Line' = Line, UNCHANGED <<acknowledged, unsent>> PROVE AcceptedOnce' /\ InOrder'
  BY <1>6 DEF AcceptedOnce, InOrder
<1>7. ASSUME BeginStep PROVE AcceptedOnce' /\ InOrder'
  <2>1. conversation' = conversation \o batch /\ batch' = << >> /\ pending' = pending
    BY <1>7 DEF BeginStep
  <2> QED BY <1>0, <1>6, <1>7, <2>1, PartsMoved DEF BeginStep, uiVars
<1>8. ASSUME TakePending PROVE AcceptedOnce' /\ InOrder'
  <2>1. batch = << >> /\ batch' = pending /\ pending' = << >> /\ conversation' = conversation
    BY <1>8 DEF TakePending, HandsEmpty
  <2> QED BY <1>0, <1>6, <1>8, <2>1, PartsMoved DEF TakePending, uiVars
<1>9. ASSUME FinishActivity PROVE AcceptedOnce' /\ InOrder'
  <2>1. batch' = << >> /\ pending' = << >> /\ conversation' = conversation
    BY <1>9 DEF FinishActivity
  <2> DEFINE left == conversation \o << >> \o << >>
             line == conversation \o batch \o pending
  <2>2. Len(left) <= Len(line) /\ \A i \in 1 .. Len(left) : left[i] = line[i]
    BY <1>0, PartsMoved
  <2>3. Line' = left /\ Line = line
    BY <1>0, <2>1
  <2> HIDE DEF left, line
  <2> QED BY <1>0, <1>2, <1>9, <2>2, <2>3, LineKept DEF FinishActivity, uiVars
<1>10. ASSUME \/ Interrupt \/ StartActivity \/ RetrySave \/ PrepareRaises \/ EndStep \/ CheckToken
              \/ RenewToken \/ CommitState \/ EndActivity \/ ActivityRaises \/ UNCHANGED vars
       PROVE  AcceptedOnce' /\ InOrder'
  <2>1. UNCHANGED <<conversation, batch, pending, acknowledged, unsent>>
    BY <1>10 DEF Interrupt, StartActivity, RetrySave, PrepareRaises, EndStep, CheckToken, RenewToken,
       CommitState, EndActivity, ActivityRaises, vars, workVars, uiVars
  <2> QED BY <1>6, <2>1 DEF Line
<1>11. AcceptedOnce' /\ InOrder'
  BY <1>4, <1>5, <1>7, <1>8, <1>9, <1>10 DEF Next, User, Worker
<1> QED BY <1>1, <1>3, <1>11

\* FirstComeFirstServed: however submissions, steps, failing commits and other
\* activities interleave, what reaches the conversation keeps the order in which
\* the interface accepted it.
THEOREM FirstComeServed == Spec => []FirstComeFirstServed
<1>1. OrderInv => FirstComeFirstServed
  <2> SUFFICES ASSUME OrderInv PROVE FirstComeFirstServed
    OBVIOUS
  <2> DEFINE Accepted(text) == CHOOSE k \in 1 .. Len(acknowledged) : acknowledged[k] = text
  <2>1. ASSUME NEW i \in 1 .. Len(Line), NEW j \in 1 .. Len(Line), i < j
        PROVE  Accepted(Line[i]) < Accepted(Line[j])
    <3>1. /\ \E k \in 1 .. Len(acknowledged) : acknowledged[k] = Line[i]
          /\ \E k \in 1 .. Len(acknowledged) : acknowledged[k] = Line[j]
      BY DEF OrderInv, InOrder
    <3>2. /\ Accepted(Line[i]) \in 1 .. Len(acknowledged) /\ acknowledged[Accepted(Line[i])] = Line[i]
          /\ Accepted(Line[j]) \in 1 .. Len(acknowledged) /\ acknowledged[Accepted(Line[j])] = Line[j]
      BY <3>1
    <3> HIDE DEF Accepted
    <3> QED BY <2>1, <3>2 DEF OrderInv, InOrder
  <2> QED BY <2>1 DEF FirstComeFirstServed, Line
<1> QED BY InitOrderInv, NextOrderInv, <1>1, PTL DEF Spec
=============================================================================
