---------------------------- MODULE AgentManager ----------------------------
(***************************************************************************)
(* The lifecycle of child Agents (agents.py): the records, their worker    *)
(* threads, the terminal events they emit and the two kinds of locks.      *)
(*                                                                         *)
(* Threads.  The controller runs start, followup, stop and wait one after  *)
(* the other (the root turn's worker or a TUI worker; both need the one    *)
(* foreground activity).  The closer is the main thread in close(), which  *)
(* does not wait for the controller.  Every run of an Agent has a thread   *)
(* of its own, named by the Agent and the generation it was launched with. *)
(*                                                                         *)
(* Locks.  AgentManager._lock is `lock'; record.condition is `condition'.  *)
(* Both are re-entrant.  A critical section that takes no other lock is    *)
(* one step; a section that needs a second lock is split where it waits.   *)
(***************************************************************************)
EXTENDS Integers, Sequences, SequencesExt, FiniteSets, FiniteSetsExt

CONSTANTS
  Agents,        \* identities start() may draw; none is drawn twice
  MaxRunning,    \* max_running (4)
  MaxRetained,   \* max_retained (16)
  MaxTurns,      \* bound: runs of one Agent
  MaxRuns,       \* bound: runs in all
  MaxStops,      \* bound: stop requests
  MayClose       \* may the application exit in this behaviour?

ASSUME LimitsAssumption == {MaxRunning, MaxRetained, MaxTurns, MaxRuns} \subseteq Nat \ {0}
ASSUME StopsAssumption == MaxStops \in Nat
ASSUME CloseAssumption == MayClose \in BOOLEAN

VARIABLES
  retained,     \* the keys of _agents, oldest first
  status,       \* record.status
  generation,   \* record.generation; turn_count advances with it
  cancelled,    \* record.token.cancelled
  run,          \* run[a][g]: where the thread of generation g of a is
  verdict,      \* verdict[a][g]: the status that thread is to report, once decided
  reported,     \* reported[a]: how many terminal events of a were appended
  lock,         \* holder of AgentManager._lock
  condition,    \* the generation whose thread holds record.condition while it
                \* waits for _lock, or 0
  caller,       \* the controller: what it does, and to which Agent
  closer,       \* the main thread's position in close()
  toSignal,     \* records close() has yet to signal
  closed,       \* _closed
  stops         \* how many stop requests were made

vars == <<retained, status, generation, cancelled, run, verdict, reported,
          lock, condition, caller, closer, toSignal, closed, stops>>
closeVars == <<closer, toSignal, closed>>

ActiveStatus == {"starting", "running", "stopping"}
TerminalStatus == {"completed", "failed", "stopped"}
Statuses == {"unknown"} \cup ActiveStatus \cup TerminalStatus
Generations == 1 .. MaxTurns
RunPoints == {"none", "enter", "body", "finalize", "finish", "append", "done"}

Idle == [op |-> "idle", agent |-> "none"]
Calling(op, a) == [op |-> op, agent |-> a]

\* _is_active
IsActive(s) == s \in ActiveStatus

Retained == ToSet(retained)

\* running_count
Running == {a \in Retained : IsActive(status[a])}

\* Mutant: eviction takes the oldest record, whatever its status.
OldestOfAny(keys) == 1

\* _evict_terminal_agents: the keys that stay; none is dropped below the limit.
Oldest(keys) ==
  LET terminal == {i \in DOMAIN keys : ~IsActive(status[keys[i]])}
  IN IF terminal = {} THEN 0 ELSE Min(terminal)

Evicted(keys) == IF Len(keys) < MaxRetained THEN keys ELSE RemoveAt(keys, Oldest(keys))

\* Mutant: a closed manager still launches children.
HasCapacityClosed == Cardinality(Running) < MaxRunning

\* _require_capacity
HasCapacity == /\ ~closed
               /\ Cardinality(Running) < MaxRunning

Init ==
  /\ retained = << >>
  /\ status = [a \in Agents |-> "unknown"]
  /\ generation = [a \in Agents |-> 0]
  /\ cancelled = [a \in Agents |-> FALSE]
  /\ run = [a \in Agents |-> [g \in Generations |-> "none"]]
  /\ verdict = [a \in Agents |-> [g \in Generations |-> "unknown"]]
  /\ reported = [a \in Agents |-> 0]
  /\ lock = "free"
  /\ condition = [a \in Agents |-> 0]
  /\ caller = Idle
  /\ closer = "away"
  /\ toSignal = << >>
  /\ closed = FALSE
  /\ stops = 0

(***************************************************************************)
(* The controller.                                                         *)
(***************************************************************************)

\* The record of a's next run: the generation advances, the token is fresh.
NewRun(a) ==
  /\ status' = [status EXCEPT ![a] = "starting"]
  /\ generation' = [generation EXCEPT ![a] = @ + 1]
  /\ cancelled' = [cancelled EXCEPT ![a] = FALSE]

\* How many runs were launched.
Launched == MapThenSumSet(LAMBDA a : generation[a], Agents)

\* Identities are interchangeable: start draws them in one order.
Fresh == {a \in Agents : status[a] = "unknown"}
NextIdentity(a) == a \in Fresh /\ a = CHOOSE b \in Fresh : TRUE

\* start, under _lock: what it checks, and the eviction that makes room.
StartAdmitted(a) ==
  /\ caller = Idle
  /\ lock = "free"
  /\ NextIdentity(a) /\ Launched < MaxRuns
  /\ HasCapacity
  /\ Len(retained) < MaxRetained \/ Oldest(retained) # 0

Start(a) ==
  /\ StartAdmitted(a)
  /\ retained' = Append(Evicted(retained), a)
  /\ NewRun(a)
  /\ run' = [run EXCEPT ![a][1] = "enter"]
  /\ UNCHANGED <<verdict, reported, lock, condition, caller, closeVars, stops>>

\* start, when the thread cannot be launched: the record and its event are taken
\* back, an eviction is not.
StartFails(a) ==
  /\ StartAdmitted(a)
  /\ retained' = Evicted(retained)
  /\ UNCHANGED <<status, generation, cancelled, run, verdict, reported, lock, condition,
                 caller, closeVars, stops>>

\* followup takes _lock, then waits for the condition.
FollowupLock(a) ==
  /\ caller = Idle
  /\ lock = "free"
  /\ a \in Retained
  /\ lock' = "controller"
  /\ caller' = Calling("followup", a)
  /\ UNCHANGED <<retained, status, generation, cancelled, run, verdict, reported,
                 condition, closeVars, stops>>

FollowupAccepted(a) == ~IsActive(status[a]) /\ HasCapacity

\* followup under both locks: accepted and launched, or, refused or not launched,
\* an error that leaves the record as it was.
Followup(a) ==
  /\ caller = Calling("followup", a)
  /\ condition[a] = 0
  /\ lock' = "free"
  /\ caller' = Idle
  /\ \/ /\ FollowupAccepted(a)
        /\ generation[a] < MaxTurns /\ Launched < MaxRuns
        /\ NewRun(a)
        /\ run' = [run EXCEPT ![a][generation[a] + 1] = "enter"]
     \/ UNCHANGED <<status, generation, cancelled, run>>
  /\ UNCHANGED <<retained, verdict, reported, condition, closeVars, stops>>

\* The part of stop() and close() that signals one record.
Signal(a) ==
  IF IsActive(status[a])
  THEN /\ status' = [status EXCEPT ![a] = "stopping"]
       /\ cancelled' = [cancelled EXCEPT ![a] = TRUE]
  ELSE UNCHANGED <<status, cancelled>>

\* stop: signals the record, then waits for it.
Stop(a) ==
  /\ caller = Idle
  /\ stops < MaxStops
  /\ a \in Retained
  /\ condition[a] = 0
  /\ Signal(a)
  /\ stops' = stops + 1
  /\ caller' = IF IsActive(status[a]) THEN Calling("wait", a) ELSE Idle
  /\ UNCHANGED <<retained, generation, run, verdict, reported, lock, condition,
                 closeVars>>

\* wait returns when the record is terminal or the time is up.
WaitReturns ==
  /\ caller.op = "wait"
  /\ condition[caller.agent] = 0
  /\ caller' = Idle
  /\ UNCHANGED <<retained, status, generation, cancelled, run, verdict, reported, lock,
                 condition, closeVars, stops>>

(***************************************************************************)
(* close().                                                                *)
(***************************************************************************)
CloseBegin ==
  /\ MayClose
  /\ closer = "away"
  /\ lock = "free"
  /\ lock' = "closer"
  /\ closed' = TRUE
  /\ closer' = "signal"
  /\ toSignal' = retained
  /\ UNCHANGED <<retained, status, generation, cancelled, run, verdict, reported,
                 condition, caller, stops>>

CloseSignal ==
  /\ closer = "signal"
  /\ toSignal # << >>
  /\ condition[Head(toSignal)] = 0
  /\ Signal(Head(toSignal))
  /\ toSignal' = Tail(toSignal)
  /\ UNCHANGED <<retained, generation, run, verdict, reported, lock, condition, caller,
                 closer, closed, stops>>

CloseRelease ==
  /\ closer = "signal"
  /\ toSignal = << >>
  /\ lock' = "free"
  /\ closer' = "join"
  /\ UNCHANGED <<retained, status, generation, cancelled, run, verdict, reported,
                 condition, caller, toSignal, closed, stops>>

\* Every thread was joined, or ten seconds have passed.
CloseJoin ==
  /\ closer = "join"
  /\ closer' = "closed"
  /\ UNCHANGED <<retained, status, generation, cancelled, run, verdict, reported, lock,
                 condition, caller, toSignal, closed, stops>>

(***************************************************************************)
(* The thread of generation g of Agent a: _run and _finish.                *)
(***************************************************************************)
Goto(a, g, point) == run' = [run EXCEPT ![a][g] = point]

\* _run's first section.  A run cancelled before it began reports "stopped" from
\* inside the section, so it goes for _lock while it holds the condition.
Enter(a, g) ==
  /\ run[a][g] = "enter"
  /\ condition[a] = 0
  /\ \/ /\ generation[a] # g
        /\ Goto(a, g, "done")
        /\ UNCHANGED <<status, condition>>
     \/ /\ generation[a] = g
        /\ cancelled[a]
        /\ status' = [status EXCEPT ![a] = "stopped"]
        /\ condition' = [condition EXCEPT ![a] = g]
        /\ Goto(a, g, "append")
     \/ /\ generation[a] = g
        /\ ~cancelled[a]
        /\ status' = [status EXCEPT ![a] = "running"]
        /\ Goto(a, g, "body")
        /\ UNCHANGED condition
  /\ UNCHANGED <<retained, generation, cancelled, verdict, reported, lock, caller, closeVars,
                 stops>>

\* Decide which status to report, and go on to _finish.
Decide(a, g, s) ==
  /\ verdict' = [verdict EXCEPT ![a][g] = s]
  /\ Goto(a, g, "finish")

\* The except clause: "stopped" if the token is cancelled by now, else "failed".
DecideRaised(a, g) == Decide(a, g, IF cancelled[a] THEN "stopped" ELSE "failed")

\* The child's turn returned (run_turn looks at the token only now and then) or
\* raised; its private execution sessions are closed.
BodyEnds(a, g) ==
  /\ run[a][g] = "body"
  /\ \/ cancelled[a] /\ Decide(a, g, "stopped")
     \/ ~cancelled[a] /\ Goto(a, g, "finalize") /\ UNCHANGED verdict
     \/ DecideRaised(a, g)
  /\ UNCHANGED <<retained, status, generation, cancelled, reported, lock, condition,
                 caller, closeVars, stops>>

\* _finalize_workspace commits the child's delta, or raises.
Finalize(a, g) ==
  /\ run[a][g] = "finalize"
  /\ Decide(a, g, "completed") \/ DecideRaised(a, g)
  /\ UNCHANGED <<retained, status, generation, cancelled, reported, lock, condition,
                 caller, closeVars, stops>>

\* Mutant: only a "running" record is finished.
FinishRunningOnly(a, g) ==
  /\ run[a][g] = "finish"
  /\ condition[a] = 0
  /\ IF generation[a] = g /\ status[a] = "running"
     THEN /\ status' = [status EXCEPT ![a] = verdict[a][g]]
          /\ Goto(a, g, "append")
     ELSE /\ Goto(a, g, "done")
          /\ UNCHANGED status
  /\ verdict' = [verdict EXCEPT ![a][g] = "unknown"]
  /\ UNCHANGED <<retained, generation, cancelled, reported, lock, condition, caller,
                 closeVars, stops>>

\* Mutant: the event is appended inside the condition.
FinishHoldingCondition(a, g) ==
  /\ run[a][g] = "finish"
  /\ condition[a] = 0
  /\ status' = [status EXCEPT ![a] = verdict[a][g]]
  /\ condition' = [condition EXCEPT ![a] = g]
  /\ Goto(a, g, "append")
  /\ UNCHANGED <<retained, generation, cancelled, verdict, reported, lock, caller,
                 closeVars, stops>>

\* _finish's first section: only the record's own generation reports, once.
Finish(a, g) ==
  /\ run[a][g] = "finish"
  /\ condition[a] = 0
  /\ IF generation[a] = g /\ IsActive(status[a])
     THEN /\ status' = [status EXCEPT ![a] = verdict[a][g]]
          /\ Goto(a, g, "append")
     ELSE /\ Goto(a, g, "done")
          /\ UNCHANGED status
  /\ verdict' = [verdict EXCEPT ![a][g] = "unknown"]
  /\ UNCHANGED <<retained, generation, cancelled, reported, lock, condition,
                 caller, closeVars, stops>>

\* Mutant: a run that was followed up in the meantime drops its event.
AppendEventIfCurrent(a, g) ==
  /\ run[a][g] = "append"
  /\ lock = "free"
  /\ reported' = IF generation[a] = g
                 THEN [reported EXCEPT ![a] = @ + 1]
                 ELSE reported
  /\ condition' = [condition EXCEPT ![a] = IF @ = g THEN 0 ELSE @]
  /\ Goto(a, g, "done")
  /\ UNCHANGED <<retained, status, generation, cancelled, verdict, lock, caller,
                 closeVars, stops>>

\* _finish's second section: the terminal event.
AppendEvent(a, g) ==
  /\ run[a][g] = "append"
  /\ lock = "free"
  /\ reported' = [reported EXCEPT ![a] = @ + 1]
  /\ condition' = [condition EXCEPT ![a] = IF @ = g THEN 0 ELSE @]
  /\ Goto(a, g, "done")
  /\ UNCHANGED <<retained, status, generation, cancelled, verdict, lock, caller,
                 closeVars, stops>>

(***************************************************************************)
(* Behaviours.  The root model and the user need not do anything; a thread *)
(* that can take a step takes it, and a child's turn ends (32 steps, 32    *)
(* tool calls, bounded provider calls).                                    *)
(***************************************************************************)
Controller == \/ \E a \in Agents : \/ Start(a)
                                   \/ StartFails(a)
                                   \/ FollowupLock(a)
                                   \/ Followup(a)
                                   \/ Stop(a)
              \/ WaitReturns

Closer == CloseBegin \/ CloseSignal \/ CloseRelease \/ CloseJoin

Thread(a, g) == \/ Enter(a, g)
                \/ BodyEnds(a, g)
                \/ Finalize(a, g)
                \/ Finish(a, g)
                \/ AppendEvent(a, g)

Next == Controller \/ Closer \/ \E a \in Agents, g \in Generations : Thread(a, g)

Spec == Init /\ [][Next]_vars

Fairness ==
  /\ \A a \in Agents : WF_vars(Followup(a))
  /\ WF_vars(WaitReturns)
  /\ WF_vars(CloseSignal) /\ WF_vars(CloseRelease) /\ WF_vars(CloseJoin)
  /\ \A a \in Agents, g \in Generations : WF_vars(Thread(a, g))

FairSpec == Spec /\ Fairness

-----------------------------------------------------------------------------
(***************************************************************************)
(* Properties.                                                             *)
(***************************************************************************)
\* Types, and the manager's limits: "at most four records can be in starting,
\* running, or stopping; at most 16 remain addressable"; every record that is
\* active, and so every live child, is one of them, whatever eviction drops.
TypeOK ==
  /\ retained \in Seq(Agents) /\ Len(retained) <= MaxRetained
  /\ IsInjective(retained)
  /\ status \in [Agents -> Statuses]
  /\ generation \in [Agents -> 0 .. MaxTurns]
  /\ cancelled \in [Agents -> BOOLEAN]
  /\ run \in [Agents -> [Generations -> RunPoints]]
  /\ verdict \in [Agents -> [Generations -> Statuses]]
  /\ reported \in [Agents -> Nat]
  /\ lock \in {"free", "controller", "closer"}
  /\ condition \in [Agents -> 0 .. MaxTurns]
  /\ caller.op \in {"idle", "followup", "wait"} /\ caller.agent \in Agents \cup {"none"}
  /\ closer \in {"away", "signal", "join", "closed"}
  /\ toSignal \in Seq(Agents)
  /\ closed \in BOOLEAN
  /\ stops \in 0 .. MaxStops
  /\ Cardinality(Running) <= MaxRunning
  /\ \A a \in Agents : IsActive(status[a]) => a \in Retained

\* Once close() has signalled every record, no child runs on uncancelled, whatever
\* start and followup were doing when it began.
NoneRunsPastClose ==
  closer \in {"join", "closed"} => \A a \in Agents : IsActive(status[a]) => cancelled[a]

\* Every run reports once: when the threads of an Agent are gone, its terminal
\* events number its runs, and there are never more.
EveryRunReportedOnce ==
  \A a \in Agents :
    LET pendingRuns == {g \in Generations : run[a][g] \notin {"none", "done"}}
    IN reported[a] + Cardinality(pendingRuns) = generation[a]

\* Every active child settles, unless a stop meets close() (see CloseReturns).
AgentsSettle ==
  \A a \in Agents :
    IsActive(status[a]) ~> ~IsActive(status[a]) \/ (closer = "signal" /\ stops > 0)

\* close() returns where no child was stopped before, although it waits for the
\* records' conditions under the manager's lock: it gives the threads ten seconds.
CloseReturnsUnlessStopped == (closer = "signal") ~> (closer = "closed") \/ stops > 0

\* close() returns.  It need not: a child stopped before its thread began reports
\* with its condition held.
CloseReturns == (closer = "signal") ~> (closer = "closed")

=============================================================================
