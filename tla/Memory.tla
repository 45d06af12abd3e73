------------------------------- MODULE Memory -------------------------------
(***************************************************************************)
(* Long-term memory (memory.py).  A maintenance pass, MemoryManager.sync,  *)
(* takes a lease in the project's database, asks the model for candidates  *)
(* from at most MaxStartup sessions that rest, advances each session's     *)
(* cursor, and then asks the model to consolidate all candidates, which    *)
(* replaces the active automatic memories.  The passes of several          *)
(* processes, the sessions they read and the user's /forget interleave     *)
(* between all of these steps; processes crash, provider calls  *)
(* fail, and a lease may run out while its owner is still working.         *)
(*                                                                         *)
(* A session is the number of its last record; what candidates say is the  *)
(* number of the last record they were extracted from.                     *)
(***************************************************************************)
EXTENDS Integers, Sequences, SequencesExt, FiniteSetsExt

CONSTANTS
  Procs,        \* processes of the project, each with one pass at a time
  MaxSessions,  \* bound: sessions are 1 .. MaxSessions
  MaxSeq,       \* bound: the last record of each session
  MaxMemories,  \* bound: the n-th memory ever stored has the id n
  MaxStartup,   \* MAX_STARTUP_SESSIONS
  Own,          \* the session each process works in, or 0: it is not read by it
  Forces,       \* the values of force it uses: FALSE at startup, TRUE for /memory sync
  Keen          \* the processes that make passes again and again

Free == "free"
Dead == "dead"

ASSUME BoundsAssumption ==
  /\ MaxSessions \in Nat /\ MaxSeq \in [1 .. MaxSessions -> Nat] /\ MaxMemories \in Nat
  /\ MaxStartup \in Nat \ {0}
ASSUME CallersAssumption ==
  /\ Own \in [Procs -> 0 .. MaxSessions]
  /\ Forces \in [Procs -> SUBSET BOOLEAN] /\ Keen \subseteq Procs
  /\ Free \notin Procs /\ Dead \notin Procs

VARIABLES
  \* sessions
  resting,    \* closed, or idle for MIN_IDLE_AGE
  seq,        \* last_seq
  updated,    \* updated_at: the place of each session, the least recent first
  \* memory_candidates
  cursor,     \* source_seq, Nothing when there is no row
  found,      \* what the candidates were extracted from, Nothing when there are none
  \* memory_pipeline
  owner,      \* lease_owner: a process, Dead for one that crashed, or Free
  expired,    \* is lease_expires_at over?
  \* memories
  status,     \* "none" before it is stored
  \* the pass of each process
  pc,
  due,        \* force, or was anything extracted?
  todo,       \* the rows selected and not yet extracted
  evidence,   \* what was read for the row being extracted
  offered,    \* the candidates sent for consolidation
  existing,   \* the ids sent with them
  \* history
  ranOut,     \* did the lease of this pass run out before its end?
  reached,    \* the last record of a session that a promotion was built on
  erased      \* memories forgotten while no pass had sent their ids

sessions   == <<resting, seq, updated>>
candidates == <<cursor, found>>
lease      == <<owner, expired>>
pass       == <<due, todo, evidence, offered, existing>>
vars == <<sessions, candidates, lease, status, pc, pass, ranOut, reached, erased>>

Sessions == 1 .. MaxSessions
Ids      == 1 .. MaxMemories
Nothing  == -1
Seqs     == {Nothing} \union UNION {0 .. MaxSeq[s] : s \in Sessions}
NoEvidence == [s \in Sessions |-> Nothing]

Set(f, x, value) == [f EXCEPT ![x] = value]

Init ==
  /\ resting = [s \in Sessions |-> FALSE]
  /\ seq = [s \in Sessions |-> 0]
  /\ updated = [s \in Sessions |-> s]
  /\ cursor = NoEvidence /\ found = NoEvidence
  /\ owner = Free /\ expired = FALSE
  /\ status = [m \in Ids |-> "none"]
  /\ pc = [p \in Procs |-> "idle"]
  /\ due = [p \in Procs |-> FALSE]
  /\ todo = [p \in Procs |-> << >>]
  /\ evidence = [p \in Procs |-> Nothing]
  /\ offered = [p \in Procs |-> NoEvidence]
  /\ existing = [p \in Procs |-> {}]
  /\ ranOut = [p \in Procs |-> FALSE]
  /\ reached = NoEvidence
  /\ erased = {}

---------------------------------------------------------------------------
(* The sessions, as far as a pass sees them.  One that is deleted or found *)
(* damaged is no longer selected, like one that goes on, and not modelled. *)

(* A commit; a resumed session is active again with its first commit.      *)
Extend(s) ==
  /\ seq[s] < MaxSeq[s]
  /\ seq' = Set(seq, s, seq[s] + 1)
  /\ resting' = Set(resting, s, FALSE)
  /\ updated' = [t \in Sessions |-> IF t = s THEN MaxSessions
                                   ELSE IF updated[t] > updated[s] THEN updated[t] - 1
                                   ELSE updated[t]]
  /\ UNCHANGED <<candidates, lease, status, pc, pass, ranOut, reached, erased>>

(* It is closed, or six hours pass. *)
Rest(s) ==
  /\ ~resting[s]
  /\ resting' = Set(resting, s, TRUE)
  /\ UNCHANGED <<seq, updated, candidates, lease, status, pc, pass, ranOut, reached, erased>>

---------------------------------------------------------------------------
(* The user, from any process at any time.  Explicit memories, of          *)
(* /remember, are in the same table but no pass reads or changes them.     *)

Unused == {m \in Ids : status[m] = "none"}
NewId(m) == m \in Unused /\ \A n \in Unused : m <= n

(* /forget, of an automatic memory. *)
Forget(m) ==
  /\ status[m] \notin {"none", "forgotten"}
  /\ status' = Set(status, m, "forgotten")
  /\ erased' = IF \E p \in Procs : pc[p] = "consolidating" /\ m \in existing[p]
                 THEN erased ELSE erased \union {m}
  /\ UNCHANGED <<sessions, candidates, lease, pc, pass, ranOut, reached>>

---------------------------------------------------------------------------
(* One pass.                                                               *)

Eligible(p, s) == resting[s] /\ s # Own[p] /\ seq[s] > cursor[s]

(* ORDER BY updated_at LIMIT MaxStartup; there is one such sequence.       *)
EligibleSessions(p) ==
  {ids \in BoundedSeq(Sessions, MaxStartup) :
     /\ \A i \in DOMAIN ids : Eligible(p, ids[i])
     /\ \A i, j \in DOMAIN ids : i < j => updated[ids[i]] < updated[ids[j]]
     /\ \A s \in Sessions \ ToSet(ids) : Eligible(p, s) =>
          /\ Len(ids) = MaxStartup
          /\ \A i \in DOMAIN ids : updated[ids[i]] < updated[s]}

Rows(ids) == [i \in DOMAIN ids |-> [session |-> ids[i], seq |-> seq[ids[i]]]]

\* Mutant: /memory sync is a pass like any other.
NeverAtFirst(f) == FALSE

DueAtFirst(f) == f

(* The lease is taken and the rows are selected: nothing depends on the    *)
(* time between the two.  A pass that meets a lease in force returns an    *)
(* error and changes nothing.                                              *)
Acquire(p, f) ==
  /\ pc[p] = "idle"
  /\ owner = Free \/ expired
  /\ owner' = p /\ expired' = FALSE
  /\ due' = Set(due, p, DueAtFirst(f))
  /\ \E ids \in EligibleSessions(p) : todo' = Set(todo, p, Rows(ids))
  /\ pc' = Set(pc, p, "extracting")
  /\ UNCHANGED <<sessions, candidates, status, evidence, offered, existing, ranOut,
                 reached, erased>>

(* The log is read when its turn comes; it may have grown since. *)
ReadEvidence(p) ==
  /\ pc[p] = "extracting" /\ todo[p] # << >>
  /\ evidence' = Set(evidence, p, seq[Head(todo[p]).session])
  /\ pc' = Set(pc, p, "asking")
  /\ UNCHANGED <<sessions, candidates, lease, status, due, todo, offered, existing,
                 ranOut, reached, erased>>

\* Mutant: the cursor is set to the session's last record of now.
CursorOfNow(p) == seq[Head(todo[p]).session]

CursorAfter(p) == Head(todo[p]).seq

(* A valid answer, perhaps without any memory in it. *)
StoreExtraction(p) ==
  LET s == Head(todo[p]).session IN
  /\ pc[p] = "asking"
  /\ cursor' = Set(cursor, s, CursorAfter(p))
  /\ \E result \in {evidence[p], Nothing} : found' = Set(found, s, result)
  /\ due' = Set(due, p, TRUE)
  /\ todo' = Set(todo, p, Tail(todo[p]))
  /\ evidence' = Set(evidence, p, Nothing)
  /\ pc' = Set(pc, p, "extracting")
  /\ UNCHANGED <<sessions, lease, status, offered, existing, ranOut, reached, erased>>

\* Mutant: the ids of memories that are no longer active are sent too.
IdsOfAnyStatus == {m \in Ids : status[m] # "none"}

ActiveAutomatic == {m \in Ids : status[m] = "active"}

AskConsolidation(p) ==
  /\ pc[p] = "extracting" /\ todo[p] = << >>
  /\ due[p] /\ found # NoEvidence
  /\ offered' = Set(offered, p, found)
  /\ existing' = Set(existing, p, ActiveAutomatic)
  /\ due' = Set(due, p, FALSE)
  /\ pc' = Set(pc, p, "consolidating")
  /\ UNCHANGED <<sessions, candidates, lease, status, todo, evidence, ranOut, reached,
                 erased>>

(* The pass is over but for the lease: what it knew is gone.               *)
Finish(p) ==
  /\ pc' = Set(pc, p, "releasing")
  /\ due' = Set(due, p, FALSE)
  /\ todo' = Set(todo, p, << >>) /\ evidence' = Set(evidence, p, Nothing)
  /\ offered' = Set(offered, p, NoEvidence) /\ existing' = Set(existing, p, {})
  /\ UNCHANGED <<sessions, candidates, lease, ranOut, erased>>

SkipConsolidation(p) ==
  /\ pc[p] = "extracting" /\ todo[p] = << >>
  /\ ~due[p] \/ found = NoEvidence
  /\ Finish(p)
  /\ UNCHANGED <<status, reached>>

(* A valid answer: some of the ids it was sent and at most one new memory  *)
(* replace the active automatic memories, in one transaction.              *)
Promote(p) ==
  /\ pc[p] = "consolidating"
  /\ \E kept \in SUBSET existing[p], new \in SUBSET {m \in Ids : NewId(m)} :
       status' = [m \in Ids |->
         IF m \in kept \union new THEN "active"
         ELSE IF m \in ActiveAutomatic THEN "superseded" ELSE status[m]]
  /\ reached' = [s \in Sessions |-> Max({reached[s], offered[p][s]})]
  /\ Finish(p)

(* Any failure ends the pass: an unreadable log, a provider that raises or *)
(* answers in an invalid shape, a database that stays busy.  One before    *)
(* the provider is asked leaves what one after it leaves.                  *)
Fail(p) ==
  /\ pc[p] \in {"asking", "consolidating"}
  /\ Finish(p)
  /\ UNCHANGED <<status, reached>>

\* Mutant: the lease is given back whoever has it.
OwnerAfterAny(p) == Free

OwnerAfter(p) == IF owner = p THEN Free ELSE owner

Release(p) ==
  /\ pc[p] = "releasing"
  /\ owner' = OwnerAfter(p)
  /\ expired' = (expired /\ OwnerAfter(p) # Free)
  /\ pc' = Set(pc, p, "idle")
  /\ ranOut' = Set(ranOut, p, FALSE)
  /\ UNCHANGED <<sessions, candidates, status, pass, reached, erased>>

(* The process is gone, the lease stays.                                   *)
Crash(p) ==
  /\ pc[p] # "idle"
  /\ pc' = Set(pc, p, "idle")
  /\ due' = Set(due, p, FALSE)
  /\ todo' = Set(todo, p, << >>) /\ evidence' = Set(evidence, p, Nothing)
  /\ offered' = Set(offered, p, NoEvidence) /\ existing' = Set(existing, p, {})
  /\ owner' = IF owner = p THEN Dead ELSE owner
  /\ ranOut' = Set(ranOut, p, FALSE)
  /\ UNCHANGED <<sessions, candidates, expired, status, reached, erased>>

(* An hour passes; nothing renews the lease. *)
Expire ==
  /\ owner # Free /\ ~expired
  /\ expired' = TRUE
  /\ ranOut' = [p \in Procs |-> ranOut[p] \/ owner = p]
  /\ UNCHANGED <<sessions, candidates, owner, status, pc, pass, reached, erased>>

---------------------------------------------------------------------------

Step(p) ==
  \/ ReadEvidence(p) \/ StoreExtraction(p)
  \/ AskConsolidation(p) \/ SkipConsolidation(p) \/ Promote(p)
  \/ Fail(p) \/ Release(p)

Next ==
  \/ \E s \in Sessions : Extend(s) \/ Rest(s)
  \/ \E m \in Ids : Forget(m)
  \/ \E p \in Procs : (\E f \in Forces[p] : Acquire(p, f)) \/ Step(p) \/ Crash(p)
  \/ Expire

Spec == Init /\ [][Next]_vars

(* Crashes stop one day and time passes; a pass of a keen process goes on  *)
(* to an end or a failure, another is started again and again, and a       *)
(* provider that is asked again and again answers validly at last.  The    *)
(* other processes may hang in the middle of a pass.                       *)
FairSpec ==
  /\ Spec /\ <>[][\A p \in Procs : ~Crash(p)]_vars /\ WF_vars(Expire)
  /\ \A p \in Keen : /\ WF_vars(Step(p))
                     /\ SF_vars(\E f \in Forces[p] : Acquire(p, f))
                     /\ SF_vars(StoreExtraction(p))
                     /\ SF_vars(Promote(p))

---------------------------------------------------------------------------
(* Types, and what relates the rows: candidates never come from less than  *)
(* the cursor says was read, so that no record is skipped unread.          *)
TypeOK ==
  /\ resting \in [Sessions -> BOOLEAN]
  /\ updated \in [Sessions -> Sessions] /\ IsInjective(updated)
  /\ \A s \in Sessions : /\ seq[s] \in 0 .. MaxSeq[s]
                         /\ cursor[s] \in Nothing .. seq[s]
                         /\ found[s] = Nothing \/ found[s] \in cursor[s] .. seq[s]
  /\ owner \in Procs \union {Dead, Free} /\ expired \in BOOLEAN
  /\ status \in [Ids -> {"none", "active", "superseded", "forgotten"}]
  /\ pc \in [Procs -> {"idle", "extracting", "asking", "consolidating", "releasing"}]
  /\ due \in [Procs -> BOOLEAN]
  /\ \A p \in Procs : todo[p] \in Seq([session : Sessions, seq : Seqs])
                      /\ Len(todo[p]) <= MaxStartup
  /\ evidence \in [Procs -> Seqs]
  /\ offered \in [Procs -> [Sessions -> Seqs]] /\ existing \in [Procs -> SUBSET Ids]
  /\ ranOut \in [Procs -> BOOLEAN]
  /\ reached \in [Sessions -> Seqs]
  /\ erased \subseteq Ids

(* Two passes are at work at once only if the lease of one of them ran out *)
(* while it worked, whatever crashed, was taken over or was given back     *)
(* late in between.                                                        *)
OneMaintainer ==
  \A p, q \in Procs : (p # q /\ pc[p] # "idle" /\ pc[q] # "idle") => ranOut[p] \/ ranOut[q]

(* A memory forgotten while no pass had sent its id to the model does not  *)
(* come back, whatever passes promote later.                               *)
ForgottenStaysForgotten == \A m \in erased : status[m] = "forgotten"

(* What a session at rest says reaches a promotion of the memory set, or   *)
(* gives no candidate: no crash, failed call or lost lease strands it, as  *)
(* long as the passes of a keen process are forced, by /memory sync.       *)
Waiting(s) == /\ resting[s] /\ reached[s] < seq[s]
              /\ ~(cursor[s] = seq[s] /\ found[s] = Nothing)

EvidenceReachesMemory == \A s \in Sessions : Waiting(s) ~> ~Waiting(s)
=============================================================================
