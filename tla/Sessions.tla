------------------------------ MODULE Sessions ------------------------------
(***************************************************************************)
(* One durable session (sessions.py): its hash-chained JSONL log, its row  *)
(* in the SQLite index with the writer lease, and the processes that open  *)
(* a SessionStore on the project, one after the other or at the same time. *)
(*                                                                         *)
(* The log and the index are separate: the check of the lease, the append  *)
(* to the log and the update of the index are three steps, and a process   *)
(* may crash, or another act, between them; so may they between the steps  *)
(* of a retry.  A line of the log has a number of its own, which stands    *)
(* for its hash: a record whose prev is not the number of the line before  *)
(* it breaks the chain.                                                    *)
(***************************************************************************)
EXTENDS Integers, Sequences, SequencesExt, FiniteSets

CONSTANTS
  Procs,        \* processes of the project
  MaxTokens,    \* bound: owner tokens drawn (create and resume)
  MaxTurns      \* bound: completed turns to be saved

ASSUME BoundsAssumption == MaxTokens \in Nat /\ MaxTurns \in Nat

VARIABLES
  log,        \* the lines of the log
  tail,       \* "clean", or "torn": the file ends in part of a line
  written,    \* how many lines were ever written
  row,        \* the session's row of the index
  pc,         \* where each process is
  token,      \* handle.owner
  lastHash,   \* handle.last_hash
  memory,     \* the turns of the handle's conversation, 0 for a record without one
  dirty,      \* handle.dirty
  closing,    \* is the append in hand the session_closed record?
  next,       \* the sequence number _append took from the row
  wrote,      \* the line _append has written
  seen,       \* what _recover_pending keeps of the row, and the line it goes by
  found,      \* what _repair_index made of the row and of the log
  tokens,     \* how many owner tokens were drawn
  turns,      \* how many turns were completed
  acked,      \* history: turns whose commit_state or retry_save returned
  misled,     \* history: those whose retry_save had lost the lease at its end
  mishaps     \* history: what the chain does not survive

vars == <<log, tail, written, row, pc, token, lastHash, memory, dirty, closing, next, wrote,
          seen, found, tokens, turns, acked, misled, mishaps>>
fileVars == <<log, tail, written>>
handleVars == <<token, lastHash, memory, dirty>>
appendVars == <<closing, next, wrote>>
countVars == <<tokens, turns>>
historyVars == <<acked, misled, mishaps>>

RetryPoints == {"look", "cut", "records", "adopt"}
Points == {"off", "read", "upsert", "ready", "insert", "replay", "live", "append",
           "index", "release"} \cup RetryPoints
Kinds == {"created", "committed", "closed", "garbage"}
Mishaps == {"glued", "late", "cut", "interrupted"}

Line(kind, seq, prev, turn, hash) ==
  [kind |-> kind, seq |-> seq, prev |-> prev, turn |-> turn, hash |-> hash]
Header == Line("created", 0, 0, 0, 1)

NoRow == [status |-> "none", lastSeq |-> 0, lastHash |-> 0, owner |-> 0, expired |-> FALSE]
NothingFound == [indexed |-> FALSE, readable |-> FALSE, closed |-> FALSE, seq |-> 0, hash |-> 0]
NothingSeen == [seq |-> 0, hash |-> 0, line |-> 0]

\* _read_records accepts the log; a torn last line it ignores.
Readable(lines) ==
  /\ lines # << >>
  /\ \A k \in DOMAIN lines : /\ lines[k].kind # "garbage"
                             /\ lines[k].seq = k - 1
                             /\ lines[k].prev = IF k = 1 THEN 0 ELSE lines[k - 1].hash

\* What _restore_records brings back of each record: its turn, or 0 for none.
Replayed(lines) == [k \in DOMAIN lines |-> lines[k].turn]

\* _append_line: what is written after a torn tail becomes one line with it.
Appended(line) ==
  Append(log, IF tail = "torn" THEN Line("garbage", 0, 0, 0, line.hash) ELSE line)

Holds(p) == row.owner # 0 /\ row.owner = token[p]

Released == [row EXCEPT !.owner = 0, !.expired = FALSE]

Goto(p, point) == pc' = [pc EXCEPT ![p] = point]

Init ==
  /\ log = << >>
  /\ tail = "clean"
  /\ written = 0
  /\ row = NoRow
  /\ pc = [p \in Procs |-> "off"]
  /\ token = [p \in Procs |-> 0]
  /\ lastHash = [p \in Procs |-> 0]
  /\ memory = [p \in Procs |-> << >>]
  /\ dirty = [p \in Procs |-> FALSE]
  /\ closing = [p \in Procs |-> FALSE]
  /\ next = [p \in Procs |-> 0]
  /\ wrote = [p \in Procs |-> 0]
  /\ seen = [p \in Procs |-> NothingSeen]
  /\ found = [p \in Procs |-> NothingFound]
  /\ tokens = 0
  /\ turns = 0
  /\ acked = {}
  /\ misled = {}
  /\ mishaps = {}

\* The process ends: its handle is gone, a lease it still has stays in the row.
Exit(p) ==
  /\ Goto(p, "off")
  /\ token' = [token EXCEPT ![p] = 0]
  /\ lastHash' = [lastHash EXCEPT ![p] = 0]
  /\ memory' = [memory EXCEPT ![p] = << >>]
  /\ dirty' = [dirty EXCEPT ![p] = FALSE]
  /\ closing' = [closing EXCEPT ![p] = FALSE]
  /\ next' = [next EXCEPT ![p] = 0]
  /\ wrote' = [wrote EXCEPT ![p] = 0]
  /\ seen' = [seen EXCEPT ![p] = NothingSeen]
  /\ found' = [found EXCEPT ![p] = NothingFound]

(***************************************************************************)
(* SessionStore.__init__: _repair_index.                                   *)
(***************************************************************************)

\* The rows are read; a session with a live lease, or without a log, is left alone.
Boot(p) ==
  /\ pc[p] = "off"
  /\ LET skipped == log = << >> \/ (row.owner # 0 /\ ~row.expired)
     IN  /\ found' = [found EXCEPT ![p].indexed = ~skipped /\ row # NoRow]
         /\ Goto(p, IF skipped THEN "ready" ELSE "read")
  /\ UNCHANGED <<fileVars, row, handleVars, appendVars, seen, countVars, historyVars>>

RepairRead(p) ==
  /\ pc[p] = "read"
  /\ found' = [found EXCEPT ![p] = [indexed |-> found[p].indexed,
                                    readable |-> Readable(log),
                                    closed |-> Last(log).kind = "closed",
                                    seq |-> Last(log).seq,
                                    hash |-> Last(log).hash]]
  /\ Goto(p, "upsert")
  /\ UNCHANGED <<fileVars, row, handleVars, appendVars, seen, countVars, historyVars>>

\* The row is written from what was read, whatever happened to it since.
Repaired(p) ==
  IF found[p].readable
  THEN [status |-> IF found[p].closed THEN "closed" ELSE "active",
        lastSeq |-> found[p].seq, lastHash |-> found[p].hash,
        owner |-> 0, expired |-> FALSE]
  ELSE IF found[p].indexed THEN [Released EXCEPT !.status = "damaged"] ELSE row

RepairWrite(p) ==
  /\ pc[p] = "upsert"
  /\ row' = Repaired(p)
  /\ found' = [found EXCEPT ![p] = NothingFound]
  /\ Goto(p, "ready")
  /\ UNCHANGED <<fileVars, handleVars, appendVars, seen, countVars, historyVars>>

(***************************************************************************)
(* create, resume, soft_delete.                                            *)
(***************************************************************************)
\* Mutant: the owner token is the same for every process.
DrawTokenReused(p) ==
  /\ tokens < MaxTokens
  /\ tokens' = tokens + 1
  /\ token' = [token EXCEPT ![p] = 1]

DrawToken(p) ==
  /\ tokens < MaxTokens
  /\ tokens' = tokens + 1
  /\ token' = [token EXCEPT ![p] = tokens + 1]

\* create writes the header of a log of its own.
CreateLog(p) ==
  /\ pc[p] = "ready"
  /\ log = << >>
  /\ DrawToken(p)
  /\ log' = <<Header>>
  /\ written' = 1
  /\ Goto(p, "insert")
  /\ UNCHANGED <<tail, row, lastHash, memory, dirty, appendVars, seen, found, turns, historyVars>>

\* create inserts the row; the insert fails if a repair has inserted it already.
CreateRow(p) ==
  /\ pc[p] = "insert"
  /\ \/ /\ row = NoRow
        /\ row' = [status |-> "active", lastSeq |-> 0, lastHash |-> 1,
                   owner |-> token[p], expired |-> FALSE]
        /\ lastHash' = [lastHash EXCEPT ![p] = 1]
        /\ Goto(p, "live")
        /\ UNCHANGED <<token, memory, dirty, appendVars, seen, found>>
     \/ /\ Exit(p)
        /\ UNCHANGED row
  /\ UNCHANGED <<fileVars, countVars, historyVars>>

\* resume: _acquire_lease takes a lease that is free or has expired.
Resume(p) ==
  /\ pc[p] = "ready"
  /\ row.status \in {"active", "closed"}
  /\ row.owner = 0 \/ row.expired
  /\ DrawToken(p)
  /\ row' = [row EXCEPT !.status = "active", !.owner = token'[p], !.expired = FALSE]
  /\ Goto(p, "replay")
  /\ UNCHANGED <<fileVars, lastHash, memory, dirty, appendVars, seen, found, turns, historyVars>>

\* resume: _replay rebuilds the conversation and refreshes the row; a log it
\* cannot read marks the session damaged, a deleted session is refused.
Replay(p) ==
  /\ pc[p] = "replay"
  /\ \/ /\ Readable(log)
        /\ row.status # "deleted"
        /\ row' = IF Holds(p)
                  THEN [row EXCEPT !.lastSeq = Last(log).seq, !.lastHash = Last(log).hash]
                  ELSE row
        /\ lastHash' = [lastHash EXCEPT ![p] = Last(log).hash]
        /\ memory' = [memory EXCEPT ![p] = Replayed(log)]
        /\ Goto(p, "live")
        /\ UNCHANGED <<token, dirty, appendVars, seen, found>>
     \/ /\ Readable(log)
        /\ row.status = "deleted"
        /\ Exit(p)
        /\ UNCHANGED row
     \/ /\ ~Readable(log)
        /\ row' = [Released EXCEPT !.status = "damaged"]
        /\ Exit(p)
  /\ UNCHANGED <<fileVars, countVars, historyVars>>

\* --delete-session: the row is hidden and its lease, whoever's it is, cleared.
SoftDelete(p) ==
  /\ pc[p] = "ready"
  /\ row.status \in {"active", "closed"}
  /\ row' = [Released EXCEPT !.status = "deleted"]
  /\ Exit(p)
  /\ UNCHANGED <<fileVars, countVars, historyVars>>

(***************************************************************************)
(* commit_state, close and _append.                                        *)
(***************************************************************************)

\* _append's check: the lease is ours and nobody else has written.
MayAppend(p) == Holds(p) /\ row.lastHash = lastHash[p]

\* _append up to the write; what it raises leaves the handle dirty.
BeginAppend(p) ==
  IF MayAppend(p)
  THEN /\ next' = [next EXCEPT ![p] = row.lastSeq + 1]
       /\ dirty' = [dirty EXCEPT ![p] = FALSE]
       /\ Goto(p, "append")
  ELSE /\ dirty' = [dirty EXCEPT ![p] = TRUE]
       /\ Goto(p, "live")
       /\ UNCHANGED next

\* Mutant: a dirty handle takes the next turn.
CommitWhileDirty(p) ==
  /\ pc[p] = "live"
  /\ turns < MaxTurns
  /\ turns' = turns + 1
  /\ memory' = [memory EXCEPT ![p] = Append(@, turns + 1)]
  /\ IF dirty[p] THEN UNCHANGED <<pc, next, dirty>> ELSE BeginAppend(p)
  /\ UNCHANGED <<fileVars, row, token, lastHash, closing, wrote, seen, found, tokens,
                 historyVars>>

\* A turn is completed and commit_state called; a dirty handle takes no turn.
Commit(p) ==
  /\ pc[p] = "live"
  /\ ~dirty[p]
  /\ turns < MaxTurns
  /\ turns' = turns + 1
  /\ memory' = [memory EXCEPT ![p] = Append(@, turns + 1)]
  /\ BeginAppend(p)
  /\ UNCHANGED <<fileVars, row, token, lastHash, closing, wrote, seen, found, tokens,
                 historyVars>>

\* close of a clean handle appends session_closed; if it may not, the process ends
\* with its lease as it is.
BeginClose(p) ==
  IF MayAppend(p)
  THEN /\ next' = [next EXCEPT ![p] = row.lastSeq + 1]
       /\ wrote' = [wrote EXCEPT ![p] = 0]
       /\ closing' = [closing EXCEPT ![p] = TRUE]
       /\ Goto(p, "append")
       /\ UNCHANGED <<handleVars, seen, found>>
  ELSE Exit(p)

Close(p) ==
  /\ pc[p] = "live"
  /\ ~dirty[p]
  /\ BeginClose(p)
  /\ UNCHANGED <<fileVars, row, countVars, historyVars>>

\* close of a dirty handle only releases its lease.
CloseDirty(p) ==
  /\ pc[p] = "live"
  /\ dirty[p]
  /\ row' = IF Holds(p) THEN Released ELSE row
  /\ Exit(p)
  /\ UNCHANGED <<fileVars, countVars, historyVars>>

\* _append_line.
AppendLine(p) ==
  /\ pc[p] = "append"
  /\ log' = Appended(IF closing[p]
                     THEN Line("closed", next[p], lastHash[p], 0, written + 1)
                     ELSE Line("committed", next[p], lastHash[p], Last(memory[p]), written + 1))
  /\ tail' = "clean"
  /\ written' = written + 1
  /\ wrote' = [wrote EXCEPT ![p] = written + 1]
  /\ mishaps' = mishaps \cup (IF tail = "torn" THEN {"glued"} ELSE {})
                       \cup (IF Holds(p) THEN {} ELSE {"late"})
  /\ Goto(p, "index")
  /\ UNCHANGED <<row, handleVars, closing, next, seen, found, countVars, acked, misled>>

\* _append returns or raises: what it had in hand is gone.
EndAppend(p) ==
  /\ next' = [next EXCEPT ![p] = 0]
  /\ wrote' = [wrote EXCEPT ![p] = 0]

\* What an exception does to the handle: commit_state marks it dirty, close lets
\* the process end.
Fails(p) ==
  IF closing[p]
  THEN Exit(p)
  ELSE /\ dirty' = [dirty EXCEPT ![p] = TRUE]
       /\ EndAppend(p)
       /\ Goto(p, "live")
       /\ UNCHANGED <<token, lastHash, memory, closing, seen, found>>

\* The write fails before, or in the middle of, the line.
AppendFails(p) ==
  /\ pc[p] = "append"
  /\ tail' \in {tail, "torn"}
  /\ Fails(p)
  /\ UNCHANGED <<log, written, row, countVars, historyVars>>

\* _append's UPDATE renews the lease; it matches no row once the lease is lost, and
\* _append does not notice.
UpdateIndex(p) ==
  /\ pc[p] = "index"
  /\ row' = IF Holds(p)
            THEN [row EXCEPT !.status = "active", !.lastSeq = next[p],
                             !.lastHash = wrote[p], !.expired = FALSE]
            ELSE row
  /\ lastHash' = [lastHash EXCEPT ![p] = wrote[p]]
  /\ acked' = IF closing[p] THEN acked ELSE acked \cup {Last(memory[p])}
  /\ EndAppend(p)
  /\ Goto(p, IF closing[p] THEN "release" ELSE "live")
  /\ UNCHANGED <<fileVars, token, memory, dirty, closing, seen, found, countVars, misled,
                 mishaps>>

\* The UPDATE raises: the record is in the log, not in the index.
UpdateFails(p) ==
  /\ pc[p] = "index"
  /\ Fails(p)
  /\ UNCHANGED <<fileVars, row, countVars, historyVars>>

\* Ctrl-C in the plain CLI while a turn is saved is no Exception, so the handle is
\* not marked dirty: it ends the program, which closes the session as if clean.
Interrupt(p) ==
  /\ pc[p] \in {"append", "index"}
  /\ ~closing[p]
  /\ tail' \in {tail} \cup (IF pc[p] = "append" THEN {"torn"} ELSE {})
  /\ mishaps' = mishaps \cup (IF pc[p] = "index" /\ MayAppend(p) THEN {"interrupted"} ELSE {})
  /\ BeginClose(p)
  /\ UNCHANGED <<log, written, row, countVars, acked, misled>>

\* close marks the row closed and gives the lease back.
CloseRow(p) ==
  /\ pc[p] = "release"
  /\ row' = IF Holds(p) THEN [Released EXCEPT !.status = "closed"] ELSE row
  /\ Exit(p)
  /\ UNCHANGED <<fileVars, countVars, historyVars>>

(***************************************************************************)
(* retry_save and _recover_pending.                                        *)
(***************************************************************************)

\* The log's last record is the one after a given record.
Follows(seq, hash) == Last(log).seq = seq + 1 /\ Last(log).prev = hash

\* _recover_pending checks the lease once, and keeps the row it has read.
RetryCheck(p) ==
  /\ pc[p] = "live"
  /\ dirty[p]
  /\ Holds(p)
  /\ seen' = [seen EXCEPT ![p] = [seq |-> row.lastSeq, hash |-> row.lastHash, line |-> 0]]
  /\ Goto(p, "look")
  /\ UNCHANGED <<fileVars, row, handleVars, appendVars, found, countVars, historyVars>>

\* _truncate_incomplete_tail reads the file: a torn tail is to be cut off after the
\* line that is complete.
RetryLook(p) ==
  /\ pc[p] = "look"
  /\ IF tail = "torn"
     THEN /\ seen' = [seen EXCEPT ![p].line = Last(log).hash]
          /\ Goto(p, "cut")
     ELSE /\ Goto(p, "records")
          /\ UNCHANGED seen
  /\ UNCHANGED <<fileVars, row, handleVars, appendVars, found, countVars, historyVars>>

\* It cuts the file where that line ends, whatever was written since.  If another
\* cut has removed the line, the same offset may be anywhere, or past the end.
RetryCut(p) ==
  /\ pc[p] = "cut"
  /\ LET ends == {k \in DOMAIN log : log[k].hash = seen[p].line}
     IN  /\ \E k \in IF ends = {} THEN DOMAIN log ELSE ends : log' = SubSeq(log, 1, k)
         /\ tail' \in {"clean"} \cup (IF ends = {} THEN {"torn"} ELSE {})
  /\ mishaps' = mishaps \cup (IF log' = log THEN {} ELSE {"cut"})
  /\ Goto(p, "records")
  /\ UNCHANGED <<written, row, handleVars, appendVars, seen, found, countVars, acked, misled>>

\* Mutant: the record is appended again without a look at the log.
RetryBlindly(p) ==
  /\ pc[p] = "records"
  /\ BeginAppend(p)
  /\ seen' = [seen EXCEPT ![p] = NothingSeen]
  /\ UNCHANGED <<fileVars, row, token, lastHash, memory, closing, wrote, found, countVars,
                 historyVars>>

\* Mutant: the record is appended again after whatever the log ends in.
RetryAfterLast(p) ==
  /\ pc[p] = "records"
  /\ Readable(log)
  /\ next' = [next EXCEPT ![p] = Last(log).seq + 1]
  /\ lastHash' = [lastHash EXCEPT ![p] = Last(log).hash]
  /\ dirty' = [dirty EXCEPT ![p] = FALSE]
  /\ seen' = [seen EXCEPT ![p] = NothingSeen]
  /\ Goto(p, "append")
  /\ UNCHANGED <<fileVars, row, token, memory, closing, wrote, found, countVars, historyVars>>

\* The records are read.  When the row's is the last, retry_save calls commit_state,
\* whose own check is part of this step; when one more follows, it is adopted.
RetryRead(p) ==
  /\ pc[p] = "records"
  /\ Readable(log)
  /\ \/ /\ Last(log).seq = seen[p].seq
        /\ BeginAppend(p)
        /\ seen' = [seen EXCEPT ![p] = NothingSeen]
     \/ /\ Follows(seen[p].seq, seen[p].hash)
        /\ seen' = [seen EXCEPT ![p].line = Last(log).hash]
        /\ Goto(p, "adopt")
        /\ UNCHANGED <<next, dirty>>
  /\ UNCHANGED <<fileVars, row, token, lastHash, memory, closing, wrote, found, countVars,
                 historyVars>>

\* The UPDATE takes the record over.  It matches no row once the lease is lost, and
\* retry_save returns all the same: the record may then be another's.
RetryAdopt(p) ==
  /\ pc[p] = "adopt"
  /\ row' = IF Holds(p)
            THEN [row EXCEPT !.lastSeq = seen[p].seq + 1, !.lastHash = seen[p].line,
                             !.expired = FALSE]
            ELSE row
  /\ lastHash' = [lastHash EXCEPT ![p] = seen[p].line]
  /\ dirty' = [dirty EXCEPT ![p] = FALSE]
  /\ acked' = acked \cup {Last(memory[p])}
  /\ misled' = misled \cup (IF Holds(p) THEN {} ELSE {Last(memory[p])})
  /\ seen' = [seen EXCEPT ![p] = NothingSeen]
  /\ Goto(p, "live")
  /\ UNCHANGED <<fileVars, token, memory, appendVars, found, countVars, mishaps>>

\* The log cannot be read, or has diverged from the row, or a call fails: the handle
\* stays dirty.
RetryFails(p) ==
  /\ pc[p] \in RetryPoints
  /\ seen' = [seen EXCEPT ![p] = NothingSeen]
  /\ Goto(p, "live")
  /\ UNCHANGED <<fileVars, row, handleVars, appendVars, found, countVars, historyVars>>

(***************************************************************************)
(* Crashes and the passing of time.                                        *)
(***************************************************************************)

\* A process dies; in the middle of a write it may leave part of a line.
Crash(p) ==
  /\ pc[p] # "off"
  /\ tail' \in {tail} \cup (IF pc[p] = "append" THEN {"torn"} ELSE {})
  /\ Exit(p)
  /\ UNCHANGED <<log, written, row, countVars, historyVars>>

\* An hour passes without a renewal.
LeaseExpires ==
  /\ row.owner # 0
  /\ ~row.expired
  /\ row' = [row EXCEPT !.expired = TRUE]
  /\ UNCHANGED <<fileVars, pc, handleVars, appendVars, seen, found, countVars, historyVars>>

Process(p) ==
  \/ Boot(p) \/ RepairRead(p) \/ RepairWrite(p)
  \/ CreateLog(p) \/ CreateRow(p) \/ Resume(p) \/ Replay(p) \/ SoftDelete(p)
  \/ Commit(p) \/ Close(p) \/ CloseDirty(p)
  \/ AppendLine(p) \/ AppendFails(p) \/ UpdateIndex(p) \/ UpdateFails(p) \/ CloseRow(p)
  \/ RetryCheck(p) \/ RetryLook(p) \/ RetryCut(p) \/ RetryRead(p) \/ RetryAdopt(p)
  \/ RetryFails(p)
  \/ Interrupt(p) \/ Crash(p)

Next == LeaseExpires \/ \E p \in Procs : Process(p)

Spec == Init /\ [][Next]_vars

-----------------------------------------------------------------------------
(***************************************************************************)
(* Properties.                                                             *)
(***************************************************************************)

\* Types; an owner token is drawn once and held by one process.
TypeOK ==
  /\ log \in Seq([kind : Kinds, seq : Nat, prev : Nat, turn : 0 .. MaxTurns, hash : Nat])
  /\ tail \in {"clean", "torn"}
  /\ written \in Nat
  /\ row \in [status : {"none", "active", "closed", "deleted", "damaged"},
              lastSeq : Nat, lastHash : Nat, owner : 0 .. MaxTokens, expired : BOOLEAN]
  /\ pc \in [Procs -> Points]
  /\ token \in [Procs -> 0 .. MaxTokens]
  /\ lastHash \in [Procs -> Nat]
  /\ memory \in [Procs -> Seq(0 .. MaxTurns)]
  /\ dirty \in [Procs -> BOOLEAN]
  /\ closing \in [Procs -> BOOLEAN]
  /\ next \in [Procs -> Nat]
  /\ wrote \in [Procs -> Nat]
  /\ seen \in [Procs -> [seq : Nat, hash : Nat, line : Nat]]
  /\ found \in [Procs -> [indexed : BOOLEAN, readable : BOOLEAN, closed : BOOLEAN,
                          seq : Nat, hash : Nat]]
  /\ tokens \in 0 .. MaxTokens
  /\ turns \in 0 .. MaxTurns
  /\ acked \subseteq 1 .. turns
  /\ misled \subseteq acked
  /\ mishaps \subseteq Mishaps
  /\ \A p, q \in Procs : token[p] = token[q] /\ token[p] # 0 => p = q

\* The chain breaks in four ways only: a line is written onto the torn tail of an
\* earlier write, or by a process that lost its lease after it was checked; a retry
\* cuts off what was written after its look at the log; or Ctrl-C comes between a
\* line and the UPDATE of the index, and session_closed follows with the same number.
\* Crashes, failed index updates, repairs, deletions and every other retry, one that
\* adopts another's record included, never break it.
ChainBreaksOnlyByMishap == (log # << >> /\ mishaps = {}) => Readable(log)

\* Whatever is retried, repaired or replayed, a turn is in the log at most
\* once, and one that commit_state or /session save reported as saved is there,
\* but for those whose retry adopted a record after its lease was lost.
TurnsAreKeptOnce ==
  /\ \A j, k \in DOMAIN log : log[j].turn = log[k].turn /\ log[k].turn # 0 => j = k
  /\ mishaps = {} => acked \ misled \subseteq ToSet(Replayed(log))

\* A dirty handle that still has its lease can be saved: the log is readable and
\* either holds exactly the pending record or accepts it.
RetryCanSave ==
  \A p \in Procs :
    (pc[p] = "live" /\ dirty[p] /\ Holds(p) /\ mishaps = {})
      => \/ Follows(row.lastSeq, row.lastHash) /\ Last(log).turn = Last(memory[p])
         \/ Last(log).seq = row.lastSeq /\ row.lastHash = lastHash[p]

\* What a session promises (SavedTurns): nobody saves a turn without having every
\* turn saved before it, none is recorded twice, nothing recorded is removed, and
\* what commit_state or retry_save reported as saved is recorded.  The mishaps of
\* the chain void the promise, and so does a retry that has lost its lease between
\* its check and its UPDATE: it adopts what may be another's record and reports its
\* own turn as saved.  Even then no turn is recorded twice.
Saved == INSTANCE SavedTurns
  WITH records <- Replayed(log),
       known <- [p \in Procs |-> ToSet(memory[p]) \ {0}],
       confirmed <- acked,
       broken <- mishaps # {} \/ misled # {}

SavesTurns == Saved!Spec

=============================================================================
