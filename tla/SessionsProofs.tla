---------------------------- MODULE SessionsProofs ----------------------------
(***************************************************************************)
(* Theorems about Sessions, for any number of processes, tokens and turns: *)
(* what can break the chain of a log, that a turn is kept once, that a     *)
(* save that failed can be made again, and that the whole implements       *)
(* SavedTurns.                                                             *)
(***************************************************************************)
EXTENDS Sessions, SequenceTheorems, TLAPS

---------------------------------------------------------------------------
(* Types, and where a process may be with what in hand.                    *)

LineType == [kind : Kinds, seq : Nat, prev : Nat, turn : Nat, hash : Nat]

RowType == [status : {"none", "active", "closed", "deleted", "damaged"},
            lastSeq : Nat, lastHash : Nat, owner : Nat, expired : BOOLEAN]

Finding == [indexed : BOOLEAN, readable : BOOLEAN, closed : BOOLEAN, seq : Nat, hash : Nat]

SeenType == [seq : Nat, hash : Nat, line : Nat]

LogOK ==
  /\ log \in Seq(LineType) /\ written \in Nat
  /\ \A k \in 1 .. Len(log) : log[k].turn <= turns

RowOK ==
  /\ row \in RowType /\ row.owner <= tokens
  /\ row.status = "none" => row = NoRow

CountsOK ==
  /\ tokens \in 0 .. MaxTokens /\ turns \in 0 .. MaxTurns
  /\ acked \subseteq 1 .. turns /\ misled \subseteq acked /\ mishaps \subseteq Mishaps
  /\ tail \in {"clean", "torn"}

TokensOK ==
  /\ token \in [Procs -> Nat] /\ \A p \in Procs : token[p] <= tokens
  /\ \A p, q \in Procs : token[p] = token[q] /\ token[p] # 0 => p = q

HandlesOK ==
  /\ lastHash \in [Procs -> Nat] /\ next \in [Procs -> Nat] /\ wrote \in [Procs -> Nat]
  /\ found \in [Procs -> Finding] /\ seen \in [Procs -> SeenType]
  /\ pc \in [Procs -> Points]

MemoryOK ==
  /\ memory \in [Procs -> Seq(Nat)]
  /\ \A p \in Procs : \A k \in 1 .. Len(memory[p]) : memory[p][k] <= turns

FlagsOK == dirty \in [Procs -> BOOLEAN] /\ closing \in [Procs -> BOOLEAN]

(* A turn was completed and is not yet known to be saved. *)
Saving(p) == dirty[p] \/ (pc[p] \in {"append", "index"} /\ ~closing[p])

Newest(p) == Last(memory[p])

PlacesOK ==
  \A p \in Procs :
    /\ closing[p] => pc[p] \in {"append", "index", "release"}
    /\ pc[p] = "release" => closing[p]
    /\ dirty[p] => pc[p] = "live" \/ pc[p] \in RetryPoints
    /\ pc[p] \in RetryPoints => dirty[p]
    /\ Saving(p) => memory[p] # << >> /\ Newest(p) # 0
    /\ pc[p] \in {"read", "upsert", "insert"} => log # << >>

(* A session without a row has had no lease, so nobody has written to it. *)
BirthOK ==
  /\ row # NoRow => log # << >>
  /\ row = NoRow =>
       /\ log # << >> => log = <<Header>>
       /\ \A p \in Procs : pc[p] \in {"off", "read", "upsert", "ready", "insert"}

---------------------------------------------------------------------------
(* The lease and the log.  Until the first mishap, the process that has the*)
(* lease knows what the log ends in.                                       *)

Synced(p) ==
  /\ pc[p] \in {"live", "append", "index"} \/ pc[p] \in RetryPoints =>
       /\ row.lastHash = lastHash[p] /\ row.lastHash = row.lastSeq + 1
  /\ pc[p] = "live" \/ pc[p] \in RetryPoints =>
       \/ Len(log) = row.lastHash
       \/ dirty[p] /\ Len(log) = row.lastHash + 1 /\ Last(log).turn = Newest(p)
  /\ pc[p] = "append" => Len(log) = row.lastHash /\ next[p] = Len(log)
  /\ pc[p] = "index" =>
       /\ Len(log) = row.lastHash + 1 /\ wrote[p] = Len(log) /\ next[p] = row.lastHash
       /\ ~closing[p] => Last(log).turn = Newest(p)
  /\ pc[p] \in RetryPoints => seen[p].seq = row.lastSeq /\ seen[p].hash = row.lastHash
  /\ pc[p] = "adopt" => Len(log) = row.lastHash + 1 /\ seen[p].line = Len(log)

SyncOK == mishaps = {} => \A p \in Procs : Holds(p) => Synced(p)

(* Until then, the number of a line is its place, too. *)
NumbersOK ==
  mishaps = {} => written = Len(log) /\ \A k \in 1 .. Len(log) : log[k].hash = k

(* Mishap or not, a turn about to be written is nowhere in the log, and    *)
(* one whose line is there carries the number after the row's.             *)
LinesOf(turn, seq) == \A k \in 1 .. Len(log) : log[k].turn = turn => log[k].seq = seq

Unwritten(turn) == \A k \in 1 .. Len(log) : log[k].turn # turn

Once(p) ==
  /\ pc[p] \in {"append", "index"} /\ Holds(p) => next[p] = row.lastSeq + 1
  /\ pc[p] = "append" /\ ~closing[p] => Unwritten(Newest(p))
  /\ pc[p] = "index" /\ ~closing[p] => LinesOf(Newest(p), next[p])
  /\ dirty[p] /\ Holds(p) => LinesOf(Newest(p), row.lastSeq + 1)
  /\ pc[p] \in RetryPoints => LinesOf(Newest(p), seen[p].seq + 1)

OnceOK ==
  /\ \A j, k \in 1 .. Len(log) : log[j].turn = log[k].turn /\ log[k].turn # 0 => j = k
  /\ \A p, q \in Procs : Saving(p) /\ Saving(q) /\ Newest(p) = Newest(q) => p = q
  /\ \A p \in Procs : Once(p)

SavedOK ==
  mishaps = {} =>
    /\ \A t \in acked \ misled : \E k \in 1 .. Len(log) : log[k].turn = t
    /\ \A p \in Procs : pc[p] = "index" /\ ~closing[p] =>
         \E k \in 1 .. Len(log) : log[k].turn = Newest(p)

---------------------------------------------------------------------------
TypeInv ==
  /\ LogOK /\ RowOK /\ CountsOK /\ TokensOK /\ HandlesOK /\ MemoryOK /\ FlagsOK
  /\ PlacesOK /\ BirthOK

LEMMA LogType ==
  ASSUME LogOK
  PROVE  /\ Len(log) \in Nat /\ DOMAIN log = 1 .. Len(log)
         /\ \A k \in 1 .. Len(log) : log[k] \in LineType
         /\ log # << >> => Len(log) \in 1 .. Len(log) /\ Last(log) = log[Len(log)] /\ Last(log) \in LineType
         /\ log # << >> <=> Len(log) # 0
<1>1. log \in Seq(LineType)
  BY DEF LogOK
<1>2. Len(log) \in Nat /\ DOMAIN log = 1 .. Len(log) /\ \A k \in 1 .. Len(log) : log[k] \in LineType
  BY <1>1, LenProperties, ElementOfSeq
<1>3. log # << >> <=> Len(log) # 0
  BY <1>1, EmptySeq
<1>4. log # << >> => Len(log) \in 1 .. Len(log)
  BY <1>2, <1>3
<1> QED BY <1>2, <1>3, <1>4 DEF Last

LEMMA LineFields ==
  ASSUME NEW line \in LineType
  PROVE  /\ line.kind \in Kinds /\ line.seq \in Nat /\ line.prev \in Nat /\ line.turn \in Nat
         /\ line.hash \in Nat
  BY DEF LineType

LEMMA RowFields ==
  ASSUME RowOK
  PROVE  /\ row.lastSeq \in Nat /\ row.lastHash \in Nat /\ row.owner \in Nat
         /\ row.expired \in BOOLEAN
         /\ row.status \in {"none", "active", "closed", "deleted", "damaged"}
  BY DEF RowOK, RowType

LEMMA NewestType ==
  ASSUME MemoryOK, NEW p \in Procs, memory[p] # << >>
  PROVE  Newest(p) \in Nat /\ Newest(p) <= turns
<1>1. memory[p] \in Seq(Nat) /\ Len(memory[p]) \in Nat /\ Len(memory[p]) # 0
  BY EmptySeq, LenProperties DEF MemoryOK
<1>2. Len(memory[p]) \in 1 .. Len(memory[p])
  BY <1>1
<1>3. Newest(p) = memory[p][Len(memory[p])]
  BY DEF Newest, Last
<1> QED BY <1>1, <1>2, <1>3, ElementOfSeq DEF MemoryOK

LEMMA ConstantLines ==
  /\ Header \in LineType
  /\ Header.turn = 0 /\ Header.seq = 0 /\ Header.prev = 0 /\ Header.kind = "created"
  /\ Header.hash = 1
  BY DEF Header, Line, LineType, Kinds

(* The line an append writes, and what becomes of it on a torn tail. *)
Written(p) ==
  IF closing[p] THEN Line("closed", next[p], lastHash[p], 0, written + 1)
  ELSE Line("committed", next[p], lastHash[p], Newest(p), written + 1)

Garbage == Line("garbage", 0, 0, 0, written + 1)

NewLineOf(p) == IF tail = "torn" THEN Garbage ELSE Written(p)

LEMMA GarbageType ==
  ASSUME TypeInv
  PROVE  Garbage \in LineType /\ Garbage.turn = 0 /\ Garbage.hash = written + 1
  BY DEF TypeInv, LogOK, Garbage, Line, LineType, Kinds

LEMMA WrittenType ==
  ASSUME TypeInv, NEW p \in Procs, pc[p] = "append"
  PROVE  /\ Written(p) \in LineType
         /\ Written(p).kind # "garbage" /\ Written(p).seq = next[p] /\ Written(p).prev = lastHash[p]
         /\ Written(p).turn = IF closing[p] THEN 0 ELSE Newest(p)
         /\ Written(p).turn <= turns /\ Written(p).hash = written + 1
<1>1. next[p] \in Nat /\ lastHash[p] \in Nat /\ turns \in Nat /\ written \in Nat
  BY DEF TypeInv, HandlesOK, CountsOK, LogOK
<1>2. ~closing[p] => Newest(p) \in Nat /\ Newest(p) <= turns
  BY NewestType DEF TypeInv, PlacesOK, Saving
<1> QED BY <1>1, <1>2 DEF Written, Line, LineType, Kinds

LEMMA AppendIs ==
  ASSUME TypeInv, NEW p \in Procs, AppendLine(p)
  PROVE  /\ pc[p] = "append" /\ log' = Append(log, NewLineOf(p))
         /\ NewLineOf(p) \in LineType /\ NewLineOf(p).hash = written + 1
<1>1. pc[p] = "append" /\ log' = Appended(Written(p))
  BY DEF AppendLine, Written, Newest
<1>2. Written(p).hash = written + 1
  BY <1>1, WrittenType
<1>3. log' = Append(log, NewLineOf(p))
  BY <1>1, <1>2 DEF Appended, NewLineOf, Garbage
<1> QED BY <1>1, <1>3, WrittenType, GarbageType DEF NewLineOf

LEMMA AppendedFacts ==
  ASSUME TypeInv, NEW p \in Procs, AppendLine(p)
  PROVE  /\ log' \in Seq(LineType) /\ Len(log') = Len(log) + 1
         /\ \A k \in 1 .. Len(log) : log'[k] = log[k]
         /\ log'[Len(log) + 1] = NewLineOf(p)
         /\ log' # << >>
<1>1. log \in Seq(LineType)
  BY DEF TypeInv, LogOK
<1> QED BY <1>1, AppendIs, AppendProperties

(* A cut leaves the first lines, one at least. *)
LEMMA CutFacts ==
  ASSUME TypeInv, NEW p \in Procs, RetryCut(p)
  PROVE  /\ log' \in Seq(LineType) /\ Len(log') \in 1 .. Len(log)
         /\ log' = SubSeq(log, 1, Len(log'))
         /\ \A k \in 1 .. Len(log') : log'[k] = log[k]
         /\ log' # << >>
<1>1. log \in Seq(LineType) /\ DOMAIN log = 1 .. Len(log) /\ Len(log) \in Nat
  BY LogType DEF TypeInv, LogOK
<1>2. PICK n \in DOMAIN log : log' = SubSeq(log, 1, n)
  BY DEF RetryCut
<1>3. n \in 1 .. Len(log)
  BY <1>1, <1>2
<1>4. \A k \in 1 .. n : log[k] \in LineType
  BY <1>1, <1>3, ElementOfSeq
<1>5. /\ SubSeq(log, 1, n) \in Seq(LineType) /\ Len(SubSeq(log, 1, n)) = n
      /\ \A k \in 1 .. n : SubSeq(log, 1, n)[k] = log[k]
  BY <1>1, <1>3, <1>4, SubSeqProperties
<1>6. SubSeq(log, 1, n) # << >>
  BY <1>3, <1>5, EmptySeq
<1> QED BY <1>2, <1>3, <1>5, <1>6

(* A row by its fields, and what each UPDATE of the code makes of one. *)
RowIs(r, status, seq, hash, owner, expired) ==
  /\ r \in RowType
  /\ r.status = status /\ r.lastSeq = seq /\ r.lastHash = hash /\ r.owner = owner
  /\ r.expired = expired

Statuses == {"active", "closed", "deleted", "damaged"}

LEMMA RowEdits ==
  ASSUME row \in RowType
  PROVE  /\ RowIs([row EXCEPT !.expired = TRUE],
                  row.status, row.lastSeq, row.lastHash, row.owner, TRUE)
         /\ RowIs(Released, row.status, row.lastSeq, row.lastHash, 0, FALSE)
         /\ \A s \in Statuses : RowIs([Released EXCEPT !.status = s],
                                      s, row.lastSeq, row.lastHash, 0, FALSE)
         /\ \A o \in Nat : RowIs([row EXCEPT !.status = "active", !.owner = o, !.expired = FALSE],
                                 "active", row.lastSeq, row.lastHash, o, FALSE)
<1> USE DEF RowType, RowIs, Released, Statuses
<1>1. RowIs([row EXCEPT !.expired = TRUE], row.status, row.lastSeq, row.lastHash, row.owner, TRUE)
  OBVIOUS
<1>2. RowIs(Released, row.status, row.lastSeq, row.lastHash, 0, FALSE)
  OBVIOUS
<1>3. ASSUME NEW s \in Statuses
      PROVE  RowIs([Released EXCEPT !.status = s], s, row.lastSeq, row.lastHash, 0, FALSE)
  OBVIOUS
<1>4. ASSUME NEW o \in Nat
      PROVE  RowIs([row EXCEPT !.status = "active", !.owner = o, !.expired = FALSE],
                   "active", row.lastSeq, row.lastHash, o, FALSE)
  OBVIOUS
<1> HIDE DEF RowIs, Statuses, Released
<1> QED BY <1>1, <1>2, <1>3, <1>4

LEMMA RowNumbers ==
  ASSUME row \in RowType, NEW a \in Nat, NEW b \in Nat
  PROVE  /\ RowIs([row EXCEPT !.lastSeq = a, !.lastHash = b],
                  row.status, a, b, row.owner, row.expired)
         /\ RowIs([row EXCEPT !.status = "active", !.lastSeq = a, !.lastHash = b, !.expired = FALSE],
                  "active", a, b, row.owner, FALSE)
         /\ RowIs([row EXCEPT !.lastSeq = a, !.lastHash = b, !.expired = FALSE],
                  row.status, a, b, row.owner, FALSE)
<1> USE DEF RowType, RowIs
<1>1. RowIs([row EXCEPT !.lastSeq = a, !.lastHash = b], row.status, a, b, row.owner, row.expired)
  OBVIOUS
<1>2. RowIs([row EXCEPT !.status = "active", !.lastSeq = a, !.lastHash = b, !.expired = FALSE],
            "active", a, b, row.owner, FALSE)
  OBVIOUS
<1>3. RowIs([row EXCEPT !.lastSeq = a, !.lastHash = b, !.expired = FALSE],
            row.status, a, b, row.owner, FALSE)
  OBVIOUS
<1> HIDE DEF RowIs
<1> QED BY <1>1, <1>2, <1>3

LEMMA RowMade ==
  ASSUME NEW s \in Statuses, NEW a \in Nat, NEW b \in Nat, NEW o \in Nat
  PROVE  RowIs([status |-> s, lastSeq |-> a, lastHash |-> b, owner |-> o, expired |-> FALSE],
               s, a, b, o, FALSE)
  BY DEF RowType, RowIs, Statuses

Retrying(p) == RetryCheck(p) \/ RetryLook(p) \/ RetryCut(p) \/ RetryRead(p) \/ RetryAdopt(p)
               \/ RetryFails(p)

(* The steps of a retry: only a cut changes the file, only the adoption the row. *)
LEMMA RetryIs ==
  ASSUME TypeInv, NEW p \in Procs, Retrying(p)
  PROVE  /\ dirty[p] /\ ~closing[p] /\ pc[p] \in {"live"} \union RetryPoints
         /\ UNCHANGED <<written, token, memory, closing, wrote, found, tokens, turns>>
         /\ \E point \in {"live", "append"} \union RetryPoints : pc' = [pc EXCEPT ![p] = point]
         /\ dirty' = dirty \/ (dirty' = [dirty EXCEPT ![p] = FALSE] /\ pc'[p] \in {"live", "append"})
         /\ pc'[p] = "append" => ~dirty'[p]
         /\ dirty'[p] \/ pc'[p] = "append" \/ RetryAdopt(p)
         /\ \E s \in SeenType : seen' = [seen EXCEPT ![p] = s]
         /\ lastHash' = lastHash \/ \E n \in Nat : lastHash' = [lastHash EXCEPT ![p] = n]
         /\ next' = next \/ \E n \in Nat : next' = [next EXCEPT ![p] = n]
         /\ RetryCut(p) \/ UNCHANGED <<log, tail, mishaps>>
         /\ RetryAdopt(p) \/ UNCHANGED <<row, lastHash, acked, misled>>
<1>0. /\ pc \in [Procs -> Points] /\ dirty \in [Procs -> BOOLEAN] /\ seen[p] \in SeenType
      /\ row.lastSeq \in Nat /\ row.lastHash \in Nat /\ row.lastSeq + 1 \in Nat
      /\ seen \in [Procs -> SeenType]
      /\ seen[p].line \in Nat
  BY RowFields DEF TypeInv, HandlesOK, FlagsOK, SeenType
<1>1. /\ dirty[p] /\ pc[p] \in {"live"} \union RetryPoints
  <2>1. pc[p] \in RetryPoints => dirty[p]
    BY DEF TypeInv, PlacesOK
  <2> QED BY <2>1 DEF Retrying, RetryCheck, RetryLook, RetryCut, RetryRead, RetryAdopt, RetryFails,
                      RetryPoints
<1>2. ~closing[p]
  BY <1>1 DEF TypeInv, PlacesOK, RetryPoints
<1>3. Last(log).hash \in Nat
  <2>1. row # NoRow
    BY <1>1 DEF TypeInv, BirthOK, RetryPoints
  <2> QED BY <2>1, LogType, LineFields DEF TypeInv, BirthOK
<1>4. NothingSeen \in SeenType
  BY DEF NothingSeen, SeenType
<1>5. CASE RetryCheck(p)
  <2>1. [seq |-> row.lastSeq, hash |-> row.lastHash, line |-> 0] \in SeenType
    BY <1>0 DEF SeenType
  <2>2. \E s \in SeenType : seen' = [seen EXCEPT ![p] = s]
    BY <1>5, <2>1 DEF RetryCheck
  <2> QED BY <1>0, <1>1, <1>2, <1>5, <2>2 DEF RetryCheck, Goto, RetryPoints, fileVars, handleVars,
             appendVars, countVars, historyVars
<1>6. CASE RetryLook(p)
  <2>1. [seen[p] EXCEPT !.line = Last(log).hash] \in SeenType
    BY <1>0, <1>3 DEF SeenType
  <2>2. \E s \in SeenType : seen' = [seen EXCEPT ![p] = s]
    BY <1>0, <1>6, <2>1 DEF RetryLook
  <2> QED BY <1>0, <1>1, <1>2, <1>6, <2>2 DEF RetryLook, Goto, RetryPoints, fileVars, handleVars,
             appendVars, countVars, historyVars
<1>7. CASE RetryCut(p)
  <2>1. \E s \in SeenType : seen' = [seen EXCEPT ![p] = s]
    BY <1>0, <1>7 DEF RetryCut
  <2> QED BY <1>0, <1>1, <1>2, <1>7, <2>1 DEF RetryCut, Goto, RetryPoints, handleVars, appendVars,
             countVars
<1>8. CASE RetryRead(p)
  <2>1. [seen[p] EXCEPT !.line = Last(log).hash] \in SeenType
    BY <1>0, <1>3 DEF SeenType
  <2>2. \E s \in SeenType : seen' = [seen EXCEPT ![p] = s]
    BY <1>0, <1>4, <1>8, <2>1 DEF RetryRead
  <2>3. \/ BeginAppend(p)
        \/ pc' = [pc EXCEPT ![p] = "adopt"] /\ UNCHANGED <<next, dirty>>
    BY <1>8 DEF RetryRead, Goto
  <2>4. BeginAppend(p) =>
          \/ /\ next' = [next EXCEPT ![p] = row.lastSeq + 1] /\ dirty' = [dirty EXCEPT ![p] = FALSE]
             /\ pc' = [pc EXCEPT ![p] = "append"]
          \/ next' = next /\ dirty' = dirty /\ pc' = [pc EXCEPT ![p] = "live"]
    BY <1>0, <1>1 DEF BeginAppend, Goto
  <2>5. /\ UNCHANGED <<written, token, memory, closing, wrote, found, tokens, turns>>
        /\ UNCHANGED <<log, tail, mishaps, row, lastHash, acked, misled>>
    BY <1>8 DEF RetryRead, fileVars, countVars, historyVars
  <2> QED BY <1>0, <1>1, <1>2, <2>2, <2>3, <2>4, <2>5 DEF RetryPoints
<1>9. CASE RetryAdopt(p)
  <2>1. \E s \in SeenType : seen' = [seen EXCEPT ![p] = s]
    BY <1>4, <1>9 DEF RetryAdopt
  <2> QED BY <1>0, <1>1, <1>2, <1>9, <2>1 DEF RetryAdopt, Goto, RetryPoints, fileVars, appendVars, countVars
<1>10. CASE RetryFails(p)
  <2>1. \E s \in SeenType : seen' = [seen EXCEPT ![p] = s]
    BY <1>4, <1>10 DEF RetryFails
  <2> QED BY <1>0, <1>1, <1>2, <1>10, <2>1 DEF RetryFails, Goto, RetryPoints, fileVars, handleVars,
             appendVars, countVars, historyVars
<1> QED BY <1>5, <1>6, <1>7, <1>8, <1>9, <1>10 DEF Retrying

(* What close does first, after a turn or in the middle of its saving. *)
LEMMA CloseIs ==
  ASSUME TypeInv, NEW p \in Procs, Close(p) \/ Interrupt(p)
  PROVE  /\ ~dirty[p] /\ ~closing[p] /\ pc[p] \in {"live", "append", "index"}
         /\ UNCHANGED <<log, written, row, tokens, turns, acked, misled>>
         /\ tail' \in {tail, "torn"} /\ mishaps' \in {mishaps, mishaps \union {"interrupted"}}
         /\ \/ /\ MayAppend(p) /\ UNCHANGED <<token, lastHash, memory, dirty, seen, found>>
               /\ next' = [next EXCEPT ![p] = row.lastSeq + 1] /\ wrote' = [wrote EXCEPT ![p] = 0]
               /\ closing' = [closing EXCEPT ![p] = TRUE] /\ pc' = [pc EXCEPT ![p] = "append"]
               /\ mishaps' = {} => pc[p] # "index"
            \/ Exit(p) /\ mishaps' = mishaps
<1>1. ~dirty[p] /\ ~closing[p] /\ pc[p] \in {"live", "append", "index"}
  BY DEF TypeInv, PlacesOK, Close, Interrupt, RetryPoints
<1>2. CASE Close(p)
  BY <1>1, <1>2 DEF Close, BeginClose, Goto, fileVars, handleVars, countVars, historyVars
<1>3. CASE Interrupt(p)
  BY <1>1, <1>3 DEF Interrupt, BeginClose, Goto, handleVars, countVars
<1> QED BY <1>2, <1>3

(* The row after a step, field by field. *)
RowChange(p) ==
  \/ row' = row
  \/ /\ RepairWrite(p) /\ found[p].readable
     /\ RowIs(row', IF found[p].closed THEN "closed" ELSE "active",
              found[p].seq, found[p].hash, 0, FALSE)
  \/ /\ RepairWrite(p) /\ ~found[p].readable
     /\ RowIs(row', "damaged", row.lastSeq, row.lastHash, 0, FALSE)
  \/ /\ CreateRow(p) /\ row = NoRow /\ pc' = [pc EXCEPT ![p] = "live"]
     /\ RowIs(row', "active", 0, 1, token[p], FALSE)
  \/ /\ Resume(p)
     /\ RowIs(row', "active", row.lastSeq, row.lastHash, tokens + 1, FALSE)
  \/ /\ Replay(p) /\ Holds(p) /\ Readable(log)
     /\ RowIs(row', row.status, Last(log).seq, Last(log).hash, row.owner, row.expired)
  \/ /\ Replay(p) \/ SoftDelete(p) \/ CloseDirty(p) \/ CloseRow(p)
     /\ \E s \in {"active", "closed", "deleted", "damaged"} :
          RowIs(row', s, row.lastSeq, row.lastHash, 0, FALSE)
  \/ /\ UpdateIndex(p) /\ Holds(p)
     /\ RowIs(row', "active", next[p], wrote[p], row.owner, FALSE)
  \/ /\ RetryAdopt(p) /\ Holds(p)
     /\ RowIs(row', row.status, seen[p].seq + 1, seen[p].line, row.owner, FALSE)

LEMMA RowChanges ==
  ASSUME TypeInv, NEW p \in Procs, Process(p)
  PROVE  RowChange(p)
<1> USE DEF TypeInv
<1>0. /\ row \in RowType /\ row.owner \in Nat /\ row.lastSeq \in Nat /\ row.lastHash \in Nat
      /\ row.status \in {"none", "active", "closed", "deleted", "damaged"}
      /\ tokens \in Nat /\ Len(log) \in Nat
  BY RowFields, LogType DEF RowOK, CountsOK
<1>1. CASE Boot(p) \/ RepairRead(p) \/ Commit(p) \/ Close(p) \/ AppendLine(p) \/ AppendFails(p)
           \/ UpdateFails(p) \/ Crash(p) \/ CreateLog(p) \/ Interrupt(p)
  <2>1. row' = row
    BY <1>1 DEF Boot, RepairRead, Commit, Close, AppendLine, AppendFails, UpdateFails, Crash, CreateLog,
                Interrupt
  <2> QED BY <2>1 DEF RowChange
<1>2. CASE RepairWrite(p)
  <2>1. row' = Repaired(p) /\ found[p] \in Finding
    BY <1>2 DEF RepairWrite, HandlesOK
  <2>2. CASE found[p].readable
    <3> DEFINE status == IF found[p].closed THEN "closed" ELSE "active"
    <3>1. found[p].seq \in Nat /\ found[p].hash \in Nat /\ status \in Statuses /\ 0 \in Nat
      BY <2>1 DEF Finding, Statuses
    <3>3. Repaired(p) = [status |-> status, lastSeq |-> found[p].seq, lastHash |-> found[p].hash,
                         owner |-> 0, expired |-> FALSE]
      BY <2>2 DEF Repaired
    <3>2. RowIs(Repaired(p), status, found[p].seq, found[p].hash, 0, FALSE)
      <4> HIDE DEF status
      <4> QED BY <3>1, <3>3, RowMade
    <3> QED BY <1>2, <2>1, <2>2, <3>2 DEF RowChange
  <2>3. CASE ~found[p].readable /\ found[p].indexed
    <3>1. RowIs(Repaired(p), "damaged", row.lastSeq, row.lastHash, 0, FALSE)
      BY <2>3, RowEdits, <1>0 DEF Repaired, Statuses
    <3> QED BY <1>2, <2>1, <2>3, <3>1 DEF RowChange
  <2>4. CASE ~found[p].readable /\ ~found[p].indexed
    BY <2>1, <2>4 DEF Repaired, RowChange
  <2> QED BY <2>2, <2>3, <2>4
<1>3. CASE CreateRow(p)
  <2>1. token[p] \in Nat
    BY DEF TokensOK
  <2>2. RowIs([status |-> "active", lastSeq |-> 0, lastHash |-> 1,
               owner |-> token[p], expired |-> FALSE], "active", 0, 1, token[p], FALSE)
    BY <2>1, RowMade DEF Statuses
  <2>3. \/ row' = row
        \/ /\ row = NoRow /\ pc' = [pc EXCEPT ![p] = "live"]
           /\ row' = [status |-> "active", lastSeq |-> 0, lastHash |-> 1,
                      owner |-> token[p], expired |-> FALSE]
    BY <1>3 DEF CreateRow, Goto
  <2> QED BY <1>3, <2>2, <2>3 DEF RowChange
<1>4. CASE Resume(p)
  <2>1. row' = [row EXCEPT !.status = "active", !.owner = tokens + 1, !.expired = FALSE]
    BY <1>4 DEF Resume, DrawToken, TokensOK
  <2>2. tokens + 1 \in Nat
    BY <1>0
  <2>3. RowIs(row', "active", row.lastSeq, row.lastHash, tokens + 1, FALSE)
    BY <2>1, <2>2, RowEdits, <1>0
  <2> QED BY <1>4, <2>3 DEF RowChange
<1>5. CASE Replay(p) \/ SoftDelete(p) \/ CloseDirty(p) \/ CloseRow(p)
  <2>1. \/ row' = row
        \/ /\ Replay(p) /\ Holds(p) /\ Readable(log) /\ log # << >>
           /\ row' = [row EXCEPT !.lastSeq = Last(log).seq, !.lastHash = Last(log).hash]
        \/ \E s \in {"damaged", "deleted", "closed"} : row' = [Released EXCEPT !.status = s]
        \/ pc[p] = "live" /\ row' = Released
    BY <1>5 DEF Replay, Readable, SoftDelete, CloseDirty, CloseRow
  <2>2. pc[p] = "live" => row.status # "none"
    BY DEF RowOK, BirthOK
  <2>3. CASE Replay(p) /\ Holds(p) /\ Readable(log) /\ log # << >>
             /\ row' = [row EXCEPT !.lastSeq = Last(log).seq, !.lastHash = Last(log).hash]
    <3>1. Last(log).seq \in Nat /\ Last(log).hash \in Nat
      BY <2>3, LogType, LineFields
    <3>2. RowIs(row', row.status, Last(log).seq, Last(log).hash, row.owner, row.expired)
      BY <2>3, <3>1, RowNumbers, <1>0
    <3> QED BY <2>3, <3>2 DEF RowChange
  <2>4. ASSUME NEW s \in {"damaged", "deleted", "closed"}, row' = [Released EXCEPT !.status = s]
        PROVE  RowIs(row', s, row.lastSeq, row.lastHash, 0, FALSE)
    BY <2>4, RowEdits, <1>0 DEF Statuses
  <2>6. CASE \E s \in {"active", "closed", "deleted", "damaged"} :
                 RowIs(row', s, row.lastSeq, row.lastHash, 0, FALSE)
    BY <1>5, <2>6 DEF RowChange
  <2>7. CASE row' = row
    BY <2>7 DEF RowChange
  <2>8. (pc[p] = "live" /\ row' = Released)
          => RowIs(row', row.status, row.lastSeq, row.lastHash, 0, FALSE)
             /\ row.status \in {"active", "closed", "deleted", "damaged"}
    BY <2>2, RowEdits, <1>0
  <2> QED BY <2>1, <2>3, <2>4, <2>6, <2>7, <2>8
<1>6. CASE UpdateIndex(p)
  <2>1. next[p] \in Nat /\ wrote[p] \in Nat
    BY DEF HandlesOK
  <2>2. RowIs([row EXCEPT !.status = "active", !.lastSeq = next[p], !.lastHash = wrote[p],
                          !.expired = FALSE], "active", next[p], wrote[p], row.owner, FALSE)
    BY <2>1, RowNumbers, <1>0
  <2> QED BY <1>6, <2>2 DEF UpdateIndex, RowChange
<1>7. CASE Retrying(p)
  <2>1. \/ row' = row
        \/ /\ RetryAdopt(p) /\ Holds(p)
           /\ row' = [row EXCEPT !.lastSeq = seen[p].seq + 1, !.lastHash = seen[p].line,
                                 !.expired = FALSE]
    <3>1. RetryAdopt(p) \/ row' = row
      BY <1>7, RetryIs
    <3> QED BY <3>1 DEF RetryAdopt
  <2>2. seen[p].seq + 1 \in Nat /\ seen[p].line \in Nat
    BY DEF HandlesOK, SeenType
  <2>3. RowIs([row EXCEPT !.lastSeq = seen[p].seq + 1, !.lastHash = seen[p].line, !.expired = FALSE],
              row.status, seen[p].seq + 1, seen[p].line, row.owner, FALSE)
    BY <2>2, RowNumbers, <1>0
  <2> QED BY <2>1, <2>3 DEF RowChange
<1> QED BY <1>1, <1>2, <1>3, <1>4, <1>5, <1>6, <1>7 DEF Process, Retrying

LEMMA FlagsStep == ASSUME TypeInv, [Next]_vars PROVE FlagsOK'
<1> USE DEF TypeInv, FlagsOK
<1>1. CASE LeaseExpires \/ UNCHANGED vars
  BY <1>1 DEF LeaseExpires, vars, handleVars, appendVars
<1>2. ASSUME NEW p \in Procs, Process(p) PROVE FlagsOK'
  <2>1. CASE Boot(p) \/ RepairRead(p) \/ RepairWrite(p) \/ CreateLog(p) \/ Resume(p)
    BY <2>1 DEF Boot, RepairRead, RepairWrite, CreateLog, Resume, handleVars, appendVars
  <2>2. CASE CreateRow(p) \/ Replay(p) \/ SoftDelete(p) \/ CloseDirty(p) \/ CloseRow(p) \/ Crash(p)
    BY <2>2 DEF CreateRow, Replay, SoftDelete, CloseDirty, CloseRow, Crash, Exit, appendVars
  <2>3. CASE Commit(p)
    BY <2>3 DEF Commit, BeginAppend
  <2>4. CASE Close(p) \/ Interrupt(p)
    BY <2>4, CloseIs DEF Exit
  <2>7. CASE Retrying(p)
    BY <2>7, RetryIs
  <2>5. CASE AppendLine(p) \/ UpdateIndex(p)
    BY <2>5 DEF AppendLine, UpdateIndex, handleVars
  <2>6. CASE AppendFails(p) \/ UpdateFails(p)
    BY <2>6 DEF AppendFails, UpdateFails, Fails, Exit
  <2> QED BY <1>2, <2>1, <2>2, <2>3, <2>4, <2>5, <2>6, <2>7 DEF Process, Retrying
<1> QED BY <1>1, <1>2 DEF Next

LEMMA CountsStep == ASSUME TypeInv, [Next]_vars PROVE CountsOK'
<1> USE BoundsAssumption DEF TypeInv, CountsOK
<1>1. CASE LeaseExpires \/ UNCHANGED vars
  BY <1>1 DEF LeaseExpires, vars, fileVars, countVars, historyVars
<1>2. ASSUME NEW p \in Procs, Process(p) PROVE CountsOK'
  <2>1. CASE Boot(p) \/ RepairRead(p) \/ RepairWrite(p)
    BY <2>1 DEF Boot, RepairRead, RepairWrite, fileVars, countVars, historyVars
  <2>2. CASE CreateLog(p) \/ Resume(p)
    BY <2>2 DEF CreateLog, Resume, DrawToken, fileVars, historyVars
  <2>3. CASE CreateRow(p) \/ Replay(p) \/ SoftDelete(p) \/ CloseDirty(p) \/ CloseRow(p)
    BY <2>3 DEF CreateRow, Replay, SoftDelete, CloseDirty, CloseRow, fileVars, countVars, historyVars
  <2>4. CASE Crash(p) \/ AppendFails(p) \/ UpdateFails(p)
    BY <2>4 DEF Crash, AppendFails, UpdateFails, fileVars, countVars, historyVars
  <2>5. CASE Commit(p)
    <3>1. turns < MaxTurns /\ turns' = turns + 1
          /\ UNCHANGED <<tokens, acked, misled, mishaps, tail>>
      BY <2>5 DEF Commit, fileVars, historyVars
    <3> QED BY <3>1
  <2>6. CASE AppendLine(p)
    <3>1. /\ UNCHANGED <<tokens, turns, acked, misled>> /\ tail' = "clean"
          /\ mishaps' \subseteq mishaps \union {"glued", "late"}
      BY <2>6 DEF AppendLine, countVars
    <3> QED BY <3>1 DEF Mishaps
  <2>8. CASE Close(p) \/ Interrupt(p)
    BY <2>8, CloseIs DEF Mishaps
  <2>9. CASE RetryCut(p)
    <3>1. /\ UNCHANGED <<tokens, turns, acked, misled>> /\ tail' \in {"clean", "torn"}
          /\ mishaps' \subseteq mishaps \union {"cut"}
      BY <2>9 DEF RetryCut, countVars
    <3> QED BY <3>1 DEF Mishaps
  <2>7. CASE UpdateIndex(p) \/ (Retrying(p) /\ ~RetryCut(p))
    <3>1. /\ UNCHANGED <<tokens, turns, mishaps, tail>>
          /\ \/ UNCHANGED <<acked, misled>>
             \/ /\ Saving(p) /\ acked' = acked \union {Newest(p)}
                /\ misled' \in {misled, misled \union {Newest(p)}}
      <4>1. CASE UpdateIndex(p)
        BY <4>1 DEF UpdateIndex, fileVars, countVars, Saving, Newest
      <4>2. CASE RetryAdopt(p)
        BY <4>2, RetryIs DEF Retrying, RetryAdopt, fileVars, countVars, Saving, Newest
      <4>3. CASE Retrying(p) /\ ~RetryCut(p) /\ ~RetryAdopt(p)
        BY <4>3, RetryIs
      <4> QED BY <2>7, <4>1, <4>2, <4>3
    <3>2. Saving(p) => Newest(p) \in 1 .. turns
      <4>1. Saving(p) => Newest(p) \in Nat /\ Newest(p) <= turns /\ Newest(p) # 0
        BY NewestType DEF PlacesOK
      <4>2. turns \in Nat
        OBVIOUS
      <4> QED BY <4>1, <4>2
    <3> QED BY <3>1, <3>2
  <2> QED BY <1>2, <2>1, <2>2, <2>3, <2>4, <2>5, <2>6, <2>7, <2>8, <2>9 DEF Process, Retrying
<1> QED BY <1>1, <1>2 DEF Next

LEMMA TokensStep == ASSUME TypeInv, [Next]_vars PROVE TokensOK'
<1> USE DEF TypeInv, TokensOK, CountsOK
<1>1. CASE LeaseExpires \/ UNCHANGED vars
  BY <1>1 DEF LeaseExpires, vars, handleVars, countVars
<1>2. ASSUME NEW p \in Procs, Process(p) PROVE TokensOK'
  <2>1. CASE Boot(p) \/ RepairRead(p) \/ RepairWrite(p)
    BY <2>1 DEF Boot, RepairRead, RepairWrite, handleVars, countVars
  <2>2. CASE CreateLog(p) \/ Resume(p)
    <3>1. tokens' = tokens + 1 /\ token' = [token EXCEPT ![p] = tokens + 1]
      BY <2>2 DEF CreateLog, Resume, DrawToken
    <3>2. /\ token'[p] = tokens + 1 /\ token' \in [Procs -> Nat]
          /\ \A q \in Procs \ {p} : token'[q] = token[q]
      BY <3>1
    <3> QED BY <3>1, <3>2
  <2>3. CASE CreateRow(p) \/ Replay(p) \/ SoftDelete(p) \/ Close(p) \/ CloseDirty(p) \/ CloseRow(p)
             \/ Crash(p) \/ AppendFails(p) \/ UpdateFails(p) \/ Interrupt(p)
    <3>1. tokens' = tokens /\ (token' = token \/ token' = [token EXCEPT ![p] = 0])
      <4>1. CASE Close(p) \/ Interrupt(p)
        BY <4>1, CloseIs DEF Exit
      <4>2. CASE ~Close(p) /\ ~Interrupt(p)
        BY <2>3, <4>2 DEF CreateRow, Replay, SoftDelete, CloseDirty, CloseRow, Crash, AppendFails,
                  UpdateFails, Fails, Exit, countVars
      <4> QED BY <4>1, <4>2
    <3> QED BY <3>1
  <2>4. CASE Commit(p) \/ AppendLine(p) \/ UpdateIndex(p)
    BY <2>4 DEF Commit, AppendLine, UpdateIndex, handleVars, countVars
  <2>5. CASE Retrying(p)
    BY <2>5, RetryIs
  <2> QED BY <1>2, <2>1, <2>2, <2>3, <2>4, <2>5 DEF Process, Retrying
<1> QED BY <1>1, <1>2 DEF Next

LEMMA HandlesSet ==
  ASSUME HandlesOK, NEW p \in Procs,
         lastHash' = lastHash \/ \E n \in Nat : lastHash' = [lastHash EXCEPT ![p] = n],
         next' = next \/ \E n \in Nat : next' = [next EXCEPT ![p] = n],
         wrote' = wrote \/ \E n \in Nat : wrote' = [wrote EXCEPT ![p] = n],
         found' = found \/ \E f \in Finding : found' = [found EXCEPT ![p] = f],
         seen' = seen \/ \E s \in SeenType : seen' = [seen EXCEPT ![p] = s],
         pc' = pc \/ \E point \in Points : pc' = [pc EXCEPT ![p] = point]
  PROVE  HandlesOK'
<1> USE DEF HandlesOK
<1>1. lastHash' \in [Procs -> Nat]
  OBVIOUS
<1>2. next' \in [Procs -> Nat]
  OBVIOUS
<1>3. wrote' \in [Procs -> Nat]
  OBVIOUS
<1>4. found' \in [Procs -> Finding]
  OBVIOUS
<1>5. pc' \in [Procs -> Points]
  OBVIOUS
<1>6. seen' \in [Procs -> SeenType]
  OBVIOUS
<1> QED BY <1>1, <1>2, <1>3, <1>4, <1>5, <1>6

LEMMA HandlesStep == ASSUME TypeInv, [Next]_vars PROVE HandlesOK'
<1> USE DEF TypeInv
<1>0. NothingFound \in Finding /\ NothingSeen \in SeenType /\ written \in Nat /\ row.lastSeq \in Nat
  BY RowFields DEF NothingFound, Finding, NothingSeen, SeenType, LogOK
<1>1. CASE LeaseExpires \/ UNCHANGED vars
  BY <1>1 DEF LeaseExpires, vars, handleVars, appendVars, HandlesOK
<1>2. ASSUME NEW p \in Procs, Process(p) PROVE HandlesOK'
  <2>0. found \in [Procs -> Finding] /\ found[p] \in Finding
    BY DEF HandlesOK
  <2>1. CASE Boot(p)
    <3>1. \E b \in BOOLEAN : found' = [found EXCEPT ![p].indexed = b]
      BY <2>1 DEF Boot
    <3>2. \A b \in BOOLEAN : [found[p] EXCEPT !.indexed = b] \in Finding
      BY <2>0 DEF Finding
    <3>3. \E f \in Finding : found' = [found EXCEPT ![p] = f]
      BY <2>0, <3>1, <3>2
    <3>4. UNCHANGED <<lastHash, next, wrote, seen>> /\ \E point \in Points : pc' = [pc EXCEPT ![p] = point]
      BY <2>1 DEF Boot, Goto, Points, handleVars, appendVars
    <3> QED BY <3>3, <3>4, HandlesSet
  <2>2. CASE RepairRead(p)
    <3>1. log # << >> /\ Last(log) \in LineType
      BY <2>2, LogType DEF PlacesOK, RepairRead
    <3>2. [indexed |-> found[p].indexed, readable |-> Readable(log),
           closed |-> Last(log).kind = "closed", seq |-> Last(log).seq, hash |-> Last(log).hash] \in Finding
      BY <2>0, <3>1, LineFields DEF Finding, Readable
    <3>3. \E f \in Finding : found' = [found EXCEPT ![p] = f]
      BY <2>2, <3>2 DEF RepairRead
    <3>4. UNCHANGED <<lastHash, next, wrote, seen>> /\ \E point \in Points : pc' = [pc EXCEPT ![p] = point]
      BY <2>2 DEF RepairRead, Goto, Points, handleVars, appendVars
    <3> QED BY <3>3, <3>4, HandlesSet
  <2>3. CASE RepairWrite(p) \/ CreateLog(p) \/ Resume(p)
    <3>1. /\ UNCHANGED <<lastHash, next, wrote, seen>>
          /\ \E point \in Points : pc' = [pc EXCEPT ![p] = point]
          /\ found' = found \/ found' = [found EXCEPT ![p] = NothingFound]
      BY <2>3 DEF RepairWrite, CreateLog, Resume, Goto, Points, handleVars, appendVars
    <3> QED BY <1>0, <3>1, HandlesSet
  <2>4. ASSUME Exit(p) PROVE HandlesOK'
    <3>1. /\ \E n \in Nat : lastHash' = [lastHash EXCEPT ![p] = n]
          /\ \E n \in Nat : next' = [next EXCEPT ![p] = n]
          /\ \E n \in Nat : wrote' = [wrote EXCEPT ![p] = n]
          /\ \E s \in SeenType : seen' = [seen EXCEPT ![p] = s]
          /\ \E f \in Finding : found' = [found EXCEPT ![p] = f]
          /\ \E point \in Points : pc' = [pc EXCEPT ![p] = point]
      BY <1>0, <2>4 DEF Exit, Goto, Points
    <3> QED BY <3>1, HandlesSet
  <2>5. CASE CreateRow(p) \/ Replay(p)
    <3>1. Last(log).hash \in Nat \/ log = << >>
      BY LogType, LineFields
    <3>2. \/ Exit(p)
          \/ /\ \E n \in Nat : lastHash' = [lastHash EXCEPT ![p] = n]
             /\ \E point \in Points : pc' = [pc EXCEPT ![p] = point]
             /\ UNCHANGED <<next, wrote, seen, found>>
      BY <2>5, <3>1 DEF CreateRow, Replay, Readable, Goto, Points, appendVars
    <3> QED BY <2>4, <3>2, HandlesSet
  <2>6. CASE SoftDelete(p) \/ CloseDirty(p) \/ CloseRow(p) \/ Crash(p)
    BY <2>4, <2>6 DEF SoftDelete, CloseDirty, CloseRow, Crash
  <2>7. CASE Close(p) \/ Interrupt(p)
    <3>1. \/ Exit(p)
          \/ /\ UNCHANGED <<lastHash, seen, found>>
             /\ \E n \in Nat : next' = [next EXCEPT ![p] = n]
             /\ \E n \in Nat : wrote' = [wrote EXCEPT ![p] = n]
             /\ \E point \in Points : pc' = [pc EXCEPT ![p] = point]
      BY <1>0, <2>7, CloseIs DEF Points
    <3> QED BY <2>4, <3>1, HandlesSet
  <2>8. CASE Commit(p)
    <3>1. /\ UNCHANGED <<lastHash, wrote, seen, found>>
          /\ next' = next \/ \E n \in Nat : next' = [next EXCEPT ![p] = n]
          /\ \E point \in Points : pc' = [pc EXCEPT ![p] = point]
      BY <1>0, <2>8 DEF Commit, BeginAppend, Goto, Points
    <3> QED BY <3>1, HandlesSet
  <2>9. CASE Retrying(p)
    <3>1. \E point \in Points : pc' = [pc EXCEPT ![p] = point]
      BY <2>9, RetryIs DEF Points
    <3> QED BY <2>9, <3>1, RetryIs, HandlesSet
  <2>10. CASE AppendFails(p) \/ UpdateFails(p)
    <3>1. \/ Exit(p)
          \/ /\ UNCHANGED <<lastHash, seen, found>>
             /\ \E n \in Nat : next' = [next EXCEPT ![p] = n]
             /\ \E n \in Nat : wrote' = [wrote EXCEPT ![p] = n]
             /\ \E point \in Points : pc' = [pc EXCEPT ![p] = point]
      BY <2>10 DEF AppendFails, UpdateFails, Fails, EndAppend, Goto, Points
    <3> QED BY <2>4, <3>1, HandlesSet
  <2>11. CASE AppendLine(p) \/ UpdateIndex(p)
    <3>1. written + 1 \in Nat /\ wrote[p] \in Nat
      BY <1>0 DEF HandlesOK
    <3>2. /\ lastHash' = lastHash \/ \E n \in Nat : lastHash' = [lastHash EXCEPT ![p] = n]
          /\ \E point \in Points : pc' = [pc EXCEPT ![p] = point]
          /\ UNCHANGED <<seen, found>>
          /\ next' = next \/ \E n \in Nat : next' = [next EXCEPT ![p] = n]
          /\ \E n \in Nat : wrote' = [wrote EXCEPT ![p] = n]
      BY <2>11, <3>1 DEF AppendLine, UpdateIndex, EndAppend, Goto, Points, handleVars
    <3> QED BY <3>2, HandlesSet
  <2> QED BY <1>2, <2>1, <2>2, <2>3, <2>5, <2>6, <2>7, <2>8, <2>9, <2>10, <2>11 DEF Process, Retrying
<1> QED BY <1>1, <1>2 DEF Next

LEMMA RowStep == ASSUME TypeInv, [Next]_vars PROVE RowOK'
<1> USE DEF TypeInv
<1>0. /\ row \in RowType /\ row.owner \in Nat /\ row.owner <= tokens
      /\ row.status = "none" => row = NoRow
      /\ tokens \in Nat
  BY RowFields DEF RowOK, CountsOK
<1>1. CASE LeaseExpires \/ UNCHANGED vars
  <2>1. UNCHANGED tokens /\ (row' = row \/ (row.owner # 0 /\ row' = [row EXCEPT !.expired = TRUE]))
    BY <1>1 DEF LeaseExpires, vars, countVars
  <2>2. row.owner # 0 => row.status # "none"
    BY <1>0 DEF NoRow
  <2>3. row' = row \/ RowIs(row', row.status, row.lastSeq, row.lastHash, row.owner, TRUE)
    BY <2>1, RowEdits, <1>0
  <2> QED BY <2>1, <2>2, <2>3, <1>0 DEF RowOK, RowIs
<1>2. ASSUME NEW p \in Procs, Process(p) PROVE RowOK'
  <2>1. /\ tokens' = tokens \/ tokens' = tokens + 1
        /\ Resume(p) => tokens' = tokens + 1
    <3>1. CASE CreateLog(p) \/ Resume(p)
      BY <3>1 DEF CreateLog, Resume, DrawToken
    <3>2. CASE tokens' = tokens /\ ~Resume(p)
      BY <3>2
    <3>3. CASE ~(CreateLog(p) \/ Resume(p))
      <4>1. CASE Retrying(p)
        BY <3>3, <4>1, RetryIs
      <4>2. CASE ~Retrying(p)
        <5>1. tokens' = tokens
          BY <3>3, <4>2, <1>2 DEF Process, Retrying, Boot, RepairRead, RepairWrite, CreateRow, Replay,
               SoftDelete, Commit, Close, CloseDirty, AppendLine, AppendFails, UpdateIndex, UpdateFails,
               CloseRow, Interrupt, Crash, countVars
        <5> QED BY <3>3, <5>1
      <4> QED BY <4>1, <4>2
    <3> QED BY <3>1, <3>3
  <2>2. token[p] \in Nat /\ token[p] <= tokens
    BY DEF TokensOK
  <2>3. \/ row' = row
        \/ /\ row' \in RowType /\ row'.status # "none"
           /\ row'.owner \in {0, row.owner, token[p]} \/ (Resume(p) /\ row'.owner = tokens + 1)
    <3>1. pc[p] \in {"replay", "live", "index", "adopt"} => row.status # "none"
      BY DEF RowOK, BirthOK
    <3>2. RowChange(p)
      BY <1>2, RowChanges
    <3>3. Replay(p) => pc[p] = "replay"
      BY DEF Replay
    <3>4. RetryAdopt(p) => pc[p] = "adopt"
      BY DEF RetryAdopt
    <3> QED BY <3>1, <3>2, <3>3, <3>4 DEF RowChange, RowIs
  <2>4. CASE row' = row
    BY <2>1, <2>4, <1>0 DEF RowOK
  <2>5. CASE row' # row
    BY <2>1, <2>2, <2>3, <2>5, <1>0 DEF RowOK
  <2> QED BY <2>4, <2>5
<1> QED BY <1>1, <1>2 DEF Next

LEMMA MemoryStep == ASSUME TypeInv, [Next]_vars PROVE MemoryOK'
<1> USE DEF TypeInv
<1>0. /\ memory \in [Procs -> Seq(Nat)] /\ turns \in Nat
      /\ \A q \in Procs : \A k \in 1 .. Len(memory[q]) : memory[q][k] <= turns
  BY DEF MemoryOK, CountsOK
<1>1. CASE LeaseExpires \/ UNCHANGED vars
  BY <1>0, <1>1 DEF LeaseExpires, vars, handleVars, countVars, MemoryOK
<1>2. ASSUME NEW p \in Procs, Process(p) PROVE MemoryOK'
  <2>1. CASE Commit(p)
    <3>1. turns' = turns + 1 /\ memory' = [memory EXCEPT ![p] = Append(@, turns + 1)]
      BY <2>1 DEF Commit
    <3>2. memory[p] \in Seq(Nat) /\ turns + 1 \in Nat
      BY <1>0
    <3>3. /\ Append(memory[p], turns + 1) \in Seq(Nat)
          /\ Len(Append(memory[p], turns + 1)) = Len(memory[p]) + 1 /\ Len(memory[p]) \in Nat
          /\ \A k \in 1 .. Len(memory[p]) : Append(memory[p], turns + 1)[k] = memory[p][k]
          /\ Append(memory[p], turns + 1)[Len(memory[p]) + 1] = turns + 1
      BY <3>2, AppendProperties, LenProperties
    <3>4. /\ memory' \in [Procs -> Seq(Nat)] /\ memory'[p] = Append(memory[p], turns + 1)
          /\ \A q \in Procs \ {p} : memory'[q] = memory[q]
      BY <1>0, <3>1, <3>3
    <3>5. ASSUME NEW q \in Procs, NEW k \in 1 .. Len(memory'[q])
          PROVE  memory'[q][k] <= turns + 1
      <4>1. CASE q = p
        <5>1. k \in 1 .. Len(memory[p]) \/ k = Len(memory[p]) + 1
          BY <3>3, <3>4, <4>1
        <5>2. k \in 1 .. Len(memory[p]) => memory[p][k] \in Nat /\ memory[p][k] <= turns
          BY <1>0, <3>2, ElementOfSeq
        <5>3. memory'[q] = Append(memory[p], turns + 1)
          BY <3>4, <4>1
        <5>4. CASE k \in 1 .. Len(memory[p])
          <6>1. memory'[q][k] = memory[p][k]
            BY <3>3, <5>3, <5>4
          <6> QED BY <1>0, <5>2, <5>4, <6>1
        <5>5. CASE k = Len(memory[p]) + 1
          <6>1. memory'[q][k] = turns + 1
            BY <3>3, <5>3, <5>5
          <6> QED BY <1>0, <6>1
        <5> QED BY <5>1, <5>4, <5>5
      <4>2. CASE q # p
        <5>1. k \in 1 .. Len(memory[q]) /\ memory'[q][k] = memory[q][k]
          BY <3>4, <4>2
        <5>2. memory[q][k] \in Nat /\ memory[q][k] <= turns
          BY <1>0, <5>1, ElementOfSeq
        <5> QED BY <1>0, <5>1, <5>2
      <4> QED BY <4>1, <4>2
    <3> QED BY <3>1, <3>4, <3>5 DEF MemoryOK
  <2>2. CASE ~Commit(p)
    <3>1. /\ turns' = turns
          /\ \/ memory' = memory
             \/ memory' = [memory EXCEPT ![p] = << >>]
             \/ memory' = [memory EXCEPT ![p] = Replayed(log)]
      <4>1. CASE Boot(p) \/ RepairRead(p) \/ RepairWrite(p) \/ CreateLog(p) \/ Resume(p)
                 \/ AppendLine(p) \/ UpdateIndex(p)
        BY <4>1 DEF Boot, RepairRead, RepairWrite, CreateLog, Resume, AppendLine, UpdateIndex,
                    handleVars, countVars
      <4>2. CASE CreateRow(p) \/ Replay(p) \/ SoftDelete(p) \/ CloseDirty(p)
        BY <4>2 DEF CreateRow, Replay, SoftDelete, CloseDirty, Exit, countVars
      <4>4. CASE Close(p) \/ Interrupt(p)
        BY <4>4, CloseIs DEF Exit
      <4>5. CASE Retrying(p)
        BY <4>5, RetryIs
      <4>3. CASE CloseRow(p) \/ Crash(p) \/ AppendFails(p) \/ UpdateFails(p)
        BY <4>3 DEF CloseRow, Crash, AppendFails, UpdateFails, Fails, Exit, countVars
      <4> QED BY <1>2, <2>2, <4>1, <4>2, <4>3, <4>4, <4>5 DEF Process, Retrying
    <3>2. /\ Replayed(log) \in Seq(Nat)
          /\ \A k \in 1 .. Len(Replayed(log)) : Replayed(log)[k] <= turns
      <4>1. Replayed(log) = [k \in 1 .. Len(log) |-> log[k].turn] /\ Len(log) \in Nat
        BY LogType DEF Replayed
      <4>2. \A k \in 1 .. Len(log) : log[k].turn \in Nat /\ log[k].turn <= turns
        BY LogType, LineFields DEF LogOK
      <4>3. Replayed(log) \in Seq(Nat)
        BY <4>1, <4>2
      <4>4. Len(Replayed(log)) = Len(log)
        BY <4>1, <4>3
      <4> QED BY <4>1, <4>2, <4>3, <4>4
    <3>3. << >> \in Seq(Nat) /\ Len(<< >>) = 0
      OBVIOUS
    <3>4. CASE memory' = memory
      BY <1>0, <3>1, <3>4 DEF MemoryOK
    <3>5. CASE memory' = [memory EXCEPT ![p] = << >>]
      BY <1>0, <3>1, <3>3, <3>5 DEF MemoryOK
    <3>6. CASE memory' = [memory EXCEPT ![p] = Replayed(log)]
      BY <1>0, <3>1, <3>2, <3>6 DEF MemoryOK
    <3> QED BY <3>1, <3>4, <3>5, <3>6
  <2> QED BY <2>1, <2>2
<1> QED BY <1>1, <1>2 DEF Next

LEMMA LogStep == ASSUME TypeInv, [Next]_vars PROVE LogOK'
<1> USE DEF TypeInv
<1>0. log \in Seq(LineType) /\ turns \in Nat /\ Len(log) \in Nat /\ written \in Nat
      /\ \A k \in 1 .. Len(log) : log[k].turn \in Nat /\ log[k].turn <= turns
  BY LogType, LineFields DEF LogOK, CountsOK
<1>1. CASE UNCHANGED <<log, written>> /\ (turns' = turns \/ turns' = turns + 1)
  <2> QED BY <1>0, <1>1 DEF LogOK
<1>2. CASE LeaseExpires \/ UNCHANGED vars
  BY <1>1, <1>2 DEF LeaseExpires, vars, fileVars, countVars
<1>3. ASSUME NEW p \in Procs, Process(p) PROVE LogOK'
  <2>1. CASE AppendLine(p)
    <3>1. turns' = turns /\ pc[p] = "append" /\ written' = written + 1
      BY <2>1 DEF AppendLine, countVars
    <3>2. /\ log' \in Seq(LineType) /\ Len(log') = Len(log) + 1
          /\ \A k \in 1 .. Len(log) : log'[k] = log[k]
          /\ log'[Len(log) + 1] = NewLineOf(p)
      BY <2>1, AppendedFacts
    <3>3. log'[Len(log) + 1].turn <= turns
      BY <1>0, <3>1, <3>2, WrittenType, GarbageType DEF NewLineOf
    <3>4. \A k \in 1 .. Len(log') : k \in 1 .. Len(log) \/ k = Len(log) + 1
      BY <1>0, <3>2
    <3>5. \A k \in 1 .. Len(log') : log'[k].turn <= turns'
      BY <1>0, <3>1, <3>2, <3>3, <3>4
    <3> QED BY <1>0, <3>1, <3>2, <3>5 DEF LogOK
  <2>4. CASE RetryCut(p)
    <3>1. turns' = turns /\ written' = written
      BY <2>4 DEF RetryCut, countVars
    <3>2. /\ log' \in Seq(LineType) /\ Len(log') \in 1 .. Len(log)
          /\ \A k \in 1 .. Len(log') : log'[k] = log[k]
      BY <2>4, CutFacts
    <3>3. \A k \in 1 .. Len(log') : k \in 1 .. Len(log)
      BY <1>0, <3>2
    <3> QED BY <1>0, <3>1, <3>2, <3>3 DEF LogOK
  <2>2. CASE CreateLog(p)
    <3>1. log' = <<Header>> /\ turns' = turns /\ written' = 1
      BY <2>2 DEF CreateLog
    <3>2. log' \in Seq(LineType) /\ Len(log') = 1 /\ log'[1] = Header
      BY <3>1, ConstantLines
    <3> QED BY <1>0, <3>1, <3>2, ConstantLines DEF LogOK
  <2>3. CASE ~AppendLine(p) /\ ~CreateLog(p) /\ ~RetryCut(p)
    <3>1. CASE Commit(p)
      BY <3>1, <1>1 DEF Commit, fileVars
    <3>3. CASE Retrying(p)
      BY <2>3, <3>3, <1>1, RetryIs
    <3>2. CASE ~Commit(p) /\ ~Retrying(p)
      <4>1. log' = log /\ turns' = turns /\ written' = written
        BY <1>3, <2>3, <3>2 DEF Process, Retrying, Boot, RepairRead, RepairWrite, CreateRow, Resume,
             Replay, SoftDelete, Close, CloseDirty, AppendFails, UpdateIndex, UpdateFails, CloseRow,
             Interrupt, Crash, fileVars, countVars
      <4> QED BY <4>1, <1>1
    <3> QED BY <3>1, <3>2, <3>3
  <2> QED BY <2>1, <2>2, <2>3, <2>4
<1> QED BY <1>2, <1>3 DEF Next

LEMMA LogChanges ==
  ASSUME TypeInv, NEW p \in Procs, Process(p)
  PROVE  /\ \/ log' = log /\ ~AppendLine(p) /\ ~CreateLog(p)
            \/ AppendLine(p)
            \/ CreateLog(p) /\ log = << >> /\ log' = <<Header>>
            \/ RetryCut(p) /\ log' # log
         /\ log # << >> => log' # << >>
<1>1. CASE AppendLine(p)
  BY <1>1, AppendedFacts
<1>2. CASE CreateLog(p)
  BY <1>2 DEF CreateLog
<1>3. CASE RetryCut(p)
  <2>1. pc[p] = "cut"
    BY <1>3 DEF RetryCut
  <2>2. ~AppendLine(p) /\ ~CreateLog(p)
    BY <2>1 DEF AppendLine, CreateLog
  <2> QED BY <1>3, <2>2, CutFacts
<1>4. CASE ~AppendLine(p) /\ ~CreateLog(p) /\ ~RetryCut(p)
  <2>1. CASE Retrying(p)
    BY <1>4, <2>1, RetryIs
  <2>2. CASE ~Retrying(p)
    <3>1. log' = log
      BY <1>4, <2>2 DEF Process, Retrying, Boot, RepairRead, RepairWrite, CreateRow, Resume, Replay,
           SoftDelete, Commit, Close, CloseDirty, AppendFails, UpdateIndex, UpdateFails, CloseRow,
           Interrupt, Crash, fileVars
    <3> QED BY <1>4, <3>1
  <2> QED BY <2>1, <2>2
<1> QED BY <1>1, <1>2, <1>3, <1>4

LEMMA BirthStep == ASSUME TypeInv, [Next]_vars PROVE BirthOK'
<1> USE DEF TypeInv
<1>0. /\ row # NoRow => log # << >>
      /\ row = NoRow => /\ log # << >> => log = <<Header>>
                        /\ \A q \in Procs : pc[q] \in {"off", "read", "upsert", "ready", "insert"}
      /\ pc \in [Procs -> Points]
  BY DEF BirthOK, HandlesOK
<1>1. CASE LeaseExpires \/ UNCHANGED vars
  <2>1. log' = log /\ pc' = pc /\ (row' = row \/ row.owner # 0)
    BY <1>1 DEF LeaseExpires, vars, fileVars
  <2>2. row.owner # 0 => row # NoRow /\ row' # NoRow
    <3>1. row.owner # 0 => row # NoRow
      BY DEF NoRow
    <3>2. row.owner # 0 => row'.owner # 0
      <4>1. row' = row \/ row' = [row EXCEPT !.expired = TRUE]
        BY <1>1 DEF LeaseExpires, vars
      <4>2. RowIs([row EXCEPT !.expired = TRUE], row.status, row.lastSeq, row.lastHash, row.owner, TRUE)
        BY RowEdits, RowFields DEF RowOK
      <4> QED BY <4>1, <4>2 DEF RowIs
    <3>3. NoRow.owner = 0
      BY DEF NoRow
    <3> QED BY <3>1, <3>2, <3>3
  <2> QED BY <1>0, <2>1, <2>2 DEF BirthOK
<1>2. ASSUME NEW p \in Procs, Process(p) PROVE BirthOK'
  <2>1. \/ row' = row
        \/ row # NoRow /\ row' # NoRow
        \/ RepairWrite(p) /\ row' # NoRow
        \/ CreateRow(p) /\ row' # NoRow /\ row = NoRow
    <3>1. RowChange(p)
      BY <1>2, RowChanges
    <3>2. NoRow.status = "none"
      BY DEF NoRow
    <3>3. pc[p] \in {"replay", "live", "index", "adopt"} => row # NoRow /\ row.status # "none"
      BY DEF RowOK, BirthOK
    <3>4. /\ Replay(p) => pc[p] = "replay"
          /\ RetryAdopt(p) => pc[p] = "adopt"
          /\ UpdateIndex(p) => pc[p] = "index"
          /\ CloseDirty(p) => pc[p] = "live"
          /\ Resume(p) \/ SoftDelete(p) => row.status \in {"active", "closed"}
      BY DEF Replay, RetryAdopt, UpdateIndex, CloseDirty, Resume, SoftDelete
    <3>5. CloseRow(p) => pc[p] = "release" /\ row # NoRow
      BY <1>0 DEF CloseRow
    <3>6. row.status \in {"active", "closed"} => row # NoRow
      BY <3>2
    <3> QED BY <3>1, <3>2, <3>3, <3>4, <3>5, <3>6 DEF RowChange, RowIs
  <2>2. row # NoRow => log' # << >>
    BY <1>0, <1>2, LogChanges
  <2>3. (RepairWrite(p) \/ CreateRow(p)) => log # << >> /\ log' = log
    <3>1. RepairWrite(p) => log # << >> /\ log' = log
      BY DEF RepairWrite, PlacesOK, fileVars
    <3>2. CreateRow(p) => log # << >> /\ log' = log
      BY DEF CreateRow, PlacesOK, fileVars
    <3> QED BY <3>1, <3>2
  <2>4. row' # NoRow => log' # << >>
    BY <2>1, <2>2, <2>3
  <2>5. ASSUME row = NoRow, row' = NoRow
        PROVE  /\ log' # << >> => log' = <<Header>>
               /\ \A q \in Procs : pc'[q] \in {"off", "read", "upsert", "ready", "insert"}
    <3>1. pc[p] \in {"off", "read", "upsert", "ready", "insert"} /\ row.status = "none"
      BY <1>0, <2>5 DEF NoRow
    <3>2. /\ log' = log \/ log' = <<Header>>
          /\ \E point \in {"off", "read", "upsert", "ready", "insert"} : pc' = [pc EXCEPT ![p] = point]
      <4>1. CASE Boot(p) \/ RepairRead(p) \/ RepairWrite(p)
        BY <4>1 DEF Boot, RepairRead, RepairWrite, Goto, fileVars
      <4>2. CASE CreateLog(p) \/ Crash(p)
        BY <4>2 DEF CreateLog, Crash, Exit, Goto
      <4>3. CASE CreateRow(p)
        <5>1. NoRow.status = "none" /\ (row' = [status |-> "active", lastSeq |-> 0, lastHash |-> 1,
                       owner |-> token[p], expired |-> FALSE] => row'.status = "active")
          BY DEF NoRow
        <5> QED BY <2>5, <4>3, <5>1 DEF CreateRow, Exit, Goto, fileVars
      <4>4. ~Resume(p) /\ ~SoftDelete(p)
        BY <3>1 DEF Resume, SoftDelete
      <4>5. ~Retrying(p) /\ ~Close(p) /\ ~Interrupt(p)
        BY <3>1, RetryIs, CloseIs DEF RetryPoints
      <4> QED BY <1>2, <3>1, <4>1, <4>2, <4>3, <4>4, <4>5 DEF Process, Retrying, Replay, Commit,
             CloseDirty, AppendLine, AppendFails, UpdateIndex, UpdateFails, CloseRow
    <3> QED BY <1>0, <2>5, <3>2
  <2>6. row' = NoRow => row = NoRow
    BY <2>1
  <2> QED BY <2>4, <2>5, <2>6 DEF BirthOK
<1> QED BY <1>1, <1>2 DEF Next

(* What a step does to the turn a process is about to save. *)
LEMMA PlacesStep == ASSUME TypeInv, [Next]_vars PROVE PlacesOK'
<1> USE DEF TypeInv
<1>0. /\ memory \in [Procs -> Seq(Nat)] /\ turns \in Nat /\ pc \in [Procs -> Points]
      /\ dirty \in [Procs -> BOOLEAN] /\ closing \in [Procs -> BOOLEAN]
  BY DEF MemoryOK, CountsOK, HandlesOK, FlagsOK
<1>1. CASE LeaseExpires \/ UNCHANGED vars
  <2>1. UNCHANGED <<log, pc, closing, dirty, memory>>
    BY <1>1 DEF LeaseExpires, vars, fileVars, handleVars, appendVars
  <2> QED BY <2>1 DEF PlacesOK, Saving, Newest
<1>2. ASSUME NEW p \in Procs, Process(p) PROVE PlacesOK'
  <2>1. ASSUME NEW q \in Procs
        PROVE  /\ closing[q] => pc[q] \in {"append", "index", "release"}
               /\ pc[q] = "release" => closing[q]
               /\ dirty[q] => pc[q] = "live" \/ pc[q] \in RetryPoints
               /\ pc[q] \in RetryPoints => dirty[q]
               /\ Saving(q) => memory[q] # << >> /\ Newest(q) # 0
               /\ pc[q] \in {"read", "upsert", "insert"} => log # << >>
    BY DEF PlacesOK
  <2>2. log # << >> => log' # << >>
    BY <1>2, LogChanges
  <2>3. ASSUME NEW q \in Procs, q # p
        PROVE  /\ pc'[q] = pc[q] /\ closing'[q] = closing[q] /\ dirty'[q] = dirty[q]
               /\ memory'[q] = memory[q]
    <3>1. CASE Boot(p) \/ RepairRead(p) \/ RepairWrite(p) \/ CreateLog(p) \/ Resume(p)
      BY <1>0, <2>3, <3>1 DEF Boot, RepairRead, RepairWrite, CreateLog, Resume, Goto, handleVars, appendVars
    <3>2. CASE CreateRow(p) \/ Replay(p) \/ SoftDelete(p)
      BY <1>0, <2>3, <3>2 DEF CreateRow, Replay, SoftDelete, Exit, Goto, appendVars
    <3>3. CASE CloseDirty(p) \/ CloseRow(p) \/ Crash(p)
      BY <1>0, <2>3, <3>3 DEF CloseDirty, CloseRow, Crash, Exit, Goto
    <3>4. CASE Commit(p)
      BY <1>0, <2>3, <3>4 DEF Commit, BeginAppend, Goto
    <3>6. CASE Close(p) \/ Interrupt(p)
      BY <1>0, <2>3, <3>6, CloseIs DEF Exit, Goto
    <3>7. CASE Retrying(p)
      <4>1. /\ UNCHANGED <<memory, closing>>
            /\ \E point \in {"live", "append"} \union RetryPoints : pc' = [pc EXCEPT ![p] = point]
            /\ dirty' = dirty \/ dirty' = [dirty EXCEPT ![p] = FALSE]
        BY <3>7, RetryIs
      <4> QED BY <1>0, <2>3, <4>1
    <3>5. CASE AppendLine(p) \/ UpdateIndex(p) \/ AppendFails(p) \/ UpdateFails(p)
      BY <1>0, <2>3, <3>5 DEF AppendLine, UpdateIndex, AppendFails, UpdateFails, Fails, Exit, Goto,
                              handleVars, appendVars
    <3> QED BY <1>2, <3>1, <3>2, <3>3, <3>4, <3>5, <3>6, <3>7 DEF Process, Retrying
  <2>4. /\ closing'[p] => pc'[p] \in {"append", "index", "release"}
        /\ pc'[p] = "release" => closing'[p]
        /\ dirty'[p] => pc'[p] = "live" \/ pc'[p] \in RetryPoints
        /\ pc'[p] \in RetryPoints => dirty'[p]
        /\ pc'[p] \in {"read", "upsert", "insert"} => log' # << >>
        /\ \/ memory'[p] # << >> /\ Last(memory'[p]) # 0
           \/ Saving(p) /\ memory'[p] = memory[p]
           \/ ~dirty'[p] /\ (pc'[p] \in {"append", "index"} => closing'[p])
    <3>0. /\ closing[p] => pc[p] \in {"append", "index", "release"}
          /\ pc[p] = "release" => closing[p]
          /\ dirty[p] => pc[p] = "live" \/ pc[p] \in RetryPoints
          /\ pc[p] \in RetryPoints => dirty[p]
          /\ pc[p] \in {"read", "upsert", "insert"} => log # << >>
      BY <2>1
    <3>1. CASE Boot(p) \/ RepairRead(p) \/ RepairWrite(p)
      BY <1>0, <3>0, <3>1 DEF Boot, RepairRead, RepairWrite, Goto, fileVars, handleVars, appendVars,
                              RetryPoints
    <3>2. CASE CreateLog(p) \/ Resume(p)
      <4>1. CreateLog(p) => log' # << >>
        BY ConstantLines DEF CreateLog
      <4> QED BY <1>0, <3>0, <3>2, <4>1 DEF CreateLog, Resume, Goto, appendVars, RetryPoints
    <3>3. CASE CreateRow(p) \/ Replay(p) \/ SoftDelete(p)
      BY <1>0, <3>0, <3>3 DEF CreateRow, Replay, SoftDelete, Exit, Goto, appendVars, RetryPoints
    <3>4. CASE CloseDirty(p) \/ CloseRow(p) \/ Crash(p)
      BY <1>0, <3>0, <3>4 DEF CloseDirty, CloseRow, Crash, Exit, Goto, RetryPoints
    <3>5. CASE Commit(p)
      <4>1. memory'[p] = Append(memory[p], turns + 1)
        BY <1>0, <3>5 DEF Commit
      <4>2. memory[p] \in Seq(Nat) /\ turns + 1 \in Nat /\ turns + 1 # 0
        BY <1>0
      <4>3. memory'[p] # << >> /\ Last(memory'[p]) = turns + 1
        BY <4>1, <4>2, AppendProperties DEF Last
      <4>4. pc[p] = "live" /\ closing' = closing
            /\ (\/ dirty' = [dirty EXCEPT ![p] = FALSE] /\ pc' = [pc EXCEPT ![p] = "append"]
                \/ dirty' = [dirty EXCEPT ![p] = TRUE] /\ pc' = [pc EXCEPT ![p] = "live"])
        BY <3>5 DEF Commit, BeginAppend, Goto
      <4> QED BY <1>0, <3>0, <4>2, <4>3, <4>4 DEF RetryPoints
    <3>6. CASE Retrying(p)
      <4>1. PICK point \in {"live", "append"} \union RetryPoints : pc' = [pc EXCEPT ![p] = point]
        BY <3>6, RetryIs
      <4>2. /\ dirty[p] /\ ~closing[p] /\ closing' = closing /\ memory' = memory
            /\ dirty' = dirty \/ (dirty' = [dirty EXCEPT ![p] = FALSE] /\ pc'[p] \in {"live", "append"})
            /\ pc'[p] = "append" => ~dirty'[p]
        BY <3>6, RetryIs
      <4>3. pc'[p] = point
        BY <1>0, <4>1
      <4> QED BY <1>0, <4>2, <4>3 DEF RetryPoints, Saving
    <3>7. CASE Close(p) \/ Interrupt(p)
      BY <1>0, <3>0, <3>7, CloseIs DEF Exit, Goto, RetryPoints
    <3>8. CASE AppendLine(p) \/ UpdateIndex(p)
      BY <1>0, <3>0, <3>8 DEF AppendLine, UpdateIndex, Goto, handleVars, Saving, RetryPoints
    <3>9. CASE AppendFails(p) \/ UpdateFails(p)
      BY <1>0, <3>0, <3>9 DEF AppendFails, UpdateFails, Fails, Exit, Goto, Saving, RetryPoints
    <3> QED BY <1>2, <3>1, <3>2, <3>3, <3>4, <3>5, <3>6, <3>7, <3>8, <3>9 DEF Process, Retrying
  <2>5. ASSUME NEW q \in Procs
        PROVE  (/\ closing[q] => pc[q] \in {"append", "index", "release"}
                /\ pc[q] = "release" => closing[q]
                /\ dirty[q] => pc[q] = "live" \/ pc[q] \in RetryPoints
                /\ pc[q] \in RetryPoints => dirty[q]
                /\ Saving(q) => memory[q] # << >> /\ Newest(q) # 0
                /\ pc[q] \in {"read", "upsert", "insert"} => log # << >>)'
    <3>1. CASE q = p
      BY <2>1, <2>4, <3>1 DEF Saving, Newest
    <3>2. CASE q # p
      BY <2>1, <2>2, <2>3, <3>2 DEF Saving, Newest
    <3> QED BY <3>1, <3>2
  <2> QED BY <2>5 DEF PlacesOK
<1> QED BY <1>1, <1>2 DEF Next

LEMMA TypeInvInit == Init => TypeInv
<1> SUFFICES ASSUME Init PROVE TypeInv
  OBVIOUS
<1> USE DEF Init
<1>1. LogOK
  BY DEF LogOK
<1>2. RowOK
  BY DEF RowOK, RowType, NoRow
<1>3. CountsOK
  BY BoundsAssumption DEF CountsOK
<1>4. TokensOK
  BY DEF TokensOK
<1>5. HandlesOK
  BY DEF HandlesOK, Finding, NothingFound, SeenType, NothingSeen, Points
<1>6. MemoryOK
  BY DEF MemoryOK
<1>7. FlagsOK
  BY DEF FlagsOK
<1>8. PlacesOK
  BY DEF PlacesOK, Saving, RetryPoints
<1>9. BirthOK
  BY DEF BirthOK
<1> QED BY <1>1, <1>2, <1>3, <1>4, <1>5, <1>6, <1>7, <1>8, <1>9 DEF TypeInv

LEMMA TypeInvStep == TypeInv /\ [Next]_vars => TypeInv'
<1> SUFFICES ASSUME TypeInv, [Next]_vars PROVE TypeInv'
  OBVIOUS
<1>1. LogOK' /\ RowOK' /\ CountsOK' /\ TokensOK' /\ HandlesOK' /\ MemoryOK' /\ FlagsOK' /\ PlacesOK'
      /\ BirthOK'
  BY LogStep, RowStep, CountsStep, TokensStep, HandlesStep, MemoryStep, FlagsStep, PlacesStep, BirthStep
<1> QED BY <1>1 DEF TypeInv

(* TypeOK: every state has the shape of the session's files and handles, and an *)
(* owner token (_owner_token) is held by one process at a time.                  *)
THEOREM SessionTypes == Spec => []TypeOK
<1>1. Init => TypeInv
  BY TypeInvInit
<1>2. TypeInv /\ [Next]_vars => TypeInv'
  BY TypeInvStep
<1>3. TypeInv => TypeOK
  <2> SUFFICES ASSUME TypeInv PROVE TypeOK
    OBVIOUS
  <2> USE DEF TypeInv
  <2>1. log \in Seq([kind : Kinds, seq : Nat, prev : Nat, turn : 0 .. MaxTurns, hash : Nat])
    <3> DEFINE Bounded == [kind : Kinds, seq : Nat, prev : Nat, turn : 0 .. MaxTurns, hash : Nat]
    <3>1. \A k \in 1 .. Len(log) : log[k] \in Bounded
      <4> SUFFICES ASSUME NEW k \in 1 .. Len(log) PROVE log[k] \in Bounded
        OBVIOUS
      <4>1. log[k] \in LineType /\ log[k].turn <= turns /\ turns \in 0 .. MaxTurns
        BY LogType DEF LogOK, CountsOK
      <4>2. log[k].turn \in 0 .. MaxTurns
        BY <4>1, BoundsAssumption, LineFields
      <4> QED BY <4>1, <4>2 DEF LineType
    <3>2. log \in Seq(LineType)
      BY DEF LogOK
    <3> HIDE DEF Bounded
    <3>3. log \in Seq(Bounded)
      BY <3>1, <3>2
    <3> QED BY <3>3 DEF Bounded
  <2>2. memory \in [Procs -> Seq(0 .. MaxTurns)]
    <3>1. ASSUME NEW p \in Procs PROVE memory[p] \in Seq(0 .. MaxTurns)
      <4>1. memory[p] \in Seq(Nat) /\ turns \in 0 .. MaxTurns
            /\ \A k \in 1 .. Len(memory[p]) : memory[p][k] <= turns
        BY DEF MemoryOK, CountsOK
      <4>2. \A k \in 1 .. Len(memory[p]) : memory[p][k] \in Nat
        BY <4>1, ElementOfSeq
      <4>3. \A k \in 1 .. Len(memory[p]) : memory[p][k] \in 0 .. MaxTurns
        BY <4>1, <4>2, BoundsAssumption
      <4> DEFINE Bounded == 0 .. MaxTurns
      <4> HIDE DEF Bounded
      <4>4. \A k \in 1 .. Len(memory[p]) : memory[p][k] \in Bounded
        BY <4>3 DEF Bounded
      <4>5. memory[p] \in Seq(Bounded)
        BY <4>1, <4>4
      <4> QED BY <4>5 DEF Bounded
    <3> QED BY <3>1 DEF MemoryOK
  <2>3. /\ row \in [status : {"none", "active", "closed", "deleted", "damaged"},
                    lastSeq : Nat, lastHash : Nat, owner : 0 .. MaxTokens, expired : BOOLEAN]
    <3>1. row \in RowType /\ row.owner \in 0 .. MaxTokens
      BY RowFields, BoundsAssumption DEF RowOK, CountsOK
    <3> QED BY <3>1 DEF RowType
  <2>4. /\ tail \in {"clean", "torn"} /\ tokens \in 0 .. MaxTokens /\ turns \in 0 .. MaxTurns
        /\ acked \subseteq 1 .. turns /\ misled \subseteq acked /\ mishaps \subseteq Mishaps
        /\ written \in Nat
    BY DEF CountsOK, LogOK
  <2>5. token \in [Procs -> 0 .. MaxTokens]
        /\ \A p, q \in Procs : token[p] = token[q] /\ token[p] # 0 => p = q
    <3>1. \A p \in Procs : token[p] \in 0 .. MaxTokens
      BY BoundsAssumption DEF TokensOK, CountsOK
    <3> QED BY <3>1 DEF TokensOK
  <2>6. /\ pc \in [Procs -> Points] /\ lastHash \in [Procs -> Nat] /\ next \in [Procs -> Nat]
        /\ wrote \in [Procs -> Nat]
        /\ found \in [Procs -> [indexed : BOOLEAN, readable : BOOLEAN, closed : BOOLEAN,
                                seq : Nat, hash : Nat]]
        /\ seen \in [Procs -> [seq : Nat, hash : Nat, line : Nat]]
    BY DEF HandlesOK, Finding, SeenType
  <2>7. dirty \in [Procs -> BOOLEAN] /\ closing \in [Procs -> BOOLEAN]
    BY DEF FlagsOK
  <2> QED BY <2>1, <2>2, <2>3, <2>4, <2>5, <2>6, <2>7 DEF TypeOK
<1> QED BY <1>1, <1>2, <1>3, PTL DEF Spec

---------------------------------------------------------------------------
(* What a step leaves alone.                                               *)

LEMMA OthersKeep ==
  ASSUME TypeInv, NEW p \in Procs, Process(p), NEW q \in Procs, q # p
  PROVE  /\ pc'[q] = pc[q] /\ token'[q] = token[q] /\ lastHash'[q] = lastHash[q]
         /\ memory'[q] = memory[q] /\ dirty'[q] = dirty[q] /\ closing'[q] = closing[q]
         /\ next'[q] = next[q] /\ wrote'[q] = wrote[q] /\ seen'[q] = seen[q]
<1>0. /\ memory \in [Procs -> Seq(Nat)] /\ token \in [Procs -> Nat]
      /\ pc \in [Procs -> Points] /\ lastHash \in [Procs -> Nat] /\ next \in [Procs -> Nat]
      /\ wrote \in [Procs -> Nat] /\ seen \in [Procs -> SeenType]
      /\ dirty \in [Procs -> BOOLEAN] /\ closing \in [Procs -> BOOLEAN]
  BY DEF TypeInv, MemoryOK, TokensOK, HandlesOK, FlagsOK
<1>1. CASE Boot(p) \/ RepairRead(p) \/ RepairWrite(p)
  BY <1>0, <1>1 DEF Boot, RepairRead, RepairWrite, Goto, handleVars, appendVars
<1>2. CASE CreateLog(p) \/ Resume(p)
  BY <1>0, <1>2 DEF CreateLog, Resume, DrawToken, Goto, appendVars
<1>3. CASE CreateRow(p) \/ Replay(p) \/ SoftDelete(p)
  BY <1>0, <1>3 DEF CreateRow, Replay, SoftDelete, Exit, Goto, appendVars
<1>4. CASE CloseDirty(p) \/ CloseRow(p) \/ Crash(p)
  BY <1>0, <1>4 DEF CloseDirty, CloseRow, Crash, Exit, Goto
<1>5. CASE Commit(p)
  BY <1>0, <1>5 DEF Commit, BeginAppend, Goto
<1>6. CASE AppendLine(p) \/ UpdateIndex(p) \/ AppendFails(p) \/ UpdateFails(p)
  BY <1>0, <1>6 DEF AppendLine, UpdateIndex, AppendFails, UpdateFails, Fails, EndAppend, Exit, Goto,
                    handleVars
<1>7. CASE Close(p) \/ Interrupt(p)
  <2>1. \/ Exit(p)
        \/ /\ UNCHANGED <<token, lastHash, memory, dirty, seen>>
           /\ next' = [next EXCEPT ![p] = row.lastSeq + 1] /\ wrote' = [wrote EXCEPT ![p] = 0]
           /\ closing' = [closing EXCEPT ![p] = TRUE] /\ pc' = [pc EXCEPT ![p] = "append"]
    BY <1>7, CloseIs
  <2>2. CASE Exit(p)
    BY <1>0, <2>2 DEF Exit, Goto
  <2> QED BY <1>0, <2>1, <2>2
<1>8. CASE Retrying(p)
  <2>1. /\ UNCHANGED <<token, memory, closing, wrote>>
        /\ \E point \in {"live", "append"} \union RetryPoints : pc' = [pc EXCEPT ![p] = point]
        /\ dirty' = dirty \/ dirty' = [dirty EXCEPT ![p] = FALSE]
    BY <1>8, RetryIs
  <2>2. /\ \E s \in SeenType : seen' = [seen EXCEPT ![p] = s]
        /\ lastHash' = lastHash \/ \E n \in Nat : lastHash' = [lastHash EXCEPT ![p] = n]
        /\ next' = next \/ \E n \in Nat : next' = [next EXCEPT ![p] = n]
    BY <1>8, RetryIs
  <2>3. /\ token'[q] = token[q] /\ memory'[q] = memory[q] /\ closing'[q] = closing[q]
        /\ wrote'[q] = wrote[q] /\ pc'[q] = pc[q] /\ dirty'[q] = dirty[q]
    BY <1>0, <2>1
  <2>4. lastHash'[q] = lastHash[q] /\ next'[q] = next[q] /\ seen'[q] = seen[q]
    BY <1>0, <2>2
  <2> QED BY <2>3, <2>4
<1> QED BY <1>1, <1>2, <1>3, <1>4, <1>5, <1>6, <1>7, <1>8 DEF Process, Retrying

(* A lease is never given to a process by another's step: a process that has it *)
(* after a step of another had it before, and the row is as it was.             *)
LEMMA LeaseIsTaken ==
  ASSUME TypeInv, NEW p \in Procs, Process(p), NEW q \in Procs, q # p, Holds(q)'
  PROVE  Holds(q) /\ row' = row
<1>1. row'.owner # 0 /\ row'.owner = token[q]
  BY OthersKeep DEF Holds
<1>2. /\ token[q] \in Nat /\ token[q] <= tokens /\ tokens \in Nat
      /\ token[p] = token[q] /\ token[p] # 0 => p = q
  BY DEF TypeInv, TokensOK, CountsOK
<1>3. Holds(p) => row.owner = token[p]
  BY DEF Holds
<1>5. tokens + 1 # token[q]
  BY <1>2
<1>6. RowChange(p)
  BY RowChanges
<1>7. row' = row
  BY <1>1, <1>2, <1>3, <1>5, <1>6 DEF RowChange, RowIs
<1> QED BY <1>1, <1>7 DEF Holds

LEMMA MishapsGrow ==
  ASSUME TypeInv, NEW p \in Procs, Process(p), mishaps' = {}
  PROVE  /\ mishaps = {}
         /\ AppendLine(p) => Holds(p) /\ tail # "torn"
         /\ RetryCut(p) => log' = log
<1>1. CASE AppendLine(p)
  <2>1. /\ tail = "torn" => "glued" \in mishaps'
        /\ ~Holds(p) => "late" \in mishaps'
        /\ mishaps \subseteq mishaps'
    BY <1>1 DEF AppendLine
  <2>2. ~RetryCut(p)
    BY <1>1 DEF AppendLine, RetryCut
  <2> QED BY <2>1, <2>2
<1>2. CASE RetryCut(p)
  <2>1. mishaps \subseteq mishaps' /\ (log' # log => "cut" \in mishaps')
    BY <1>2 DEF RetryCut
  <2>2. ~AppendLine(p)
    BY <1>2 DEF AppendLine, RetryCut
  <2> QED BY <2>1, <2>2
<1>3. CASE ~AppendLine(p) /\ ~RetryCut(p)
  <2>1. mishaps \subseteq mishaps'
    <3>1. CASE Retrying(p)
      BY <1>3, <3>1, RetryIs
    <3>2. CASE Close(p) \/ Interrupt(p)
      BY <3>2, CloseIs
    <3>3. CASE ~Retrying(p) /\ ~Close(p) /\ ~Interrupt(p)
      <4>1. mishaps' = mishaps
        BY <1>3, <3>3 DEF Process, Retrying, Boot, RepairRead, RepairWrite, CreateLog, CreateRow, Resume,
             Replay, SoftDelete, Commit, CloseDirty, AppendFails, UpdateIndex, UpdateFails, CloseRow,
             Crash, historyVars
      <4> QED BY <4>1
    <3> QED BY <3>1, <3>2, <3>3
  <2> QED BY <1>3, <2>1
<1> QED BY <1>1, <1>2, <1>3

(* Until the first mishap a line stays where it is. *)
LEMMA LogGrows ==
  ASSUME TypeInv, NEW p \in Procs, Process(p), mishaps' = {}
  PROVE  /\ (log' = log /\ ~CreateLog(p) /\ ~AppendLine(p)) \/ AppendLine(p)
            \/ (CreateLog(p) /\ log = << >>)
         /\ \A k \in 1 .. Len(log) : k \in 1 .. Len(log') /\ log'[k] = log[k]
<1>0. Len(log) \in Nat
  BY LogType DEF TypeInv
<1>1. CASE AppendLine(p)
  <2>1. Len(log') = Len(log) + 1 /\ \A k \in 1 .. Len(log) : log'[k] = log[k]
    BY <1>1, AppendedFacts
  <2> QED BY <1>0, <1>1, <2>1
<1>2. CASE CreateLog(p)
  <2>1. log = << >> /\ Len(log) = 0
    BY <1>2 DEF CreateLog
  <2> QED BY <1>2, <2>1
<1>3. CASE ~AppendLine(p) /\ ~CreateLog(p)
  <2>1. log' = log
    BY <1>3, LogChanges, MishapsGrow
  <2> QED BY <1>0, <1>3, <2>1
<1> QED BY <1>1, <1>2, <1>3

(* Without a row nobody holds the lease; whoever has a row has a log. *)
LEMMA LeaseHasLog ==
  ASSUME TypeInv, NEW p \in Procs, Holds(p)
  PROVE  row # NoRow /\ log # << >>
<1>1. row # NoRow
  BY DEF Holds, NoRow
<1> QED BY <1>1 DEF TypeInv, BirthOK

(* A turn in hand after a step was in hand before it, or was completed by it. *)
LEMMA SavingComes ==
  ASSUME TypeInv, NEW p \in Procs, Process(p), Saving(p)'
  PROVE  \/ Commit(p) /\ Newest(p)' = turns + 1
         \/ ~Commit(p) /\ Saving(p) /\ Newest(p)' = Newest(p)
<1>0. /\ memory \in [Procs -> Seq(Nat)] /\ turns \in Nat /\ pc \in [Procs -> Points]
      /\ dirty \in [Procs -> BOOLEAN] /\ closing \in [Procs -> BOOLEAN]
  BY DEF TypeInv, MemoryOK, CountsOK, HandlesOK, FlagsOK
<1>1. /\ closing[p] => pc[p] \in {"append", "index", "release"}
      /\ pc[p] = "release" => closing[p]
      /\ dirty[p] => pc[p] = "live" \/ pc[p] \in RetryPoints
  BY DEF TypeInv, PlacesOK
<1>2. CASE Commit(p)
  <2>1. memory'[p] = Append(memory[p], turns + 1) /\ memory[p] \in Seq(Nat) /\ turns + 1 \in Nat
    BY <1>0, <1>2 DEF Commit
  <2>2. Last(memory'[p]) = turns + 1
    BY <2>1, AppendProperties DEF Last
  <2> QED BY <1>2, <2>2 DEF Newest
<1>3. CASE ~Commit(p)
  <2>1. dirty'[p] \/ (pc'[p] \in {"append", "index"} /\ ~closing'[p])
    BY DEF Saving
  <2>2. Saving(p) /\ memory'[p] = memory[p]
    <3>1. ~Boot(p) /\ ~RepairRead(p) /\ ~RepairWrite(p)
      BY <1>0, <1>1, <2>1 DEF Boot, RepairRead, RepairWrite, Goto, handleVars, appendVars, RetryPoints
    <3>2. ~CreateLog(p) /\ ~Resume(p)
      BY <1>0, <1>1, <2>1 DEF CreateLog, Resume, Goto, appendVars, RetryPoints
    <3>3. ~CreateRow(p) /\ ~Replay(p) /\ ~SoftDelete(p)
      BY <1>0, <1>1, <2>1 DEF CreateRow, Replay, SoftDelete, Exit, Goto, appendVars, RetryPoints
    <3>4. ~CloseDirty(p) /\ ~CloseRow(p) /\ ~Crash(p)
      BY <1>0, <1>1, <2>1 DEF CloseDirty, CloseRow, Crash, Exit, Goto
    <3>5. ~Close(p) /\ ~Interrupt(p)
      <4> SUFFICES ASSUME Close(p) \/ Interrupt(p) PROVE FALSE
        OBVIOUS
      <4> QED BY <1>0, <2>1, CloseIs DEF Exit, Goto
    <3>6. CASE Retrying(p)
      BY <3>6, RetryIs DEF Saving
    <3>7. CASE AppendLine(p) \/ UpdateIndex(p)
      BY <1>0, <1>1, <2>1, <3>7 DEF AppendLine, UpdateIndex, Goto, handleVars, Saving, RetryPoints
    <3>8. CASE AppendFails(p) \/ UpdateFails(p)
      BY <1>0, <1>1, <2>1, <3>8 DEF AppendFails, UpdateFails, Fails, Exit, Goto, Saving, RetryPoints
    <3> QED BY <1>3, <3>1, <3>2, <3>3, <3>4, <3>5, <3>6, <3>7, <3>8 DEF Process, Retrying
  <2> QED BY <1>3, <2>2 DEF Newest
<1> QED BY <1>2, <1>3

---------------------------------------------------------------------------
(* The lease and the end of the log.                                       *)

(* The steps of the process that has the lease. *)
LEMMA OwnSync ==
  ASSUME TypeInv, NumbersOK, NEW p \in Procs, Process(p), Holds(p)', Holds(p) => Synced(p),
         mishaps = {}, mishaps' = {}, AppendLine(p) => Holds(p) /\ tail # "torn"
  PROVE  Synced(p)'
<1>0. /\ memory \in [Procs -> Seq(Nat)] /\ pc \in [Procs -> Points]
      /\ dirty \in [Procs -> BOOLEAN] /\ closing \in [Procs -> BOOLEAN]
      /\ lastHash \in [Procs -> Nat] /\ next \in [Procs -> Nat] /\ wrote \in [Procs -> Nat]
  BY DEF TypeInv, MemoryOK, HandlesOK, FlagsOK
<1>1. /\ row.lastSeq \in Nat /\ row.lastHash \in Nat /\ Len(log) \in Nat
      /\ lastHash[p] \in Nat /\ next[p] \in Nat /\ wrote[p] \in Nat
      /\ closing[p] => pc[p] \in {"append", "index", "release"}
      /\ written = Len(log) /\ \A k \in 1 .. Len(log) : log[k].hash = k
  BY <1>0, RowFields, LogType DEF TypeInv, PlacesOK, NumbersOK
<1>12. log # << >> => Len(log) \in 1 .. Len(log) /\ Last(log) = log[Len(log)] /\ Last(log).hash = Len(log)
  BY <1>1, LogType DEF TypeInv
<1>2. CASE Boot(p) \/ RepairRead(p) \/ RepairWrite(p) \/ CreateLog(p) \/ Resume(p)
  <2>1. pc'[p] \notin {"live", "append", "index"} \union RetryPoints
    BY <1>0, <1>2 DEF Boot, RepairRead, RepairWrite, CreateLog, Resume, Goto, RetryPoints
  <2> QED BY <2>1 DEF Synced, RetryPoints
<1>3. CASE SoftDelete(p) \/ CloseDirty(p) \/ CloseRow(p) \/ Crash(p)
  <2>1. pc'[p] = "off"
    BY <1>0, <1>3 DEF SoftDelete, CloseDirty, CloseRow, Crash, Exit, Goto
  <2> QED BY <2>1 DEF Synced, RetryPoints
<1>4. CASE CreateRow(p)
  <2>1. CASE row = NoRow /\ RowIs(row', "active", 0, 1, token[p], FALSE) /\ lastHash'[p] = 1
             /\ log' = log /\ pc'[p] = "live"
    <3>1. log = <<Header>> /\ Len(log) = 1
      BY <1>4, <2>1 DEF TypeInv, BirthOK, PlacesOK, CreateRow
    <3> QED BY <2>1, <3>1 DEF Synced, RowIs, RetryPoints
  <2>2. CASE pc'[p] = "off"
    BY <2>2 DEF Synced, RetryPoints
  <2>3. RowIs([status |-> "active", lastSeq |-> 0, lastHash |-> 1,
               owner |-> token[p], expired |-> FALSE], "active", 0, 1, token[p], FALSE)
    BY RowMade DEF TypeInv, TokensOK, Statuses
  <2> QED BY <1>0, <1>4, <2>1, <2>2, <2>3 DEF CreateRow, Exit, Goto, fileVars
<1>5. CASE Replay(p)
  <2>1. CASE pc'[p] = "off"
    BY <2>1 DEF Synced, RetryPoints
  <2>2. CASE pc'[p] = "live"
    <3>1. /\ log' = log /\ token' = token /\ Readable(log) /\ log # << >>
          /\ row' = IF Holds(p) THEN [row EXCEPT !.lastSeq = Last(log).seq, !.lastHash = Last(log).hash]
                    ELSE row
          /\ lastHash'[p] = Last(log).hash
      BY <1>0, <1>5, <2>2 DEF Replay, Readable, Exit, Goto, fileVars
    <3>2. Last(log).hash = Len(log) /\ Last(log).seq = Len(log) - 1 /\ Len(log) - 1 \in Nat
      BY <1>1, <1>12, <3>1, LogType DEF Readable, TypeInv
    <3>3. RowIs([row EXCEPT !.lastSeq = Last(log).seq, !.lastHash = Last(log).hash],
                row.status, Last(log).seq, Last(log).hash, row.owner, row.expired)
      BY <1>1, <3>2, RowNumbers DEF TypeInv, RowOK
    <3>4. Holds(p)
      BY <3>1 DEF Holds
    <3>5. row'.lastSeq = Len(log) - 1 /\ row'.lastHash = Len(log)
      BY <3>1, <3>2, <3>3, <3>4 DEF RowIs
    <3>6. row'.lastHash = row'.lastSeq + 1
      BY <1>1, <3>5
    <3> QED BY <2>2, <3>1, <3>2, <3>5, <3>6 DEF Synced, RetryPoints
  <2> QED BY <1>0, <1>5, <2>1, <2>2 DEF Replay, Exit, Goto
<1>6. CASE Commit(p)
  <2>1. /\ pc[p] = "live" /\ ~dirty[p] /\ UNCHANGED <<log, row, token, lastHash, closing, wrote>>
        /\ \/ pc'[p] = "append" /\ next'[p] = row.lastSeq + 1
           \/ pc'[p] = "live"
    BY <1>0, <1>6 DEF Commit, BeginAppend, Goto, fileVars
  <2>2. Holds(p)
    BY <2>1 DEF Holds
  <2> QED BY <1>1, <2>1, <2>2 DEF Synced, RetryPoints
<1>7. CASE Close(p) \/ Interrupt(p)
  <2>1. CASE Exit(p)
    <3>1. pc'[p] = "off"
      BY <1>0, <2>1 DEF Exit, Goto
    <3> QED BY <3>1 DEF Synced, RetryPoints
  <2>2. CASE ~Exit(p)
    <3>1. /\ pc[p] \in {"live", "append"} /\ ~dirty[p] /\ UNCHANGED <<log, row, token, lastHash>>
          /\ pc'[p] = "append" /\ next'[p] = row.lastSeq + 1
      BY <1>0, <1>7, <2>2, CloseIs
    <3>2. Holds(p)
      BY <3>1 DEF Holds
    <3> QED BY <1>1, <3>1, <3>2 DEF Synced, RetryPoints
  <2> QED BY <2>1, <2>2
<1>8. CASE AppendLine(p)
  <2>1. /\ pc[p] = "append" /\ pc'[p] = "index" /\ UNCHANGED <<row, lastHash, next, closing, memory>>
        /\ wrote'[p] = Len(log) + 1 /\ Holds(p) /\ tail # "torn"
    BY <1>0, <1>1, <1>8 DEF AppendLine, Goto, handleVars
  <2>2. /\ log' \in Seq(LineType) /\ Len(log') = Len(log) + 1
        /\ log'[Len(log) + 1] = Written(p)
    BY <1>8, <2>1, AppendedFacts DEF NewLineOf
  <2>3. ~closing[p] => Last(log').turn = Newest(p)
    BY <1>1, <2>1, <2>2, WrittenType DEF Last
  <2> QED BY <1>1, <2>1, <2>2, <2>3 DEF Synced, Newest, RetryPoints
<1>9. CASE AppendFails(p) \/ UpdateFails(p)
  <2>1. CASE pc'[p] = "off"
    BY <2>1 DEF Synced, RetryPoints
  <2>2. CASE pc'[p] # "off"
    <3>1. /\ pc[p] \in {"append", "index"} /\ pc'[p] = "live" /\ dirty'[p] /\ ~closing[p]
          /\ UNCHANGED <<log, row, token, lastHash, memory>>
      BY <1>0, <1>9, <2>2 DEF AppendFails, UpdateFails, Fails, Exit, Goto, fileVars
    <3>2. Holds(p)
      BY <3>1 DEF Holds
    <3> QED BY <1>1, <3>1, <3>2 DEF Synced, Newest, RetryPoints
  <2> QED BY <2>1, <2>2
<1>10. CASE UpdateIndex(p)
  <2>1. /\ pc[p] = "index" /\ pc'[p] \in {"live", "release"} /\ UNCHANGED <<log, token>>
        /\ lastHash'[p] = wrote[p]
        /\ row' = IF Holds(p)
                  THEN [row EXCEPT !.status = "active", !.lastSeq = next[p],
                                   !.lastHash = wrote[p], !.expired = FALSE]
                  ELSE row
    BY <1>0, <1>10 DEF UpdateIndex, Goto, fileVars
  <2>2. Holds(p)
    BY <2>1 DEF Holds
  <2>3. RowIs(row', "active", next[p], wrote[p], row.owner, FALSE)
    BY <1>1, <2>1, <2>2, RowNumbers DEF TypeInv, RowOK
  <2> QED BY <1>1, <2>1, <2>2, <2>3 DEF Synced, RowIs, RetryPoints
<1>11. CASE Retrying(p)
  <2>0. /\ pc[p] \in {"live"} \union RetryPoints /\ dirty[p] /\ UNCHANGED <<token, memory>>
        /\ RetryAdopt(p) \/ UNCHANGED <<row, lastHash>>
        /\ log' = log /\ seen \in [Procs -> SeenType]
    BY <1>11, RetryIs, MishapsGrow DEF TypeInv, HandlesOK
  <2>1. Holds(p)
    BY <2>0 DEF RetryAdopt, Holds
  <2>2. /\ Len(log) = row.lastHash \/ (Len(log) = row.lastHash + 1 /\ Last(log).turn = Newest(p))
        /\ row.lastHash = lastHash[p] /\ row.lastHash = row.lastSeq + 1
        /\ pc[p] \in RetryPoints => seen[p].seq = row.lastSeq /\ seen[p].hash = row.lastHash
        /\ pc[p] = "adopt" => Len(log) = row.lastHash + 1 /\ seen[p].line = Len(log)
    BY <2>0, <2>1 DEF Synced
  <2>3. log # << >>
    BY <2>1, LeaseHasLog
  <2>4. CASE RetryCheck(p)
    <3>1. /\ pc'[p] = "look" /\ dirty' = dirty /\ UNCHANGED <<row, lastHash>>
          /\ seen'[p].seq = row.lastSeq /\ seen'[p].hash = row.lastHash
      BY <1>0, <2>0, <2>4 DEF RetryCheck, Goto, handleVars
    <3> QED BY <2>0, <2>2, <3>1 DEF Synced, Newest, RetryPoints
  <2>5. CASE RetryLook(p)
    <3>1. /\ pc[p] = "look" /\ pc'[p] \in {"cut", "records"} /\ dirty' = dirty
          /\ UNCHANGED <<row, lastHash>>
          /\ seen'[p].seq = seen[p].seq /\ seen'[p].hash = seen[p].hash
      BY <1>0, <2>0, <2>5 DEF RetryLook, Goto, handleVars, SeenType
    <3> QED BY <2>0, <2>2, <3>1 DEF Synced, Newest, RetryPoints
  <2>6. CASE RetryCut(p)
    <3>1. /\ pc[p] = "cut" /\ pc'[p] = "records" /\ dirty' = dirty /\ UNCHANGED <<row, lastHash, seen>>
      BY <1>0, <2>6 DEF RetryCut, Goto, handleVars
    <3> QED BY <2>0, <2>2, <3>1 DEF Synced, Newest, RetryPoints
  <2>7. CASE RetryRead(p)
    <3>1. /\ pc[p] = "records" /\ Readable(log) /\ UNCHANGED <<row, lastHash>>
          /\ \/ Last(log).seq = seen[p].seq /\ BeginAppend(p)
             \/ /\ Follows(seen[p].seq, seen[p].hash) /\ pc'[p] = "adopt" /\ dirty' = dirty
                /\ seen'[p].line = Last(log).hash
                /\ seen'[p].seq = seen[p].seq /\ seen'[p].hash = seen[p].hash
      BY <1>0, <2>0, <2>7 DEF RetryRead, Goto, SeenType
    <3>2. Last(log).seq = Len(log) - 1
      BY <1>12, <2>3, <3>1, LogType DEF Readable, TypeInv
    <3>3. CASE Last(log).seq = seen[p].seq /\ BeginAppend(p)
      <4>1. Len(log) = row.lastHash
        BY <1>1, <2>2, <3>1, <3>2, <3>3 DEF RetryPoints
      <4>2. \/ pc'[p] = "append" /\ next'[p] = row.lastSeq + 1
            \/ pc'[p] = "live"
        BY <1>0, <3>3 DEF BeginAppend, Goto
      <4> QED BY <1>1, <2>0, <2>2, <3>1, <4>1, <4>2 DEF Synced, RetryPoints
    <3>4. CASE Follows(seen[p].seq, seen[p].hash) /\ pc'[p] = "adopt" /\ dirty' = dirty
               /\ seen'[p].line = Last(log).hash
               /\ seen'[p].seq = seen[p].seq /\ seen'[p].hash = seen[p].hash
      <4>1. Len(log) = row.lastHash + 1
        BY <1>1, <2>2, <3>1, <3>2, <3>4 DEF Follows, RetryPoints
      <4>2. seen'[p].line = Len(log)
        BY <1>12, <2>3, <3>4
      <4>3. Last(log).turn = Newest(p)
        BY <1>1, <2>2, <4>1
      <4> QED BY <2>0, <2>2, <3>1, <3>4, <4>1, <4>2, <4>3 DEF Synced, Newest, RetryPoints
    <3> QED BY <3>1, <3>3, <3>4
  <2>8. CASE RetryAdopt(p)
    <3>1. /\ pc[p] = "adopt" /\ pc'[p] = "live" /\ lastHash'[p] = seen[p].line
          /\ row' = [row EXCEPT !.lastSeq = seen[p].seq + 1, !.lastHash = seen[p].line,
                                !.expired = FALSE]
      BY <1>0, <2>1, <2>8 DEF RetryAdopt, Goto
    <3>2. seen[p].seq + 1 = row.lastHash /\ seen[p].line = row.lastHash + 1 /\ seen[p].line = Len(log)
      BY <1>1, <2>2, <3>1 DEF RetryPoints
    <3>3. RowIs(row', row.status, seen[p].seq + 1, seen[p].line, row.owner, FALSE)
      <4>1. seen[p].seq + 1 \in Nat /\ seen[p].line \in Nat
        BY <1>1, <3>2
      <4> QED BY <3>1, <4>1, RowNumbers DEF TypeInv, RowOK
    <3> QED BY <1>1, <2>0, <3>1, <3>2, <3>3 DEF Synced, RowIs, RetryPoints
  <2>9. CASE RetryFails(p)
    <3>1. pc'[p] = "live" /\ dirty' = dirty /\ UNCHANGED <<row, lastHash>>
      BY <1>0, <2>9 DEF RetryFails, Goto, handleVars
    <3> QED BY <2>0, <2>2, <3>1 DEF Synced, Newest, RetryPoints
  <2> QED BY <1>11, <2>4, <2>5, <2>6, <2>7, <2>8, <2>9 DEF Retrying
<1> QED BY <1>2, <1>3, <1>4, <1>5, <1>6, <1>7, <1>8, <1>9, <1>10, <1>11 DEF Process, Retrying

LEMMA SyncStep == ASSUME TypeInv, NumbersOK, SyncOK, [Next]_vars PROVE SyncOK'
<1>1. CASE LeaseExpires \/ UNCHANGED vars
  <2>1. /\ UNCHANGED <<log, mishaps, pc, token, lastHash, memory, dirty, closing, next, wrote, seen>>
        /\ row' = row \/ row' = [row EXCEPT !.expired = TRUE]
    BY <1>1 DEF LeaseExpires, vars, fileVars, historyVars, handleVars, appendVars
  <2>2. RowIs([row EXCEPT !.expired = TRUE], row.status, row.lastSeq, row.lastHash, row.owner, TRUE)
    BY RowEdits DEF TypeInv, RowOK
  <2>3. row'.owner = row.owner /\ row'.lastSeq = row.lastSeq /\ row'.lastHash = row.lastHash
    BY <2>1, <2>2 DEF RowIs
  <2> QED BY <2>1, <2>3 DEF SyncOK, Synced, Holds, Newest
<1>2. ASSUME NEW p \in Procs, Process(p) PROVE SyncOK'
  <2> SUFFICES ASSUME mishaps' = {}, NEW q \in Procs, Holds(q)' PROVE Synced(q)'
    BY DEF SyncOK
  <2>1. mishaps = {} /\ (AppendLine(p) => Holds(p) /\ tail # "torn")
    BY <1>2, MishapsGrow
  <2>2. \A r \in Procs : Holds(r) => Synced(r)
    BY <2>1 DEF SyncOK
  <2>3. CASE q = p
    BY <1>2, <2>1, <2>2, <2>3, OwnSync
  <2>4. CASE q # p
    <3>1. Holds(q) /\ row' = row
      BY <1>2, <2>4, LeaseIsTaken
    <3>2. log' = log
      <4>1. ~AppendLine(p)
        BY <2>1, <2>4, <3>1 DEF Holds, TypeInv, TokensOK
      <4>2. log # << >>
        BY <3>1, LeaseHasLog
      <4> QED BY <1>2, <4>1, <4>2, LogGrows
    <3>3. /\ pc'[q] = pc[q] /\ lastHash'[q] = lastHash[q] /\ memory'[q] = memory[q]
          /\ dirty'[q] = dirty[q] /\ closing'[q] = closing[q] /\ next'[q] = next[q]
          /\ wrote'[q] = wrote[q] /\ seen'[q] = seen[q]
      BY <1>2, <2>4, OthersKeep
    <3> QED BY <2>2, <3>1, <3>2, <3>3 DEF Synced, Newest
  <2> QED BY <2>3, <2>4
<1> QED BY <1>1, <1>2 DEF Next

LEMMA NumbersStep == ASSUME TypeInv, NumbersOK, [Next]_vars PROVE NumbersOK'
<1>1. CASE LeaseExpires \/ UNCHANGED vars
  BY <1>1 DEF LeaseExpires, vars, fileVars, historyVars, NumbersOK
<1>2. ASSUME NEW p \in Procs, Process(p) PROVE NumbersOK'
  <2> SUFFICES ASSUME mishaps' = {}
               PROVE  written' = Len(log') /\ \A k \in 1 .. Len(log') : log'[k].hash = k
    BY DEF NumbersOK
  <2>1. /\ mishaps = {} /\ written = Len(log) /\ \A k \in 1 .. Len(log) : log[k].hash = k
        /\ Len(log) \in Nat
    BY <1>2, MishapsGrow, LogType DEF NumbersOK, TypeInv
  <2>2. CASE AppendLine(p)
    <3>1. /\ Len(log') = Len(log) + 1 /\ \A k \in 1 .. Len(log) : log'[k] = log[k]
          /\ log'[Len(log) + 1].hash = written + 1
      BY <2>2, AppendedFacts, AppendIs
    <3>2. \A k \in 1 .. Len(log') : k \in 1 .. Len(log) \/ k = Len(log) + 1
      BY <2>1, <3>1
    <3>3. \A k \in 1 .. Len(log') : log'[k].hash = k
      BY <2>1, <3>1, <3>2
    <3> QED BY <2>1, <2>2, <3>1, <3>3 DEF AppendLine
  <2>3. CASE CreateLog(p)
    <3>1. log' = <<Header>> /\ written' = 1
      BY <2>3 DEF CreateLog
    <3> QED BY <3>1, ConstantLines
  <2>4. CASE log' = log /\ ~AppendLine(p) /\ ~CreateLog(p)
    <3>1. written' = written
      <4>1. CASE Retrying(p)
        BY <4>1, RetryIs
      <4>2. CASE ~Retrying(p)
        BY <1>2, <2>4, <4>2 DEF Process, Retrying, Boot, RepairRead, RepairWrite, CreateRow, Resume,
           Replay, SoftDelete, Commit, Close, CloseDirty, AppendFails, UpdateIndex, UpdateFails,
           CloseRow, Interrupt, Crash, fileVars
      <4> QED BY <4>1, <4>2
    <3> QED BY <2>1, <2>4, <3>1
  <2> QED BY <1>2, <2>2, <2>3, <2>4, LogGrows
<1> QED BY <1>1, <1>2 DEF Next

LEMMA ChainStep ==
  ASSUME TypeInv, NumbersOK, SyncOK, ChainBreaksOnlyByMishap, [Next]_vars
  PROVE  ChainBreaksOnlyByMishap'
<1>1. CASE LeaseExpires \/ UNCHANGED vars
  BY <1>1 DEF LeaseExpires, vars, fileVars, historyVars, ChainBreaksOnlyByMishap
<1>2. ASSUME NEW p \in Procs, Process(p) PROVE ChainBreaksOnlyByMishap'
  <2> SUFFICES ASSUME mishaps' = {}, log' # << >> PROVE Readable(log')
    BY DEF ChainBreaksOnlyByMishap
  <2>1. mishaps = {} /\ (AppendLine(p) => Holds(p) /\ tail # "torn")
    BY <1>2, MishapsGrow
  <2>2. log # << >> => Readable(log)
    BY <2>1 DEF ChainBreaksOnlyByMishap
  <2>3. CASE log' = log
    BY <2>2, <2>3
  <2>4. CASE CreateLog(p)
    <3>1. log' = <<Header>> /\ DOMAIN log' = 1 .. 1 /\ log'[1] = Header
      BY <2>4 DEF CreateLog
    <3> QED BY <3>1, ConstantLines DEF Readable
  <2>5. CASE AppendLine(p)
    <3>1. pc[p] = "append" /\ Holds(p) /\ tail # "torn"
      BY <2>1, <2>5 DEF AppendLine
    <3>2. /\ log' \in Seq(LineType) /\ Len(log') = Len(log) + 1
          /\ \A k \in 1 .. Len(log) : log'[k] = log[k]
          /\ log'[Len(log) + 1] = Written(p)
      BY <2>5, <3>1, AppendedFacts DEF NewLineOf
    <3>3. /\ Written(p).kind # "garbage" /\ Written(p).seq = next[p] /\ Written(p).prev = lastHash[p]
      BY <3>1, WrittenType
    <3>4. next[p] = Len(log) /\ lastHash[p] = Len(log)
      BY <2>1, <3>1 DEF SyncOK, Synced
    <3>5. log # << >> /\ Len(log) \in Nat /\ DOMAIN log = 1 .. Len(log) /\ DOMAIN log' = 1 .. Len(log')
      BY <3>1, <3>2, LeaseHasLog, LogType DEF TypeInv
    <3>7. Len(log) # 0 /\ log[Len(log)].hash = Len(log)
      BY <2>1, <3>5, LogType DEF NumbersOK, TypeInv
    <3>6. ASSUME NEW k \in DOMAIN log'
          PROVE  /\ log'[k].kind # "garbage" /\ log'[k].seq = k - 1
                 /\ log'[k].prev = IF k = 1 THEN 0 ELSE log'[k - 1].hash
      <4>1. k \in 1 .. Len(log) \/ k = Len(log) + 1
        BY <3>2, <3>5
      <4>2. CASE k \in 1 .. Len(log)
        <5>1. k = 1 \/ k - 1 \in 1 .. Len(log)
          BY <3>5, <4>2
        <5>2. log'[k] = log[k] /\ (k # 1 => log'[k - 1] = log[k - 1])
          BY <3>2, <4>2, <5>1
        <5> QED BY <2>2, <3>5, <4>2, <5>2 DEF Readable
      <4>3. CASE k = Len(log) + 1
        <5>1. k - 1 = Len(log) /\ k # 1 /\ Len(log) \in 1 .. Len(log)
          BY <3>5, <3>7, <4>3
        <5>2. log'[k - 1] = log[Len(log)]
          BY <3>2, <5>1
        <5> QED BY <3>2, <3>3, <3>4, <3>7, <4>3, <5>1, <5>2
      <4> QED BY <4>1, <4>2, <4>3
    <3>8. log' # << >>
      OBVIOUS
    <3> QED BY <3>6, <3>8 DEF Readable
  <2> QED BY <1>2, <2>3, <2>4, <2>5, LogGrows
<1> QED BY <1>1, <1>2 DEF Next

---------------------------------------------------------------------------
(* A turn is in the log once.                                              *)

LEMMA TurnsInHandDiffer ==
  ASSUME TypeInv, OnceOK, NEW r \in Procs, Process(r)
  PROVE  \A p, q \in Procs : Saving(p)' /\ Saving(q)' /\ Newest(p)' = Newest(q)' => p = q
<1> SUFFICES ASSUME NEW p \in Procs, NEW q \in Procs, Saving(p)', Saving(q)',
                    Newest(p)' = Newest(q)', p # q
             PROVE  FALSE
  OBVIOUS
<1>1. \A s \in Procs : Saving(s) => Newest(s) \in Nat /\ Newest(s) <= turns
  BY NewestType DEF TypeInv, PlacesOK
<1>2. \A s \in Procs \ {r} : Saving(s)' => Saving(s) /\ Newest(s)' = Newest(s)
  BY OthersKeep DEF Saving, Newest
<1>3. Saving(r)' => Newest(r)' = turns + 1 \/ (Saving(r) /\ Newest(r)' = Newest(r))
  BY SavingComes
<1>4. turns \in Nat
  BY DEF TypeInv, CountsOK
<1>5. \A s, t \in Procs : Saving(s) /\ Saving(t) /\ Newest(s) = Newest(t) => s = t
  BY DEF OnceOK
<1>6. \A s \in Procs : Saving(s) => Newest(s) # turns + 1
  BY <1>1, <1>4
<1> QED BY <1>2, <1>3, <1>5, <1>6

(* The line an append writes carries no turn that somebody else still has to save. *)
LEMMA NewLine ==
  ASSUME TypeInv, NEW p \in Procs, AppendLine(p)
  PROVE  LET last == log'[Len(log) + 1]
         IN  /\ last.turn = 0 \/ (last.turn = Newest(p) /\ ~closing[p] /\ last.seq = next[p])
             /\ \A k \in 1 .. Len(log') : k \in 1 .. Len(log) \/ k = Len(log) + 1
<1>1. Len(log) \in Nat /\ Len(log') = Len(log) + 1 /\ pc[p] = "append"
  BY AppendedFacts, LogType DEF TypeInv, AppendLine
<1>2. log'[Len(log) + 1] = NewLineOf(p)
  BY AppendedFacts
<1> QED BY <1>1, <1>2, WrittenType, GarbageType DEF NewLineOf

LEMMA LinesStep ==
  ASSUME TypeInv, OnceOK, NEW p \in Procs, Process(p)
  PROVE  \A j, k \in 1 .. Len(log') : log'[j].turn = log'[k].turn /\ log'[k].turn # 0 => j = k
<1>1. \A j, k \in 1 .. Len(log) : log[j].turn = log[k].turn /\ log[k].turn # 0 => j = k
  BY DEF OnceOK
<1>2. CASE log' = log
  BY <1>1, <1>2
<1>3. CASE CreateLog(p)
  <2>1. log' = <<Header>> /\ Len(log') = 1
    BY <1>3 DEF CreateLog
  <2> QED BY <2>1
<1>4. CASE AppendLine(p)
  <2> DEFINE last == log'[Len(log) + 1]
  <2>1. /\ last.turn = 0 \/ (last.turn = Newest(p) /\ ~closing[p])
        /\ \A k \in 1 .. Len(log') : k \in 1 .. Len(log) \/ k = Len(log) + 1
    BY <1>4, NewLine
  <2>2. \A k \in 1 .. Len(log) : log'[k] = log[k]
    BY <1>4, AppendedFacts
  <2>3. ~closing[p] => Unwritten(Newest(p))
    BY <1>4 DEF AppendLine, OnceOK, Once
  <2>4. \A k \in 1 .. Len(log) : last.turn # 0 => log'[k].turn # last.turn
    BY <2>1, <2>2, <2>3 DEF Unwritten
  <2> HIDE DEF last
  <2> QED BY <1>1, <2>1, <2>2, <2>4 DEF last
<1>5. CASE RetryCut(p)
  <2>1. /\ Len(log') \in 1 .. Len(log) /\ \A k \in 1 .. Len(log') : log'[k] = log[k]
        /\ Len(log) \in Nat
    BY <1>5, CutFacts, LogType DEF TypeInv
  <2>2. \A k \in 1 .. Len(log') : k \in 1 .. Len(log)
    BY <2>1
  <2> QED BY <1>1, <2>1, <2>2
<1> QED BY <1>2, <1>3, <1>4, <1>5, LogChanges

(* What a step of p does to the lines of a turn that q has in hand. *)
LEMMA OthersLines ==
  ASSUME TypeInv, OnceOK, NEW p \in Procs, Process(p), NEW q \in Procs, q # p, Saving(q)
  PROVE  \A k \in 1 .. Len(log') : log'[k].turn = Newest(q) =>
             k \in 1 .. Len(log) /\ log'[k] = log[k]
<1>1. Newest(q) # 0
  BY DEF TypeInv, PlacesOK
<1>2. CASE log' = log
  BY <1>2
<1>3. CASE CreateLog(p)
  <2>1. log' = <<Header>> /\ Len(log') = 1 /\ log'[1] = Header
    BY <1>3 DEF CreateLog
  <2>2. \A k \in 1 .. Len(log') : log'[k].turn = 0
    BY <2>1, ConstantLines
  <2> QED BY <1>1, <2>2
<1>4. CASE AppendLine(p)
  <2>1. ~closing[p] => Saving(p)
    BY <1>4 DEF AppendLine, Saving
  <2>2. Saving(p) => Newest(p) # Newest(q)
    BY DEF OnceOK
  <2>3. \A k \in 1 .. Len(log) : log'[k] = log[k]
    BY <1>4, AppendedFacts
  <2> QED BY <1>1, <1>4, <2>1, <2>2, <2>3, NewLine
<1>5. CASE RetryCut(p)
  <2>1. /\ Len(log') \in 1 .. Len(log) /\ \A k \in 1 .. Len(log') : log'[k] = log[k]
        /\ Len(log) \in Nat
    BY <1>5, CutFacts, LogType DEF TypeInv
  <2>2. \A k \in 1 .. Len(log') : k \in 1 .. Len(log)
    BY <2>1
  <2> QED BY <2>1, <2>2
<1> QED BY <1>2, <1>3, <1>4, <1>5, LogChanges

LEMMA OthersOnce ==
  ASSUME TypeInv, OnceOK, NEW p \in Procs, Process(p), NEW q \in Procs, q # p
  PROVE  Once(q)'
<1>1. /\ pc'[q] = pc[q] /\ closing'[q] = closing[q] /\ dirty'[q] = dirty[q]
      /\ next'[q] = next[q] /\ Newest(q)' = Newest(q) /\ seen'[q] = seen[q]
  BY OthersKeep DEF Newest
<1>2. Holds(q)' => Holds(q) /\ row' = row
  BY LeaseIsTaken
<1>3. Once(q)
  BY DEF OnceOK
<1>4. Saving(q) => /\ \A seq : LinesOf(Newest(q), seq) => LinesOf(Newest(q), seq)'
                   /\ Unwritten(Newest(q)) => Unwritten(Newest(q))'
  <2>1. SUFFICES ASSUME Saving(q)
                 PROVE  /\ \A seq : LinesOf(Newest(q), seq) => LinesOf(Newest(q), seq)'
                        /\ Unwritten(Newest(q)) => Unwritten(Newest(q))'
    OBVIOUS
  <2>2. \A k \in 1 .. Len(log') : log'[k].turn = Newest(q) => k \in 1 .. Len(log) /\ log'[k] = log[k]
    BY <2>1, OthersLines
  <2> QED BY <1>1, <2>2 DEF LinesOf, Unwritten
<1>5. (dirty[q] \/ pc[q] \in RetryPoints \/ (pc[q] \in {"append", "index"} /\ ~closing[q])) => Saving(q)
  BY DEF Saving, TypeInv, PlacesOK
<1> QED BY <1>1, <1>2, <1>3, <1>4, <1>5 DEF Once

LEMMA OwnOnce ==
  ASSUME TypeInv, OnceOK, NEW p \in Procs, Process(p)
  PROVE  Once(p)'
<1>0. /\ memory \in [Procs -> Seq(Nat)] /\ pc \in [Procs -> Points]
      /\ dirty \in [Procs -> BOOLEAN] /\ closing \in [Procs -> BOOLEAN]
      /\ next \in [Procs -> Nat] /\ turns \in Nat
  BY DEF TypeInv, MemoryOK, HandlesOK, FlagsOK, CountsOK
<1>1. /\ row.lastSeq \in Nat /\ next[p] \in Nat /\ Len(log) \in Nat
      /\ closing[p] => pc[p] \in {"append", "index", "release"}
      /\ pc[p] = "release" => closing[p]
      /\ dirty[p] => pc[p] = "live" \/ pc[p] \in RetryPoints
      /\ pc'[p] \in RetryPoints => dirty'[p]
  BY <1>0, RowFields, LogType, PlacesStep DEF TypeInv, PlacesOK, Next
<1>2. Once(p)
  BY DEF OnceOK
<1>3. CASE pc'[p] \notin {"append", "index"} /\ ~dirty'[p]
  BY <1>1, <1>3 DEF Once
<1>4. CASE Boot(p) \/ RepairRead(p) \/ RepairWrite(p) \/ CreateLog(p) \/ Resume(p)
  <2>1. pc'[p] \notin {"append", "index"} /\ ~dirty'[p]
    BY <1>0, <1>1, <1>4 DEF Boot, RepairRead, RepairWrite, CreateLog, Resume, Goto, handleVars, RetryPoints
  <2> QED BY <1>3, <2>1
<1>5. CASE CreateRow(p) \/ Replay(p) \/ SoftDelete(p) \/ CloseDirty(p) \/ CloseRow(p) \/ Crash(p)
  <2>1. pc'[p] \notin {"append", "index"} /\ ~dirty'[p]
    BY <1>0, <1>1, <1>5 DEF CreateRow, Replay, SoftDelete, CloseDirty, CloseRow, Crash, Exit, Goto,
                            RetryPoints
  <2> QED BY <1>3, <2>1
<1>6. CASE Commit(p)
  <2>1. /\ UNCHANGED <<log, row, token, closing>>
        /\ \/ pc'[p] = "append" /\ next'[p] = row.lastSeq + 1 /\ ~dirty'[p]
           \/ pc'[p] = "live" /\ dirty'[p]
    BY <1>0, <1>6 DEF Commit, BeginAppend, Goto, fileVars
  <2>2. Newest(p)' = turns + 1
    <3>1. memory'[p] = Append(memory[p], turns + 1) /\ memory[p] \in Seq(Nat) /\ turns + 1 \in Nat
      BY <1>0, <1>6 DEF Commit
    <3> QED BY <3>1, AppendProperties DEF Last, Newest
  <2>3. \A k \in 1 .. Len(log) : log[k].turn # turns + 1
    <3> SUFFICES ASSUME NEW k \in 1 .. Len(log) PROVE log[k].turn # turns + 1
      OBVIOUS
    <3>1. log[k].turn \in Nat /\ log[k].turn <= turns
      BY LogType, LineFields DEF TypeInv, LogOK
    <3> QED BY <1>0, <3>1
  <2> QED BY <2>1, <2>2, <2>3 DEF Once, Unwritten, LinesOf, RetryPoints
<1>7. CASE Close(p) \/ Interrupt(p)
  <2>1. CASE Exit(p)
    <3>1. pc'[p] = "off" /\ ~dirty'[p]
      BY <1>0, <2>1 DEF Exit, Goto
    <3> QED BY <1>3, <3>1
  <2>2. CASE ~Exit(p)
    <3>1. /\ UNCHANGED <<row, token>> /\ ~dirty'[p] /\ closing'[p]
          /\ pc'[p] = "append" /\ next'[p] = row.lastSeq + 1
      BY <1>0, <1>7, <2>2, CloseIs
    <3> QED BY <3>1 DEF Once, RetryPoints
  <2> QED BY <2>1, <2>2
<1>8. CASE AppendLine(p)
  <2>1. /\ pc[p] = "append" /\ pc'[p] = "index" /\ ~dirty'[p]
        /\ UNCHANGED <<row, token, next, closing, memory>>
    BY <1>0, <1>1, <1>8 DEF AppendLine, Goto, handleVars, RetryPoints
  <2>2. Holds(p)' => Holds(p)
    BY <2>1 DEF Holds
  <2>3. ~closing[p] => Newest(p) # 0
    BY <2>1 DEF TypeInv, PlacesOK, Saving
  <2>4. \A k \in 1 .. Len(log) : log'[k] = log[k]
    BY <1>8, AppendedFacts
  <2>5. ~closing[p] => \A k \in 1 .. Len(log') : log'[k].turn = Newest(p) => log'[k].seq = next[p]
    <3> SUFFICES ASSUME ~closing[p], NEW k \in 1 .. Len(log'), log'[k].turn = Newest(p)
                 PROVE  log'[k].seq = next[p]
      OBVIOUS
    <3>1. k \notin 1 .. Len(log)
      BY <1>2, <2>1, <2>4 DEF Once, Unwritten
    <3> QED BY <1>8, <2>3, <3>1, NewLine
  <2> QED BY <1>2, <2>1, <2>2, <2>5 DEF Once, LinesOf, Newest, RetryPoints
<1>9. CASE AppendFails(p) \/ UpdateFails(p)
  <2>1. \/ pc'[p] = "off" /\ ~dirty'[p]
        \/ /\ pc[p] \in {"append", "index"} /\ pc'[p] = "live" /\ ~closing[p]
           /\ UNCHANGED <<log, row, token, memory>>
    BY <1>0, <1>1, <1>9 DEF AppendFails, UpdateFails, Fails, Exit, Goto, fileVars
  <2>2. CASE pc'[p] = "off" /\ ~dirty'[p]
    BY <1>3, <2>2
  <2>3. CASE /\ pc[p] \in {"append", "index"} /\ pc'[p] = "live" /\ ~closing[p]
             /\ UNCHANGED <<log, row, token, memory>>
    <3>1. Holds(p)' => Holds(p)
      BY <2>3 DEF Holds
    <3> QED BY <1>2, <2>3, <3>1 DEF Once, Unwritten, LinesOf, Newest, RetryPoints
  <2> QED BY <2>1, <2>2, <2>3
<1>10. CASE UpdateIndex(p)
  <2>1. pc'[p] \notin {"append", "index"} /\ ~dirty'[p]
    BY <1>0, <1>1, <1>10 DEF UpdateIndex, Goto, RetryPoints
  <2> QED BY <1>3, <2>1
<1>11. CASE Retrying(p)
  <2>1. /\ dirty[p] /\ ~closing[p] /\ UNCHANGED <<token, memory, closing>>
        /\ log' = log \/ RetryCut(p)
        /\ RetryAdopt(p) \/ row' = row
        /\ seen \in [Procs -> SeenType]
    BY <1>11, RetryIs DEF TypeInv, HandlesOK
  <2>2. \A seq : LinesOf(Newest(p), seq) => LinesOf(Newest(p), seq)'
    <3>1. CASE log' = log
      BY <2>1, <3>1 DEF LinesOf, Newest
    <3>2. CASE RetryCut(p)
      <4>1. /\ Len(log') \in 1 .. Len(log) /\ \A k \in 1 .. Len(log') : log'[k] = log[k]
        BY <3>2, CutFacts
      <4>2. \A k \in 1 .. Len(log') : k \in 1 .. Len(log)
        BY <1>1, <4>1
      <4> QED BY <2>1, <4>1, <4>2 DEF LinesOf, Newest
    <3> QED BY <2>1, <3>1, <3>2
  <2>3. /\ Holds(p) => LinesOf(Newest(p), row.lastSeq + 1)
        /\ pc[p] \in RetryPoints => LinesOf(Newest(p), seen[p].seq + 1)
    BY <1>2, <2>1 DEF Once
  <2>4. ASSUME row' = row, pc'[p] \notin {"append", "index"},
               pc'[p] \in RetryPoints => LinesOf(Newest(p), seen'[p].seq + 1)
        PROVE  Once(p)'
    <3>1. Holds(p)' => Holds(p)
      BY <2>1, <2>4 DEF Holds
    <3> QED BY <2>1, <2>2, <2>3, <2>4, <3>1 DEF Once, LinesOf, Newest
  <2>5. CASE RetryCheck(p)
    <3>1. Holds(p) /\ row' = row /\ pc'[p] = "look" /\ seen'[p].seq = row.lastSeq
      BY <1>0, <2>1, <2>5 DEF RetryCheck, Goto
    <3> QED BY <2>3, <2>4, <3>1
  <2>6. CASE RetryLook(p) \/ RetryCut(p)
    <3>1. /\ row' = row /\ pc[p] \in RetryPoints /\ pc'[p] \notin {"append", "index"}
          /\ seen'[p].seq = seen[p].seq
      BY <1>0, <2>1, <2>6 DEF RetryLook, RetryCut, Goto, RetryPoints, SeenType
    <3> QED BY <2>3, <2>4, <3>1
  <2>7. CASE RetryRead(p)
    <3>1. /\ pc[p] \in RetryPoints /\ Readable(log) /\ row' = row /\ log' = log
          /\ \/ Last(log).seq = seen[p].seq /\ BeginAppend(p)
             \/ pc'[p] = "adopt" /\ seen'[p].seq = seen[p].seq
      BY <1>0, <2>1, <2>7 DEF RetryRead, Goto, RetryPoints, SeenType, fileVars
    <3>2. CASE Last(log).seq = seen[p].seq /\ BeginAppend(p)
      <4>1. /\ log # << >> /\ Len(log) \in 1 .. Len(log) /\ Last(log) = log[Len(log)]
            /\ DOMAIN log = 1 .. Len(log)
        BY <3>1, LogType DEF Readable, TypeInv
      <4>2. seen[p].seq = Len(log) - 1 /\ \A k \in 1 .. Len(log) : log[k].seq = k - 1
        BY <3>1, <3>2, <4>1 DEF Readable
      <4>3. \A k \in 1 .. Len(log) : k - 1 # seen[p].seq + 1
        BY <1>1, <4>2
      <4>4. Unwritten(Newest(p))
        BY <2>3, <3>1, <4>2, <4>3 DEF LinesOf, Unwritten
      <4>5. \/ pc'[p] = "append" /\ next'[p] = row.lastSeq + 1 /\ ~dirty'[p]
            \/ pc'[p] = "live"
        BY <1>0, <3>2 DEF BeginAppend, Goto
      <4>6. CASE pc'[p] = "append" /\ next'[p] = row.lastSeq + 1 /\ ~dirty'[p]
        BY <2>1, <3>1, <4>4, <4>6 DEF Once, Unwritten, Newest, RetryPoints
      <4>7. CASE pc'[p] = "live"
        BY <2>4, <3>1, <4>7 DEF RetryPoints
      <4> QED BY <4>5, <4>6, <4>7
    <3>3. CASE pc'[p] = "adopt" /\ seen'[p].seq = seen[p].seq
      BY <2>3, <2>4, <3>1, <3>3
    <3> QED BY <3>1, <3>2, <3>3
  <2>8. CASE RetryAdopt(p)
    <3>1. pc'[p] = "live" /\ ~dirty'[p]
      BY <1>0, <2>8 DEF RetryAdopt, Goto
    <3> QED BY <1>3, <3>1
  <2>9. CASE RetryFails(p)
    <3>1. row' = row /\ pc'[p] = "live"
      BY <1>0, <2>9 DEF RetryFails, Goto
    <3> QED BY <2>4, <3>1 DEF RetryPoints
  <2> QED BY <1>11, <2>5, <2>6, <2>7, <2>8, <2>9 DEF Retrying
<1> QED BY <1>4, <1>5, <1>6, <1>7, <1>8, <1>9, <1>10, <1>11 DEF Process, Retrying

LEMMA OnceStep == ASSUME TypeInv, OnceOK, [Next]_vars PROVE OnceOK'
<1>1. CASE LeaseExpires \/ UNCHANGED vars
  <2>1. /\ UNCHANGED <<log, pc, token, memory, dirty, closing, next, seen>>
        /\ row' = row \/ row' = [row EXCEPT !.expired = TRUE]
    BY <1>1 DEF LeaseExpires, vars, fileVars, handleVars, appendVars
  <2>2. RowIs([row EXCEPT !.expired = TRUE], row.status, row.lastSeq, row.lastHash, row.owner, TRUE)
    BY RowEdits DEF TypeInv, RowOK
  <2>3. row'.owner = row.owner /\ row'.lastSeq = row.lastSeq
    BY <2>1, <2>2 DEF RowIs
  <2>4. \A p \in Procs : Once(p)'
    BY <2>1, <2>3 DEF OnceOK, Once, Holds, Newest, LinesOf, Unwritten
  <2>5. \A p, q \in Procs : Saving(p)' /\ Saving(q)' /\ Newest(p)' = Newest(q)' => p = q
    BY <2>1 DEF OnceOK, Saving, Newest
  <2>6. \A j, k \in 1 .. Len(log') : log'[j].turn = log'[k].turn /\ log'[k].turn # 0 => j = k
    BY <2>1 DEF OnceOK
  <2> QED BY <2>4, <2>5, <2>6 DEF OnceOK
<1>2. ASSUME NEW p \in Procs, Process(p) PROVE OnceOK'
  <2>1. \A q \in Procs : Once(q)'
    BY <1>2, OwnOnce, OthersOnce
  <2>2. \A q, r \in Procs : Saving(q)' /\ Saving(r)' /\ Newest(q)' = Newest(r)' => q = r
    BY <1>2, TurnsInHandDiffer
  <2>3. \A j, k \in 1 .. Len(log') : log'[j].turn = log'[k].turn /\ log'[k].turn # 0 => j = k
    BY <1>2, LinesStep
  <2> QED BY <2>1, <2>2, <2>3 DEF OnceOK
<1> QED BY <1>1, <1>2 DEF Next

LEMMA SavedStep == ASSUME TypeInv, SyncOK, SavedOK, [Next]_vars PROVE SavedOK'
<1>1. CASE LeaseExpires \/ UNCHANGED vars
  <2>1. UNCHANGED <<log, acked, misled, mishaps, pc, closing, memory>>
    BY <1>1 DEF LeaseExpires, vars, fileVars, historyVars, handleVars, appendVars
  <2> QED BY <2>1 DEF SavedOK, Newest
<1>2. ASSUME NEW p \in Procs, Process(p) PROVE SavedOK'
  <2> DEFINE Kept(turn) == \E k \in 1 .. Len(log) : log[k].turn = turn
  <2> DEFINE KeptNext(turn) == \E k \in 1 .. Len(log') : log'[k].turn = turn
  <2> SUFFICES ASSUME mishaps' = {}
               PROVE  /\ \A t \in acked' \ misled' : KeptNext(t)
                      /\ \A q \in Procs : pc'[q] = "index" /\ ~closing'[q] => KeptNext(Newest(q)')
    BY DEF SavedOK
  <2>1. mishaps = {} /\ (AppendLine(p) => Holds(p) /\ tail # "torn")
    BY <1>2, MishapsGrow
  <2>2. /\ \A t \in acked \ misled : Kept(t)
        /\ \A q \in Procs : pc[q] = "index" /\ ~closing[q] => Kept(Newest(q))
    BY <2>1 DEF SavedOK
  <2>3. \A t : Kept(t) => KeptNext(t)
    BY <1>2, LogGrows
  <2>4. \A t \in acked' \ misled' : Kept(t)
    <3>1. CASE UpdateIndex(p)
      BY <2>2, <3>1 DEF UpdateIndex, Newest
    <3>2. CASE RetryAdopt(p)
      <4>1. /\ pc[p] = "adopt" /\ acked' = acked \union {Newest(p)}
            /\ misled' = misled \union (IF Holds(p) THEN {} ELSE {Newest(p)})
        BY <3>2 DEF RetryAdopt, Newest
      <4>2. CASE ~Holds(p)
        BY <2>2, <4>1, <4>2
      <4>3. CASE Holds(p)
        <5>1. log # << >> /\ Len(log) \in 1 .. Len(log) /\ Last(log) = log[Len(log)]
              /\ Len(log) \in Nat /\ row.lastHash \in Nat
          BY <4>3, LeaseHasLog, LogType, RowFields DEF TypeInv
        <5>2. /\ Len(log) = row.lastHash + 1
              /\ Len(log) = row.lastHash \/ Last(log).turn = Newest(p)
          BY <2>1, <4>1, <4>3 DEF SyncOK, Synced, RetryPoints
        <5>3. Last(log).turn = Newest(p)
          BY <5>1, <5>2
        <5>4. Kept(Newest(p))
          BY <5>1, <5>3
        <5> HIDE DEF Kept
        <5> QED BY <2>2, <4>1, <4>3, <5>4
      <4> QED BY <4>2, <4>3
    <3>3. CASE ~UpdateIndex(p) /\ ~RetryAdopt(p)
      <4>1. acked' = acked /\ misled' = misled
        <5>1. CASE Retrying(p)
          BY <3>3, <5>1, RetryIs
        <5>2. CASE Close(p) \/ Interrupt(p)
          BY <5>2, CloseIs
        <5>3. CASE ~Retrying(p) /\ ~Close(p) /\ ~Interrupt(p)
          BY <1>2, <3>3, <5>3 DEF Process, Retrying, Boot, RepairRead, RepairWrite, CreateLog, CreateRow,
             Resume, Replay, SoftDelete, Commit, CloseDirty, AppendLine, AppendFails, UpdateFails,
             CloseRow, Crash, historyVars
        <5> QED BY <5>1, <5>2, <5>3
      <4> QED BY <2>2, <4>1
    <3> QED BY <3>1, <3>2, <3>3
  <2>5. ASSUME NEW q \in Procs, pc'[q] = "index", ~closing'[q]
        PROVE  KeptNext(Newest(q)')
    <3>1. CASE q # p
      <4>1. pc'[q] = pc[q] /\ closing'[q] = closing[q] /\ Newest(q)' = Newest(q)
        BY <1>2, <3>1, OthersKeep DEF Newest
      <4>2. Kept(Newest(q))
        BY <2>2, <2>5, <4>1
      <4> QED BY <2>3, <4>1, <4>2
    <3>2. CASE q = p
      <4>1. AppendLine(p)
        <5>0. pc \in [Procs -> Points]
          BY DEF TypeInv, HandlesOK
        <5>1. ~Boot(p) /\ ~RepairRead(p) /\ ~RepairWrite(p) /\ ~CreateLog(p) /\ ~Resume(p)
          BY <2>5, <3>2, <5>0 DEF Boot, RepairRead, RepairWrite, CreateLog, Resume, Goto
        <5>2. ~CreateRow(p) /\ ~Replay(p) /\ ~SoftDelete(p)
          BY <2>5, <3>2, <5>0 DEF CreateRow, Replay, SoftDelete, Exit, Goto
        <5>3. ~CloseDirty(p) /\ ~CloseRow(p) /\ ~Crash(p)
          BY <2>5, <3>2, <5>0 DEF CloseDirty, CloseRow, Crash, Exit, Goto
        <5>4. ~Commit(p)
          BY <2>5, <3>2, <5>0 DEF Commit, BeginAppend, Goto
        <5>6. ~Close(p) /\ ~Interrupt(p)
          <6> SUFFICES ASSUME Close(p) \/ Interrupt(p) PROVE FALSE
            OBVIOUS
          <6> QED BY <2>5, <3>2, <5>0, CloseIs DEF Exit, Goto
        <5>7. ~Retrying(p)
          <6> SUFFICES ASSUME Retrying(p) PROVE FALSE
            OBVIOUS
          <6>1. \E point \in {"live", "append"} \union RetryPoints : pc' = [pc EXCEPT ![p] = point]
            BY RetryIs
          <6> QED BY <2>5, <3>2, <5>0, <6>1 DEF RetryPoints
        <5>5. ~UpdateIndex(p) /\ ~AppendFails(p) /\ ~UpdateFails(p)
          BY <2>5, <3>2, <5>0 DEF UpdateIndex, AppendFails, UpdateFails, Fails, Exit, Goto
        <5> QED BY <1>2, <5>1, <5>2, <5>3, <5>4, <5>5, <5>6, <5>7 DEF Process, Retrying
      <4>2. pc[p] = "append" /\ closing'[p] = closing[p] /\ Newest(p)' = Newest(p)
        BY <4>1 DEF AppendLine, handleVars, Newest
      <4>3. Len(log') = Len(log) + 1 /\ Len(log) \in Nat /\ log'[Len(log) + 1] = Written(p)
        BY <2>1, <4>1, AppendedFacts, LogType DEF TypeInv, NewLineOf
      <4>4. Written(p).turn = Newest(p)
        BY <2>5, <3>2, <4>2, WrittenType
      <4>5. Len(log) + 1 \in 1 .. Len(log')
        BY <4>3
      <4> QED BY <3>2, <4>2, <4>3, <4>4, <4>5
    <3> QED BY <3>1, <3>2
  <2>6. \A t \in acked' \ misled' : KeptNext(t)
    BY <2>3, <2>4
  <2> QED BY <2>5, <2>6
<1> QED BY <1>1, <1>2 DEF Next

---------------------------------------------------------------------------
Inv == TypeInv /\ NumbersOK /\ SyncOK /\ ChainBreaksOnlyByMishap /\ OnceOK /\ SavedOK

LEMMA InvInit == Init => Inv
<1> SUFFICES ASSUME Init PROVE Inv
  OBVIOUS
<1>1. TypeInv
  BY TypeInvInit
<1>2. /\ log = << >> /\ written = 0 /\ acked = {} /\ row.owner = 0
      /\ \A p \in Procs : pc[p] = "off" /\ ~dirty[p]
  BY DEF Init, NoRow
<1>3. NumbersOK /\ SyncOK /\ ChainBreaksOnlyByMishap
  BY <1>2 DEF NumbersOK, SyncOK, Holds, ChainBreaksOnlyByMishap
<1>4. OnceOK
  BY <1>2 DEF OnceOK, Once, Saving, RetryPoints
<1>5. SavedOK
  BY <1>2 DEF SavedOK
<1> QED BY <1>1, <1>3, <1>4, <1>5 DEF Inv

LEMMA InvStep == Inv /\ [Next]_vars => Inv'
<1> SUFFICES ASSUME Inv, [Next]_vars PROVE Inv'
  OBVIOUS
<1>1. TypeInv /\ NumbersOK /\ SyncOK /\ ChainBreaksOnlyByMishap /\ OnceOK /\ SavedOK
  BY DEF Inv
<1>2. TypeInv' /\ NumbersOK' /\ SyncOK'
  BY <1>1, TypeInvStep, NumbersStep, SyncStep
<1>3. ChainBreaksOnlyByMishap'
  BY <1>1, ChainStep
<1>4. OnceOK' /\ SavedOK'
  BY <1>1, OnceStep, SavedStep
<1> QED BY <1>2, <1>3, <1>4 DEF Inv

(* ChainBreaksOnlyByMishap: as long as no line was glued onto a torn tail, no *)
(* process wrote after it lost its lease, no retry cut off what came after its *)
(* look at the log, and no Ctrl-C came between a line and the UPDATE of the    *)
(* index, _read_records accepts the log.                                       *)
THEOREM ChainHolds == Spec => []ChainBreaksOnlyByMishap
<1>1. Init => Inv
  BY InvInit
<1>2. Inv /\ [Next]_vars => Inv'
  BY InvStep
<1>3. Inv => ChainBreaksOnlyByMishap
  BY DEF Inv
<1> QED BY <1>1, <1>2, <1>3, PTL DEF Spec

(* TurnsAreKeptOnce: no crash, retry, repair or replay writes a turn twice, and *)
(* without mishaps a turn whose commit_state or retry_save returned is in the   *)
(* log, unless that retry_save had lost its lease when it updated the index.    *)
THEOREM TurnsKeptOnce == Spec => []TurnsAreKeptOnce
<1>1. Init => Inv
  BY InvInit
<1>2. Inv /\ [Next]_vars => Inv'
  BY InvStep
<1>3. Inv => TurnsAreKeptOnce
  <2> SUFFICES ASSUME Inv PROVE TurnsAreKeptOnce
    OBVIOUS
  <2>1. DOMAIN log = 1 .. Len(log) /\ Len(log) \in Nat
    BY LogType DEF Inv, TypeInv
  <2>2. \A j, k \in DOMAIN log : log[j].turn = log[k].turn /\ log[k].turn # 0 => j = k
    BY <2>1 DEF Inv, OnceOK
  <2>3. mishaps = {} => acked \ misled \subseteq ToSet(Replayed(log))
    <3> SUFFICES ASSUME mishaps = {}, NEW t \in acked \ misled PROVE t \in ToSet(Replayed(log))
      OBVIOUS
    <3>1. PICK k \in 1 .. Len(log) : log[k].turn = t
      BY DEF Inv, SavedOK
    <3>2. k \in DOMAIN Replayed(log) /\ Replayed(log)[k] = t
      BY <2>1, <3>1 DEF Replayed
    <3> QED BY <3>2 DEF ToSet
  <2> QED BY <2>2, <2>3 DEF TurnsAreKeptOnce
<1> QED BY <1>1, <1>2, <1>3, PTL DEF Spec

(* RetryCanSave: a handle that failed to save and still has its lease finds the *)
(* log ending in exactly its record, or ready to take it (_recover_pending).    *)
THEOREM SavesCanBeRetried == Spec => []RetryCanSave
<1>1. Init => Inv
  BY InvInit
<1>2. Inv /\ [Next]_vars => Inv'
  BY InvStep
<1>3. Inv => RetryCanSave
  <2> SUFFICES ASSUME Inv, NEW p \in Procs, pc[p] = "live", dirty[p], Holds(p), mishaps = {}
               PROVE  \/ Follows(row.lastSeq, row.lastHash) /\ Last(log).turn = Last(memory[p])
                      \/ Last(log).seq = row.lastSeq /\ row.lastHash = lastHash[p]
    BY DEF RetryCanSave
  <2>1. /\ row.lastHash = lastHash[p] /\ row.lastHash = row.lastSeq + 1
        /\ \/ Len(log) = row.lastHash
           \/ Len(log) = row.lastHash + 1 /\ Last(log).turn = Newest(p)
    BY DEF Inv, SyncOK, Synced
  <2>2. /\ log # << >> /\ Len(log) \in DOMAIN log /\ Last(log) = log[Len(log)] /\ Len(log) \in Nat
        /\ row.lastSeq \in Nat /\ row.lastHash \in Nat
    BY LeaseHasLog, LogType, RowFields DEF Inv, TypeInv
  <2>3. /\ Last(log).seq = Len(log) - 1
        /\ Last(log).prev = IF Len(log) = 1 THEN 0 ELSE log[Len(log) - 1].hash
    BY <2>2 DEF Inv, ChainBreaksOnlyByMishap, Readable
  <2>6. Len(log) # 1 => Last(log).prev = Len(log) - 1
    <3>1. DOMAIN log = 1 .. Len(log) /\ \A k \in 1 .. Len(log) : log[k].hash = k
      BY LogType DEF Inv, TypeInv, NumbersOK
    <3> QED BY <2>2, <2>3, <3>1
  <2>4. CASE Len(log) = row.lastHash
    BY <2>1, <2>2, <2>3, <2>4
  <2>5. CASE Len(log) = row.lastHash + 1 /\ Last(log).turn = Newest(p)
    BY <2>1, <2>2, <2>3, <2>5, <2>6 DEF Follows, Newest
  <2> QED BY <2>1, <2>4, <2>5
<1> QED BY <1>1, <1>2, <1>3, PTL DEF Spec

---------------------------------------------------------------------------
(* The refinement of SavedTurns: who may write knows all that is written.  *)

Logged == ToSet(Replayed(log)) \ {0}

Known(p) == ToSet(memory[p]) \ {0}

(* Until the first mishap, the conversation of the process that has the lease *)
(* has exactly the turns of the log, and the one it is about to save.         *)
Basis(p) == Known(p) = IF Saving(p) THEN Logged \union {Newest(p)} ELSE Logged

WithHandle == {"live", "append", "index", "release"} \union RetryPoints

BasisOK ==
  /\ \A p \in Procs : pc[p] \notin WithHandle => memory[p] = << >>
  /\ mishaps = {} =>
       \A p \in Procs : Holds(p) /\ pc[p] \in WithHandle \ {"release"} /\ ~closing[p] => Basis(p)

LEMMA ReplayedLines ==
  ASSUME NEW lines \in Seq(LineType)
  PROVE  /\ Replayed(lines) \in Seq(Nat) /\ Len(Replayed(lines)) = Len(lines)
         /\ \A k \in 1 .. Len(lines) : Replayed(lines)[k] = lines[k].turn
         /\ \A t : t \in ToSet(Replayed(lines)) <=> \E k \in 1 .. Len(lines) : lines[k].turn = t
<1>1. DOMAIN lines = 1 .. Len(lines) /\ Len(lines) \in Nat /\ \A k \in 1 .. Len(lines) : lines[k] \in LineType
  BY LenProperties, ElementOfSeq
<1>2. \A k \in 1 .. Len(lines) : lines[k].turn \in Nat
  BY <1>1, LineFields
<1>3. Replayed(lines) = [k \in 1 .. Len(lines) |-> lines[k].turn]
  BY <1>1 DEF Replayed
<1>4. Replayed(lines) \in [1 .. Len(lines) -> Nat]
  BY <1>2, <1>3
<1>5. Replayed(lines) \in Seq(Nat) /\ Len(Replayed(lines)) = Len(lines)
  BY <1>1, <1>4, SeqDef, LenProperties
<1>6. DOMAIN Replayed(lines) = 1 .. Len(lines)
  BY <1>4
<1>7. \A k \in 1 .. Len(lines) : Replayed(lines)[k] = lines[k].turn
  BY <1>3
<1> QED BY <1>5, <1>6, <1>7 DEF ToSet

LEMMA AppendToSet ==
  ASSUME NEW S, NEW s \in Seq(S), NEW x \in S
  PROVE  ToSet(Append(s, x)) = ToSet(s) \union {x}
<1>1. /\ Append(s, x) \in Seq(S) /\ Len(Append(s, x)) = Len(s) + 1
      /\ \A k \in 1 .. Len(s) : Append(s, x)[k] = s[k]
      /\ Append(s, x)[Len(s) + 1] = x
  BY AppendProperties
<1>2. /\ Len(s) \in Nat /\ DOMAIN s = 1 .. Len(s)
      /\ DOMAIN Append(s, x) = 1 .. (Len(s) + 1)
  BY <1>1, LenProperties
<1>3. DOMAIN Append(s, x) = DOMAIN s \union {Len(s) + 1}
  BY <1>2
<1> QED BY <1>1, <1>2, <1>3 DEF ToSet

LEMMA ReplayedAppend ==
  ASSUME NEW lines \in Seq(LineType), NEW line \in LineType
  PROVE  /\ Replayed(Append(lines, line)) = Append(Replayed(lines), line.turn)
         /\ ToSet(Replayed(Append(lines, line))) = ToSet(Replayed(lines)) \union {line.turn}
<1> DEFINE longer == Append(lines, line)
<1>1. /\ longer \in Seq(LineType) /\ Len(longer) = Len(lines) + 1 /\ Len(lines) \in Nat
      /\ \A k \in 1 .. Len(lines) : longer[k] = lines[k]
      /\ longer[Len(lines) + 1] = line
  BY AppendProperties, LenProperties
<1>2. line.turn \in Nat
  BY LineFields
<1>3. /\ Replayed(lines) \in Seq(Nat) /\ Len(Replayed(lines)) = Len(lines)
      /\ \A k \in 1 .. Len(lines) : Replayed(lines)[k] = lines[k].turn
  BY ReplayedLines
<1> HIDE DEF longer
<1>4. /\ Replayed(longer) \in Seq(Nat) /\ Len(Replayed(longer)) = Len(longer)
      /\ \A k \in 1 .. Len(longer) : Replayed(longer)[k] = longer[k].turn
  BY <1>1, ReplayedLines
<1>5. /\ Append(Replayed(lines), line.turn) \in Seq(Nat)
      /\ Len(Append(Replayed(lines), line.turn)) = Len(lines) + 1
      /\ \A k \in 1 .. Len(lines) : Append(Replayed(lines), line.turn)[k] = lines[k].turn
      /\ Append(Replayed(lines), line.turn)[Len(lines) + 1] = line.turn
  BY <1>2, <1>3, AppendProperties
<1>6. \A k \in 1 .. Len(longer) : Replayed(longer)[k] = Append(Replayed(lines), line.turn)[k]
  <2> SUFFICES ASSUME NEW k \in 1 .. Len(longer)
               PROVE  Replayed(longer)[k] = Append(Replayed(lines), line.turn)[k]
    OBVIOUS
  <2>1. k \in 1 .. Len(lines) \/ k = Len(lines) + 1
    BY <1>1
  <2>2. Replayed(longer)[k] = longer[k].turn
    BY <1>4
  <2>3. CASE k \in 1 .. Len(lines)
    BY <1>1, <1>5, <2>2, <2>3
  <2>4. CASE k = Len(lines) + 1
    BY <1>1, <1>5, <2>2, <2>4
  <2> QED BY <2>1, <2>3, <2>4
<1>7. Replayed(longer) = Append(Replayed(lines), line.turn)
  BY <1>1, <1>4, <1>5, <1>6, SeqEqual
<1>8. ToSet(Replayed(longer)) = ToSet(Replayed(lines)) \union {line.turn}
  BY <1>2, <1>3, <1>7, AppendToSet
<1> QED BY <1>7, <1>8 DEF longer

LEMMA ReplayedPrefix ==
  ASSUME NEW lines \in Seq(LineType), NEW n \in 0 .. Len(lines)
  PROVE  Replayed(SubSeq(lines, 1, n)) = SubSeq(Replayed(lines), 1, n)
<1> DEFINE first == SubSeq(lines, 1, n)
           turnsOf == SubSeq(Replayed(lines), 1, n)
<1>1. Len(lines) \in Nat /\ n \in Nat /\ \A k \in 1 .. n : k \in 1 .. Len(lines)
  BY LenProperties
<1>2. /\ Replayed(lines) \in Seq(Nat) /\ Len(Replayed(lines)) = Len(lines)
      /\ \A k \in 1 .. Len(lines) : Replayed(lines)[k] = lines[k].turn
  BY ReplayedLines
<1>3. \A k \in 1 .. n : lines[k] \in LineType /\ Replayed(lines)[k] \in Nat
  BY <1>1, <1>2, ElementOfSeq
<1>4. first \in Seq(LineType) /\ Len(first) = n /\ \A k \in 1 .. n : first[k] = lines[k]
  BY <1>1, <1>3, SubSeqProperties
<1>5. turnsOf \in Seq(Nat) /\ Len(turnsOf) = n /\ \A k \in 1 .. n : turnsOf[k] = Replayed(lines)[k]
  BY <1>1, <1>2, <1>3, SubSeqProperties
<1> HIDE DEF first, turnsOf
<1>6. /\ Replayed(first) \in Seq(Nat) /\ Len(Replayed(first)) = n
      /\ \A k \in 1 .. n : Replayed(first)[k] = first[k].turn
  BY <1>4, ReplayedLines
<1>7. \A k \in 1 .. n : Replayed(first)[k] = turnsOf[k]
  BY <1>1, <1>2, <1>4, <1>5, <1>6
<1>8. Replayed(first) = turnsOf
  BY <1>5, <1>6, <1>7, SeqEqual
<1> QED BY <1>8 DEF first, turnsOf

LEMMA NothingReplayed == ToSet(<< >>) = {} /\ Replayed(<< >>) = << >>
  BY DEF ToSet, Replayed

(* The line of an append, and what it adds to the log. *)
LEMMA AppendSaves ==
  ASSUME TypeInv, NEW p \in Procs, AppendLine(p)
  PROVE  LET turn == IF tail = "torn" \/ closing[p] THEN 0 ELSE Newest(p)
         IN  /\ Replayed(log)' = Append(Replayed(log), turn)
             /\ Logged' = Logged \union ({turn} \ {0})
<1> DEFINE new == NewLineOf(p)
           turn == IF tail = "torn" \/ closing[p] THEN 0 ELSE Newest(p)
<1>1. pc[p] = "append" /\ log' = Append(log, new)
  BY AppendIs
<1>2. new \in LineType /\ new.turn = turn
  BY <1>1, AppendIs, WrittenType, GarbageType DEF NewLineOf
<1>3. log \in Seq(LineType)
  BY DEF TypeInv, LogOK
<1> HIDE DEF new, turn
<1>4. /\ Replayed(log') = Append(Replayed(log), turn)
      /\ ToSet(Replayed(log')) = ToSet(Replayed(log)) \union {turn}
  BY <1>1, <1>2, <1>3, ReplayedAppend
<1>5. Replayed(log)' = Replayed(log')
  BY DEF Replayed
<1>6. Replayed(log)' = Append(Replayed(log), turn) /\ Logged' = Logged \union ({turn} \ {0})
  BY <1>4, <1>5 DEF Logged
<1> QED BY <1>6 DEF turn

(* Turns are numbered as they are completed, so a new one is new everywhere. *)
LEMMA NewTurnIsNew ==
  ASSUME TypeInv
  PROVE  turns + 1 \notin Logged /\ \A q \in Procs : turns + 1 \notin Known(q)
<1>0. turns \in Nat
  BY DEF TypeInv, CountsOK
<1>1. turns + 1 \notin Logged
  <2>1. \A k \in 1 .. Len(log) : log[k].turn \in Nat /\ log[k].turn <= turns
    BY LogType, LineFields DEF TypeInv, LogOK
  <2>2. \A k \in 1 .. Len(log) : log[k].turn # turns + 1
    BY <1>0, <2>1
  <2>3. log \in Seq(LineType)
    BY DEF TypeInv, LogOK
  <2> QED BY <2>2, <2>3, ReplayedLines DEF Logged
<1>2. ASSUME NEW q \in Procs, turns + 1 \in Known(q) PROVE FALSE
  <2>1. memory[q] \in Seq(Nat) /\ \A k \in 1 .. Len(memory[q]) : memory[q][k] <= turns
    BY DEF TypeInv, MemoryOK
  <2>2. DOMAIN memory[q] = 1 .. Len(memory[q])
    BY <2>1, LenProperties
  <2>3. PICK k \in 1 .. Len(memory[q]) : memory[q][k] = turns + 1
    BY <1>2, <2>2 DEF Known, ToSet
  <2> QED BY <1>0, <2>1, <2>3
<1> QED BY <1>1, <1>2

LEMMA CommitTakes ==
  ASSUME TypeInv, NEW p \in Procs, Commit(p)
  PROVE  /\ memory' = [memory EXCEPT ![p] = Append(memory[p], turns + 1)]
         /\ Known(p)' = Known(p) \union {turns + 1} /\ Newest(p)' = turns + 1
         /\ pc[p] = "live" /\ ~dirty[p] /\ ~closing[p] /\ Saving(p)'
         /\ UNCHANGED <<log, row, token>>
<1>0. /\ memory \in [Procs -> Seq(Nat)] /\ turns \in Nat /\ pc \in [Procs -> Points]
      /\ dirty \in [Procs -> BOOLEAN]
  BY DEF TypeInv, MemoryOK, CountsOK, HandlesOK, FlagsOK
<1>1. /\ memory' = [memory EXCEPT ![p] = Append(memory[p], turns + 1)]
      /\ pc[p] = "live" /\ ~dirty[p] /\ closing' = closing
      /\ UNCHANGED <<log, row, token>>
      /\ pc'[p] = "append" \/ dirty'[p]
  BY <1>0 DEF Commit, BeginAppend, Goto, fileVars
<1>2. ~closing[p]
  BY <1>1 DEF TypeInv, PlacesOK
<1>3. memory'[p] = Append(memory[p], turns + 1) /\ memory[p] \in Seq(Nat) /\ turns + 1 \in Nat /\ turns + 1 # 0
  BY <1>0, <1>1
<1>4. ToSet(memory'[p]) = ToSet(memory[p]) \union {turns + 1}
  BY <1>3, AppendToSet
<1>5. Last(memory'[p]) = turns + 1
  BY <1>3, AppendProperties DEF Last
<1>6. Known(p)' = Known(p) \union {turns + 1}
  BY <1>3, <1>4 DEF Known
<1> QED BY <1>1, <1>2, <1>5, <1>6 DEF Newest, Saving

LEMMA NewestIsKnown ==
  ASSUME TypeInv, NEW p \in Procs, Saving(p)
  PROVE  Newest(p) \in Known(p) /\ Newest(p) # 0
<1>1. memory[p] # << >> /\ Newest(p) # 0 /\ memory[p] \in Seq(Nat)
  BY DEF TypeInv, PlacesOK, MemoryOK
<1>2. /\ DOMAIN memory[p] = 1 .. Len(memory[p])
      /\ Len(memory[p]) \in 1 .. Len(memory[p])
  BY <1>1, LenProperties, EmptySeq
<1> QED BY <1>1, <1>2 DEF Newest, Last, Known, ToSet

(* A turn is confirmed when its line is in the log: by the UPDATE after the *)
(* append, or by the retry that finds the line there.                       *)
LEMMA ConfirmedIsLogged ==
  ASSUME TypeInv, SyncOK, SavedOK, mishaps = {}, NEW p \in Procs,
         \/ pc[p] = "index" /\ ~closing[p]
         \/ pc[p] = "adopt" /\ Holds(p)
  PROVE  Newest(p) \in Logged
<1>1. log \in Seq(LineType)
  BY DEF TypeInv, LogOK
<1>2. Newest(p) # 0
  BY NewestIsKnown DEF Saving, TypeInv, PlacesOK, RetryPoints
<1>3. CASE pc[p] = "index" /\ ~closing[p]
  <2>1. \E k \in 1 .. Len(log) : log[k].turn = Newest(p)
    BY <1>3 DEF SavedOK
  <2> QED BY <1>1, <1>2, <2>1, ReplayedLines DEF Logged
<1>4. CASE pc[p] = "adopt" /\ Holds(p)
  <2>1. log # << >> /\ Len(log) \in 1 .. Len(log) /\ Last(log) = log[Len(log)]
        /\ Len(log) \in Nat /\ row.lastHash \in Nat
    BY <1>4, LeaseHasLog, LogType, RowFields DEF TypeInv
  <2>2. /\ Len(log) = row.lastHash + 1
        /\ Len(log) = row.lastHash \/ Last(log).turn = Newest(p)
    BY <1>4 DEF SyncOK, Synced, RetryPoints
  <2>3. log[Len(log)].turn = Newest(p)
    BY <2>1, <2>2
  <2> QED BY <1>1, <1>2, <2>1, <2>3, ReplayedLines DEF Logged
<1> QED BY <1>3, <1>4

LEMMA EmptyMemory ==
  ASSUME TypeInv, BasisOK, [Next]_vars, NEW q \in Procs,
         pc'[q] \notin WithHandle
  PROVE  memory'[q] = << >>
<1>0. /\ memory \in [Procs -> Seq(Nat)] /\ pc \in [Procs -> Points]
      /\ dirty \in [Procs -> BOOLEAN] /\ closing \in [Procs -> BOOLEAN]
  BY DEF TypeInv, MemoryOK, HandlesOK, FlagsOK
<1>1. pc[q] \notin WithHandle => memory[q] = << >>
  BY DEF BasisOK
<1>2. CASE LeaseExpires \/ UNCHANGED vars
  BY <1>1, <1>2 DEF LeaseExpires, vars, handleVars
<1>3. ASSUME NEW p \in Procs, Process(p) PROVE memory'[q] = << >>
  <2>1. CASE p # q
    BY <1>1, <1>3, <2>1, OthersKeep
  <2>2. CASE p = q
    <3>1. CASE Boot(q) \/ RepairRead(q) \/ RepairWrite(q) \/ CreateLog(q) \/ Resume(q)
      <4>1. memory' = memory /\ pc[q] \in {"off", "read", "upsert", "ready"}
        BY <3>1 DEF Boot, RepairRead, RepairWrite, CreateLog, Resume, handleVars
      <4> QED BY <1>1, <4>1 DEF WithHandle, RetryPoints
    <3>2. CASE CreateRow(q) \/ Replay(q) \/ SoftDelete(q)
      BY <1>0, <3>2 DEF CreateRow, Replay, SoftDelete, Exit, Goto, WithHandle
    <3>3. CASE CloseDirty(q) \/ CloseRow(q) \/ Crash(q)
      BY <1>0, <3>3 DEF CloseDirty, CloseRow, Crash, Exit, Goto
    <3>4. CASE Commit(q)
      BY <1>0, <3>4 DEF Commit, BeginAppend, Goto, WithHandle
    <3>7. CASE Close(q) \/ Interrupt(q)
      BY <1>0, <3>7, CloseIs DEF Exit, Goto, WithHandle
    <3>5. CASE Retrying(q)
      <4>1. \E point \in {"live", "append"} \union RetryPoints : pc' = [pc EXCEPT ![q] = point]
        BY <3>5, RetryIs
      <4> QED BY <1>0, <4>1 DEF WithHandle
    <3>6. CASE AppendLine(q) \/ UpdateIndex(q) \/ AppendFails(q) \/ UpdateFails(q)
      BY <1>0, <3>6 DEF AppendLine, UpdateIndex, AppendFails, UpdateFails, Fails, Exit, Goto, WithHandle
    <3> QED BY <1>3, <2>2, <3>1, <3>2, <3>3, <3>4, <3>5, <3>6, <3>7 DEF Process, Retrying
  <2> QED BY <2>1, <2>2
<1> QED BY <1>2, <1>3 DEF Next

(* The steps of the process that has the lease. *)
LEMMA OwnBasis ==
  ASSUME Inv, BasisOK, mishaps = {}, mishaps' = {}, NEW p \in Procs, Process(p), Holds(p)',
         pc'[p] \in WithHandle \ {"release"}, ~closing'[p],
         AppendLine(p) => Holds(p) /\ tail # "torn"
  PROVE  Basis(p)'
<1>0. /\ TypeInv /\ SyncOK /\ SavedOK
      /\ memory \in [Procs -> Seq(Nat)] /\ pc \in [Procs -> Points]
      /\ dirty \in [Procs -> BOOLEAN] /\ closing \in [Procs -> BOOLEAN]
  BY DEF Inv, TypeInv, MemoryOK, HandlesOK, FlagsOK
<1>1. /\ closing[p] => pc[p] \in {"append", "index", "release"}
      /\ dirty[p] => pc[p] = "live" \/ pc[p] \in RetryPoints
  BY <1>0 DEF TypeInv, PlacesOK
<1>2. /\ pc[p] \notin WithHandle => memory[p] = << >>
      /\ Holds(p) /\ pc[p] \in WithHandle \ {"release"} /\ ~closing[p] => Basis(p)
  BY DEF BasisOK
<1>3. ~(Boot(p) \/ RepairRead(p) \/ RepairWrite(p) \/ CreateLog(p) \/ Resume(p))
  BY <1>0 DEF Boot, RepairRead, RepairWrite, CreateLog, Resume, Goto, WithHandle, RetryPoints
<1>4. ~(SoftDelete(p) \/ CloseDirty(p) \/ CloseRow(p) \/ Crash(p))
  BY <1>0 DEF SoftDelete, CloseDirty, CloseRow, Crash, Exit, Goto, WithHandle, RetryPoints
<1>5. CASE CreateRow(p)
  <2>1. row = NoRow /\ log' = log /\ memory' = memory /\ pc[p] = "insert" /\ dirty' = dirty
        /\ pc'[p] = "live"
    BY <1>0, <1>5 DEF CreateRow, Exit, Goto, fileVars, WithHandle, RetryPoints
  <2>2. log' = <<Header>>
    BY <1>0, <2>1 DEF TypeInv, BirthOK, PlacesOK
  <2>3. Logged' = {}
    <3>1. Append(<< >>, Header) = <<Header>> /\ << >> \in Seq(LineType) /\ Header \in LineType
      BY ConstantLines
    <3>2. ToSet(Replayed(<<Header>>)) = {0}
      BY <3>1, ReplayedAppend, NothingReplayed, ConstantLines
    <3> QED BY <2>2, <3>2 DEF Logged, Replayed
  <2>4. Known(p)' = {} /\ ~Saving(p)'
    <3>1. memory'[p] = << >> /\ ~dirty'[p]
      BY <1>1, <1>2, <2>1 DEF WithHandle, RetryPoints
    <3> QED BY <2>1, <3>1, NothingReplayed DEF Known, Saving
  <2> QED BY <2>3, <2>4 DEF Basis
<1>6. CASE Replay(p)
  <2>1. /\ memory' = [memory EXCEPT ![p] = Replayed(log)] /\ log' = log /\ pc[p] = "replay"
        /\ dirty' = dirty /\ pc'[p] = "live"
    BY <1>0, <1>6 DEF Replay, Exit, Goto, fileVars, WithHandle, RetryPoints
  <2>2. memory'[p] = Replayed(log) /\ ~dirty'[p]
    BY <1>0, <1>1, <2>1 DEF RetryPoints
  <2>3. Known(p)' = Logged' /\ ~Saving(p)'
    BY <2>1, <2>2 DEF Known, Logged, Saving, Replayed
  <2> QED BY <2>3 DEF Basis
<1>7. CASE Commit(p)
  <2>1. /\ Known(p)' = Known(p) \union {turns + 1} /\ Newest(p)' = turns + 1
        /\ pc[p] = "live" /\ ~dirty[p] /\ ~closing[p] /\ Saving(p)' /\ UNCHANGED <<log, row, token>>
    BY <1>0, <1>7, CommitTakes
  <2>2. Holds(p) /\ ~Saving(p) /\ Logged' = Logged
    BY <2>1 DEF Holds, Saving, Logged, Replayed
  <2> QED BY <1>2, <2>1, <2>2 DEF Basis, WithHandle
<1>8. ~(Close(p) \/ Interrupt(p))
  <2> SUFFICES ASSUME Close(p) \/ Interrupt(p) PROVE FALSE
    OBVIOUS
  <2> QED BY <1>0, CloseIs DEF Exit, Goto, WithHandle, RetryPoints
<1>9. CASE AppendLine(p)
  <2>1. /\ pc[p] = "append" /\ pc'[p] = "index" /\ Holds(p) /\ tail # "torn" /\ ~closing[p]
        /\ UNCHANGED <<memory, dirty, closing>>
    BY <1>0, <1>9 DEF AppendLine, Goto, handleVars
  <2>2. Logged' = Logged \union ({Newest(p)} \ {0})
    BY <1>0, <1>9, <2>1, AppendSaves
  <2>3. Saving(p) /\ Saving(p)' /\ Known(p)' = Known(p) /\ Newest(p)' = Newest(p)
    BY <2>1 DEF Saving, Known, Newest
  <2>4. Basis(p) /\ Newest(p) # 0
    BY <1>0, <1>2, <2>1, <2>3, NewestIsKnown DEF WithHandle
  <2> QED BY <2>2, <2>3, <2>4 DEF Basis
<1>10. CASE AppendFails(p) \/ UpdateFails(p)
  <2>1. /\ pc[p] \in {"append", "index"} /\ dirty'[p] /\ ~closing[p]
        /\ UNCHANGED <<log, row, token, memory>>
    BY <1>0, <1>10 DEF AppendFails, UpdateFails, Fails, Exit, Goto, fileVars, WithHandle, RetryPoints
  <2>2. Holds(p) /\ Saving(p) /\ Saving(p)' /\ Logged' = Logged /\ Known(p)' = Known(p)
        /\ Newest(p)' = Newest(p)
    BY <2>1 DEF Holds, Saving, Logged, Replayed, Known, Newest
  <2> QED BY <1>2, <2>1, <2>2 DEF Basis, WithHandle
<1>11. CASE UpdateIndex(p)
  <2>1. /\ pc[p] = "index" /\ pc'[p] = "live" /\ ~closing[p] /\ UNCHANGED <<log, token, memory, dirty>>
        /\ row' = IF Holds(p)
                  THEN [row EXCEPT !.status = "active", !.lastSeq = next[p],
                                   !.lastHash = wrote[p], !.expired = FALSE]
                  ELSE row
    BY <1>0, <1>11 DEF UpdateIndex, Goto, fileVars, WithHandle, RetryPoints
  <2>2. Holds(p) /\ Saving(p) /\ ~Saving(p)' /\ Logged' = Logged /\ Known(p)' = Known(p)
    BY <1>1, <2>1 DEF Holds, Saving, Logged, Replayed, Known, RetryPoints
  <2>3. Newest(p) \in Logged
    BY <1>0, <2>1, ConfirmedIsLogged
  <2> QED BY <1>2, <2>1, <2>2, <2>3 DEF Basis, WithHandle
<1>12. CASE Retrying(p)
  <2>1. /\ dirty[p] /\ ~closing[p] /\ pc[p] \in {"live"} \union RetryPoints /\ log' = log
        /\ UNCHANGED <<token, memory, closing>> /\ (RetryAdopt(p) \/ row' = row)
        /\ dirty'[p] \/ pc'[p] = "append" \/ RetryAdopt(p)
    BY <1>0, <1>12, RetryIs, MishapsGrow
  <2>2. Holds(p)
    BY <2>1 DEF RetryAdopt, Holds
  <2>3. Saving(p) /\ Basis(p) /\ Logged' = Logged /\ Known(p)' = Known(p) /\ Newest(p)' = Newest(p)
    BY <1>2, <2>1, <2>2 DEF Saving, Logged, Replayed, Known, Newest, WithHandle, RetryPoints
  <2>4. CASE RetryAdopt(p)
    <3>1. pc[p] = "adopt" /\ pc'[p] = "live" /\ ~dirty'[p]
      BY <1>0, <2>4 DEF RetryAdopt, Goto
    <3>2. Newest(p) \in Logged
      BY <1>0, <2>2, <3>1, ConfirmedIsLogged
    <3>3. ~Saving(p)'
      BY <3>1 DEF Saving
    <3> QED BY <2>3, <3>2, <3>3 DEF Basis
  <2>5. CASE ~RetryAdopt(p)
    <3>1. Saving(p)'
      BY <2>1, <2>5 DEF Saving
    <3> QED BY <2>3, <3>1 DEF Basis
  <2> QED BY <2>4, <2>5
<1> QED BY <1>3, <1>4, <1>5, <1>6, <1>7, <1>8, <1>9, <1>10, <1>11, <1>12 DEF Process, Retrying

LEMMA BasisStep == ASSUME Inv, BasisOK, [Next]_vars PROVE BasisOK'
<1>0. TypeInv
  BY DEF Inv
<1>1. \A q \in Procs : pc'[q] \notin WithHandle => memory'[q] = << >>
  BY <1>0, EmptyMemory
<1>2. ASSUME mishaps' = {}, NEW q \in Procs, Holds(q)', pc'[q] \in WithHandle \ {"release"},
             ~closing'[q]
      PROVE  Basis(q)'
  <2>1. CASE LeaseExpires \/ UNCHANGED vars
    <3>1. /\ UNCHANGED <<log, mishaps, pc, token, memory, dirty, closing>>
          /\ row' = row \/ row' = [row EXCEPT !.expired = TRUE]
      BY <2>1 DEF LeaseExpires, vars, fileVars, historyVars, handleVars, appendVars
    <3>0. row \in RowType
      BY <1>0 DEF TypeInv, RowOK
    <3>2. [row EXCEPT !.expired = TRUE].owner = row.owner
      BY <3>0 DEF RowType
    <3>3. Holds(q)
      BY <1>2, <3>1, <3>2 DEF Holds
    <3>4. Basis(q)
      BY <1>2, <3>1, <3>3 DEF BasisOK
    <3> QED BY <3>1, <3>4 DEF Basis, Known, Logged, Replayed, Saving, Newest
  <2>2. ASSUME NEW p \in Procs, Process(p) PROVE Basis(q)'
    <3>1. mishaps = {} /\ (AppendLine(p) => Holds(p) /\ tail # "torn")
      BY <1>0, <1>2, <2>2, MishapsGrow
    <3>2. CASE q = p
      BY <1>2, <2>2, <3>1, <3>2, OwnBasis
    <3>3. CASE q # p
      <4>1. Holds(q)
        BY <1>0, <1>2, <2>2, <3>3, LeaseIsTaken
      <4>2. log' = log
        <5>1. ~AppendLine(p)
          BY <1>0, <3>1, <3>3, <4>1 DEF Holds, TypeInv, TokensOK
        <5>2. log # << >>
          BY <1>0, <4>1, LeaseHasLog
        <5> QED BY <1>0, <1>2, <2>2, <5>1, <5>2, LogGrows
      <4>3. /\ pc'[q] = pc[q] /\ memory'[q] = memory[q]
            /\ dirty'[q] = dirty[q] /\ closing'[q] = closing[q]
        BY <1>0, <2>2, <3>3, OthersKeep
      <4>4. Basis(q)
        BY <1>2, <3>1, <4>1, <4>3 DEF BasisOK
      <4>5. Known(q)' = Known(q) /\ Logged' = Logged /\ Newest(q)' = Newest(q)
            /\ (Saving(q)' <=> Saving(q))
        BY <4>2, <4>3 DEF Known, Logged, Replayed, Newest, Saving
      <4> QED BY <4>4, <4>5 DEF Basis
    <3> QED BY <3>2, <3>3
  <2> QED BY <2>1, <2>2 DEF Next
<1> QED BY <1>1, <1>2 DEF BasisOK

---------------------------------------------------------------------------
(* Every step of Sessions is one of SavedTurns or leaves its variables     *)
(* alone.                                                                  *)

KnownTurns == [p \in Procs |-> ToSet(memory[p]) \ {0}]

Broken == mishaps # {} \/ misled # {}

LEMMA KnownChanges ==
  ASSUME TypeInv, NEW p \in Procs, Process(p)
  PROVE  KnownTurns' = [KnownTurns EXCEPT ![p] = Known(p)']
<1>1. \A q \in Procs : q # p => ToSet(memory[q])' = ToSet(memory[q])
  BY OthersKeep
<1>2. ToSet(memory[p])' \ {0} = Known(p)'
  BY DEF Known
<1> QED BY <1>1, <1>2 DEF KnownTurns

LEMMA TurnsOf == \A some : Saved!Turns(some) = ToSet(some) \ {0}
  BY DEF Saved!Turns, Saved!ToSet, ToSet

LEMMA Refines ==
  ASSUME Inv, BasisOK, [Next]_vars
  PROVE  [Saved!Next]_(Saved!vars)
<1> DEFINE same == UNCHANGED <<Replayed(log), KnownTurns, acked, Broken>>
<1>0. TypeInv /\ SyncOK /\ OnceOK /\ SavedOK
  BY DEF Inv
<1>1. ASSUME same PROVE [Saved!Next]_(Saved!vars)
  BY <1>1 DEF Saved!vars, KnownTurns, Broken
<1>2. CASE LeaseExpires \/ UNCHANGED vars
  <2>1. UNCHANGED <<log, memory, acked, misled, mishaps>>
    BY <1>2 DEF LeaseExpires, vars, fileVars, historyVars, handleVars
  <2>2. same
    BY <2>1 DEF Replayed, KnownTurns, Broken
  <2> QED BY <1>1, <2>2
<1>3. ASSUME NEW p \in Procs, Process(p) PROVE [Saved!Next]_(Saved!vars)
  <2>0. /\ memory \in [Procs -> Seq(Nat)] /\ pc \in [Procs -> Points]
        /\ dirty \in [Procs -> BOOLEAN] /\ closing \in [Procs -> BOOLEAN]
        /\ log \in Seq(LineType) /\ turns \in Nat
        /\ KnownTurns' = [KnownTurns EXCEPT ![p] = Known(p)']
        /\ KnownTurns[p] = Known(p) /\ KnownTurns \in [Procs -> SUBSET Nat]
    <3>1. \A q \in Procs : ToSet(memory[q]) \in SUBSET Nat
      <4> SUFFICES ASSUME NEW q \in Procs PROVE ToSet(memory[q]) \in SUBSET Nat
        OBVIOUS
      <4>1. memory[q] \in Seq(Nat)
        BY <1>0 DEF TypeInv, MemoryOK
      <4> QED BY <4>1, LenProperties, ElementOfSeq DEF ToSet
    <3>2. KnownTurns[p] = Known(p) /\ KnownTurns \in [Procs -> SUBSET Nat]
      BY <3>1 DEF KnownTurns, Known
    <3>3. KnownTurns' = [KnownTurns EXCEPT ![p] = Known(p)']
      BY <1>0, <1>3, KnownChanges
    <3> QED BY <1>0, <3>2, <3>3 DEF TypeInv, MemoryOK, HandlesOK, FlagsOK, LogOK, CountsOK
  <2>1. CASE UNCHANGED <<log, memory, acked, misled, mishaps>>
    <3>1. same
      BY <2>1 DEF Replayed, KnownTurns, Broken
    <3> QED BY <1>1, <3>1
  <2>2. CASE UNCHANGED <<log, acked, misled, mishaps>> /\ memory'[p] = << >>
    <3>1. Known(p)' = {}
      BY <2>2, NothingReplayed DEF Known
    <3>2. Replayed(log)' = Replayed(log)
      BY <2>2 DEF Replayed
    <3>3. Saved!Leave(p)
      BY <2>0, <2>2, <3>1, <3>2 DEF Saved!Leave, KnownTurns
    <3> QED BY <3>3 DEF Saved!Next
  <2>3. CASE Boot(p) \/ RepairRead(p) \/ RepairWrite(p) \/ Resume(p)
    BY <2>1, <2>3 DEF Boot, RepairRead, RepairWrite, Resume, fileVars, handleVars, historyVars
  <2>4. CASE CreateLog(p)
    <3>1. log = << >> /\ log' = <<Header>> /\ UNCHANGED <<memory, acked, misled, mishaps>>
      BY <2>4 DEF CreateLog, historyVars
    <3>2. Append(<< >>, Header) = <<Header>> /\ << >> \in Seq(LineType) /\ Header \in LineType
      BY ConstantLines
    <3>3. Replayed(<<Header>>) = Append(Replayed(<< >>), 0)
      BY <3>2, ReplayedAppend, ConstantLines
    <3>4. Replayed(log)' = Append(Replayed(log), 0)
      BY <3>1, <3>3 DEF Replayed
    <3>5. Saved!Note
      BY <3>1, <3>4 DEF Saved!Note
    <3> QED BY <3>5 DEF Saved!Next
  <2>5. CASE CreateRow(p) \/ SoftDelete(p) \/ CloseDirty(p) \/ CloseRow(p) \/ Crash(p)
             \/ AppendFails(p) \/ UpdateFails(p)
    <3>1. UNCHANGED <<log, acked, misled, mishaps>>
      BY <2>5 DEF CreateRow, SoftDelete, CloseDirty, CloseRow, Crash, AppendFails, UpdateFails,
                  fileVars, historyVars
    <3>2. memory' = memory \/ memory'[p] = << >>
      BY <2>0, <2>5 DEF CreateRow, SoftDelete, CloseDirty, CloseRow, Crash, AppendFails,
                  UpdateFails, Fails, Exit
    <3> QED BY <2>1, <2>2, <3>1, <3>2
  <2>10. CASE log' \in {log} \union {SubSeq(log, 1, n) : n \in 1 .. Len(log)} /\ mishaps' # {}
              /\ UNCHANGED <<memory, acked>>
    <3>1. PICK n \in 0 .. Len(log) : log' = SubSeq(log, 1, n)
      <4>1. SubSeq(log, 1, Len(log)) = log /\ Len(log) \in Nat
        BY <2>0, SubSeqProperties, SeqEqual, LogType, <1>0 DEF TypeInv
      <4> QED BY <2>10, <4>1
    <3>2. /\ Replayed(SubSeq(log, 1, n)) = SubSeq(Replayed(log), 1, n)
          /\ n \in 0 .. Len(Replayed(log))
      BY <2>0, ReplayedPrefix, ReplayedLines
    <3>3. Replayed(log)' = SubSeq(Replayed(log), 1, n)
      BY <3>1, <3>2 DEF Replayed
    <3>4. KnownTurns' = KnownTurns
      BY <2>10 DEF KnownTurns
    <3>5. Saved!Break
      BY <2>10, <3>2, <3>3, <3>4 DEF Saved!Break, KnownTurns
    <3> QED BY <3>5 DEF Saved!Next
  <2>11. CASE Close(p) \/ Interrupt(p)
    <3>1. UNCHANGED <<log, acked, misled>>
      BY <1>0, <2>11, CloseIs
    <3>2. CASE Exit(p)
      <4>1. mishaps' = mishaps /\ memory'[p] = << >>
        <5>1. memory'[p] = << >>
          BY <2>0, <3>2 DEF Exit
        <5>2. pc'[p] = "off"
          BY <2>0, <3>2 DEF Exit, Goto
        <5> QED BY <1>0, <2>0, <2>11, <5>1, <5>2, CloseIs
      <4> QED BY <2>2, <3>1, <4>1
    <3>3. CASE ~Exit(p)
      <4>1. memory' = memory /\ mishaps' \in {mishaps, mishaps \union {"interrupted"}}
        BY <1>0, <2>11, <3>3, CloseIs
      <4> QED BY <2>1, <2>10, <3>1, <4>1
    <3> QED BY <3>2, <3>3
  <2>6. CASE Replay(p)
    <3>1. /\ UNCHANGED <<log, acked, misled, mishaps>>
          /\ memory'[p] = << >> \/ memory'[p] = Replayed(log)
      BY <2>0, <2>6 DEF Replay, Exit, fileVars, historyVars
    <3>2. CASE memory'[p] = Replayed(log)
      <4>1. Known(p)' = Saved!Turns(Replayed(log)) /\ Replayed(log)' = Replayed(log)
        BY <3>1, <3>2, TurnsOf DEF Known, Replayed
      <4>2. Saved!Open(p)
        BY <2>0, <3>1, <4>1 DEF Saved!Open, KnownTurns
      <4> QED BY <4>2 DEF Saved!Next
    <3> QED BY <2>2, <3>1, <3>2
  <2>7. CASE Commit(p)
    <3>1. /\ Known(p)' = Known(p) \union {turns + 1} /\ UNCHANGED <<log, acked, misled, mishaps>>
      BY <1>0, <2>7, CommitTakes DEF Commit, historyVars
    <3>2. turns + 1 \notin Logged /\ \A q \in Procs : turns + 1 \notin Known(q)
      BY <1>0, NewTurnIsNew
    <3>3. turns + 1 \notin Saved!Turns(Replayed(log)) /\ turns + 1 # 0
      BY <2>0, <3>2, TurnsOf DEF Logged
    <3>4. \A q \in Procs : turns + 1 \notin KnownTurns[q]
      BY <3>2 DEF KnownTurns, Known
    <3>5. KnownTurns' = [KnownTurns EXCEPT ![p] = KnownTurns[p] \union {turns + 1}]
      BY <2>0, <3>1
    <3>6. turns + 1 \in KnownTurns'[p]
      BY <2>0, <3>5
    <3>7. Saved!Take(p)
      <4>1. Replayed(log)' = Replayed(log)
        BY <3>1 DEF Replayed
      <4> QED BY <3>1, <3>3, <3>4, <3>5, <3>6, <4>1 DEF Saved!Take, KnownTurns
    <3> QED BY <3>7 DEF Saved!Next
  <2>8. CASE AppendLine(p)
    <3>1. /\ pc[p] = "append" /\ UNCHANGED <<memory, acked, misled, closing>>
          /\ mishaps' = {} => mishaps = {} /\ Holds(p)
      BY <1>0, <1>3, <2>8, MishapsGrow DEF AppendLine, handleVars
    <3>2. KnownTurns' = KnownTurns /\ Broken' \in {Broken, TRUE}
      BY <3>1 DEF KnownTurns, Broken
    <3>3. CASE tail = "torn" \/ closing[p]
      <4>1. Replayed(log)' = Append(Replayed(log), 0)
        BY <1>0, <2>8, <3>3, AppendSaves
      <4>2. Saved!Note
        BY <3>1, <3>2, <4>1 DEF Saved!Note, KnownTurns, Broken
      <4> QED BY <4>2 DEF Saved!Next
    <3>4. CASE tail # "torn" /\ ~closing[p]
      <4>1. Saving(p)
        BY <3>1, <3>4 DEF Saving
      <4>2. Newest(p) \in Known(p) /\ Newest(p) # 0
        BY <1>0, <4>1, NewestIsKnown
      <4>3. Newest(p) \notin Logged
        <5>1. \A k \in 1 .. Len(log) : log[k].turn # Newest(p)
          BY <1>0, <3>1, <3>4 DEF OnceOK, Once, Unwritten
        <5>2. Newest(p) \in ToSet(Replayed(log)) <=> \E k \in 1 .. Len(log) : log[k].turn = Newest(p)
          BY <2>0, ReplayedLines
        <5> QED BY <5>1, <5>2 DEF Logged
      <4>4. /\ Replayed(log)' = Append(Replayed(log), Newest(p))
            /\ Logged' = Logged \union ({Newest(p)} \ {0})
        BY <1>0, <2>8, <3>4, AppendSaves
      <4>5. ~Broken' => Known(p) = Saved!Turns(Replayed(log)')
        <5> SUFFICES ASSUME mishaps' = {} PROVE Known(p) = Logged'
          BY TurnsOf DEF Logged, Broken
        <5>1. Basis(p)
          BY <3>1, <3>4 DEF BasisOK, WithHandle
        <5> QED BY <4>1, <4>2, <4>4, <5>1 DEF Basis
      <4>6. Newest(p) \in KnownTurns[p] \ Saved!Turns(Replayed(log))
        BY <2>0, <4>2, <4>3, TurnsOf DEF Logged
      <4>7. ~Broken' => KnownTurns[p] = Saved!Turns(Replayed(log)')
        BY <2>0, <4>5
      <4>8. Saved!Save(p)
        BY <3>1, <3>2, <4>4, <4>6, <4>7 DEF Saved!Save, KnownTurns, Broken
      <4> QED BY <4>8 DEF Saved!Next
    <3> QED BY <3>3, <3>4
  <2>9. CASE UpdateIndex(p) \/ RetryAdopt(p)
    <3>1. /\ UNCHANGED <<log, memory, mishaps>> /\ misled \subseteq misled'
          /\ \/ UNCHANGED <<acked, misled>>
             \/ /\ acked' = acked \union {Newest(p)} /\ Saving(p)
                /\ \/ pc[p] = "index" /\ ~closing[p]
                   \/ pc[p] = "adopt" /\ Holds(p)
                   \/ misled' # {}
      <4>1. CASE UpdateIndex(p)
        BY <4>1 DEF UpdateIndex, Newest, Saving, fileVars
      <4>2. CASE RetryAdopt(p)
        BY <1>0, <4>2, RetryIs DEF Retrying, RetryAdopt, Newest, Saving, fileVars
      <4> QED BY <2>9, <4>1, <4>2
    <3>2. CASE UNCHANGED <<acked, misled>>
      BY <2>1, <3>1, <3>2
    <3>3. CASE ~UNCHANGED <<acked, misled>>
      <4>1. Newest(p) \in Known(p)
        BY <1>0, <3>1, <3>3, NewestIsKnown
      <4>2. ~Broken' => Newest(p) \in Logged
        BY <1>0, <3>1, <3>3, ConfirmedIsLogged DEF Broken
      <4>3. /\ Newest(p) \in KnownTurns[p]
            /\ ~Broken' => Newest(p) \in Saved!Turns(Replayed(log))
        BY <2>0, <4>1, <4>2, TurnsOf DEF Logged
      <4>4. KnownTurns' = KnownTurns /\ Replayed(log)' = Replayed(log) /\ Broken' \in {Broken, TRUE}
        BY <3>1 DEF KnownTurns, Replayed, Broken
      <4>5. Saved!Confirm(p)
        BY <3>1, <3>3, <4>3, <4>4 DEF Saved!Confirm, KnownTurns, Broken
      <4> QED BY <4>5 DEF Saved!Next
    <3> QED BY <3>2, <3>3
  <2>12. CASE RetryCut(p)
    <3>1. /\ UNCHANGED <<memory, acked, misled>> /\ log' = SubSeq(log, 1, Len(log'))
          /\ Len(log') \in 1 .. Len(log)
          /\ mishaps' = IF log' = log THEN mishaps ELSE mishaps \union {"cut"}
      BY <1>0, <2>12, CutFacts DEF RetryCut, handleVars
    <3> QED BY <2>1, <2>10, <3>1
  <2>13. CASE Retrying(p) /\ ~RetryAdopt(p) /\ ~RetryCut(p)
    BY <1>0, <2>1, <2>13, RetryIs
  <2> QED BY <1>3, <2>3, <2>4, <2>5, <2>6, <2>7, <2>8, <2>9, <2>11, <2>12, <2>13 DEF Process, Retrying
<1> QED BY <1>2, <1>3 DEF Next

(* SavesTurns: a session's log has each turn once, and until a mishap of the  *)
(* chain, or a retry_save that lost its lease before its UPDATE, it is only   *)
(* added to; a process saves a turn on top of every one before it, which its  *)
(* conversation has; and what commit_state or retry_save returned for is in   *)
(* the log.                                                                   *)
THEOREM TurnsAreSaved == Spec => SavesTurns
<1>1. Init => Saved!Init
  <2> SUFFICES ASSUME Init PROVE Saved!Init
    OBVIOUS
  <2>1. Replayed(log) = << >> /\ \A p \in Procs : ToSet(memory[p]) = {}
    BY NothingReplayed DEF Init
  <2> QED BY <2>1 DEF Init, Saved!Init
<1>2. Init => Inv /\ BasisOK
  <2>1. Init => BasisOK
    BY DEF Init, BasisOK, WithHandle, RetryPoints
  <2> QED BY <2>1, InvInit
<1>3. Inv /\ BasisOK /\ [Next]_vars => Inv' /\ BasisOK'
  BY InvStep, BasisStep
<1>4. Inv /\ BasisOK /\ [Next]_vars => [Saved!Next]_(Saved!vars)
  BY Refines
<1> QED BY <1>1, <1>2, <1>3, <1>4, PTL DEF Spec, SavesTurns, Saved!Spec

=============================================================================
