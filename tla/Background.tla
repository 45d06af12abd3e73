----------------------------- MODULE Background -----------------------------
(***************************************************************************)
(* Execution sessions (background_tasks.py): commands that outlive the     *)
(* tool call that started them.  A session has its process, a reader that  *)
(* collects what the process prints, and a watcher that waits for it,      *)
(* gives the reader a bounded time to drain and reports the end.  Agents   *)
(* and the interface poll, write to and stop it, and close() stop all.    *)
(*                                                                         *)
(* One output stream per session, in unit chunks: what the buffers hold    *)
(* is a function of how many were appended.  Processes are the operating   *)
(* system's: they print, exit, leave a descendant that holds their pipe,   *)
(* read their input or not, and die when killed, or not in time.           *)
(***************************************************************************)
EXTENDS Integers, FiniteSets, FiniteSetsExt

CONSTANTS
  MaxTasks,      \* bound: sessions ever started; the n-th has the id n
  Interactive,   \* those with a terminal
  ReadsInput,    \* those whose program reads what is written to it
  MayResist,     \* may a process outlive terminate_process_tree, or a terminal's
                 \* (a setuid program) refuse its signals?
  LogsMayFail,   \* those whose log may be refused (disk full)
  Limit,         \* TASK_OUTPUT_MAX_BYTES
  Prints,        \* bound: how much each process prints at most
  MaxRunning,    \* MAX_RUNNING_TASKS
  MaxRetained    \* MAX_RETAINED_TASKS

ASSUME BoundsAssumption == MaxTasks \in Nat /\ Prints \in [1 .. MaxTasks -> Nat] /\ Limit \in Nat
ASSUME RetentionAssumption == MaxRunning \in Nat /\ MaxRetained \in Nat /\ MaxRunning <= MaxRetained
ASSUME InteractiveAssumption == Interactive \union ReadsInput \union LogsMayFail \subseteq 1 .. MaxTasks
ASSUME MayResistAssumption == MayResist \in BOOLEAN

Tasks == 1 .. MaxTasks

VARIABLES
  status,    \* of the record, "none" before and "evicted" after it exists
  process,   \* "none", "alive", "zero", "nonzero"
  held,      \* does a descendant hold the pipe of a process that exited?
  printed,   \* how much the process printed
  open,      \* is the read end open?
  reader,    \* the reader thread runs
  total,     \* _OutputBytes.total
  cursor,    \* stdout_cursor
  condition, \* is record.condition held by a write that has not returned?
  interrupted, \* interrupt_requested
  stopping,  \* stop_requested
  watcher,   \* where the watcher is
  stop,      \* where a stop() of the session is; it holds termination_lock
  close,     \* where close() is
  doomed,    \* the sessions close() has yet to stop
  closer,    \* the session whose stop() close() is in, 0 = none
  accounted, \* history: the bytes incremental answers gave or reported as omitted
  late,      \* history: the drain time ran out, or the end was forced
  unlogged,  \* history: the reader gave up because of its log
  announced  \* history: terminal events appended

proc    == <<process, held, printed>>
output  == <<total, cursor, accounted>>
flags   == <<interrupted, stopping>>
closing == <<close, doomed, closer>>
vars == <<status, proc, open, reader, output, condition, flags, watcher, stop, closing,
          late, unlogged, announced>>

Terminal == {"completed", "failed", "interrupted", "stopped"}
Statuses == {"none", "running", "evicted"} \union Terminal

Init ==
  /\ status = [t \in Tasks |-> "none"]
  /\ process = [t \in Tasks |-> "none"]
  /\ held = [t \in Tasks |-> FALSE]
  /\ printed = [t \in Tasks |-> 0]
  /\ open = [t \in Tasks |-> FALSE]
  /\ reader = [t \in Tasks |-> FALSE]
  /\ total = [t \in Tasks |-> 0]
  /\ cursor = [t \in Tasks |-> 0]
  /\ condition = [t \in Tasks |-> FALSE]
  /\ interrupted = [t \in Tasks |-> FALSE]
  /\ stopping = [t \in Tasks |-> FALSE]
  /\ watcher = [t \in Tasks |-> "none"]
  /\ stop = [t \in Tasks |-> "none"]
  /\ close = "open"
  /\ doomed = {}
  /\ closer = 0
  /\ accounted = [t \in Tasks |-> 0]
  /\ late = [t \in Tasks |-> FALSE]
  /\ unlogged = [t \in Tasks |-> FALSE]
  /\ announced = [t \in Tasks |-> 0]

Set(f, t, value) == [f EXCEPT ![t] = value]

Running == {t \in Tasks : status[t] = "running"}
Ended   == {t \in Tasks : status[t] \in Terminal}
Exited(t) == process[t] \in {"zero", "nonzero"}

---------------------------------------------------------------------------
(* _OutputBytes: the first half of the limit, the last half, and a window  *)
(* of the whole limit for incremental answers.                             *)

Head == Limit \div 2
Tail == Limit - Head

Rendered(n) == (1 .. n) \intersect (1 .. Head \union n - Tail + 1 .. n)

\* Mutant: the window is given again from its start.
SinceStart(from, n) ==
  LET start == Max({0, n - Limit}) IN
  IF from = 0 THEN [bytes |-> Rendered(n), gap |-> n - Cardinality(Rendered(n))]
  ELSE [bytes |-> start + 1 .. n, gap |-> Max({0, start - from})]

(* What an incremental answer contains and what it reports as omitted. *)
Since(from, n) ==
  LET start == Max({0, n - Limit}) IN
  IF from = 0 THEN [bytes |-> Rendered(n), gap |-> n - Cardinality(Rendered(n))]
  ELSE [bytes |-> Max({from, start}) + 1 .. n, gap |-> Max({0, start - from})]

---------------------------------------------------------------------------
(* Starting a session, under the manager's lock.                           *)

\* Mutant: room is made one record too late.
EvictedLate ==
  IF Cardinality(Running \union Ended) <= MaxRetained THEN status
  ELSE Set(status, Min(Ended), "evicted")

(* The oldest ended record makes room. *)
Evicted ==
  IF Cardinality(Running \union Ended) < MaxRetained THEN status
  ELSE Set(status, Min(Ended), "evicted")

\* Mutant: a closed manager still starts sessions.
MayStartClosed(t) ==
  /\ status[t] = "none" /\ \A u \in 1 .. t - 1 : status[u] # "none"
  /\ Cardinality(Running) < MaxRunning

MayStart(t) ==
  /\ close = "open"
  /\ status[t] = "none" /\ \A u \in 1 .. t - 1 : status[u] # "none"
  /\ Cardinality(Running) < MaxRunning

(* With its record goes everything an answer could still tell.            *)
Forget(f, value) == [t \in Tasks |-> IF Evicted[t] = "evicted" THEN value ELSE f[t]]

MakeRoom ==
  /\ printed' = Forget(printed, 0) /\ total' = Forget(total, 0)
  /\ cursor' = Forget(cursor, 0) /\ accounted' = Forget(accounted, 0)
  /\ interrupted' = Forget(interrupted, FALSE) /\ stopping' = Forget(stopping, FALSE)
  /\ late' = Forget(late, FALSE) /\ unlogged' = Forget(unlogged, FALSE)

Start(t) ==
  /\ MayStart(t)
  /\ MakeRoom
  /\ status' = Set(Evicted, t, "running")
  /\ process' = Set(process, t, "alive")
  /\ open' = Set(open, t, TRUE)
  /\ reader' = Set(reader, t, TRUE)
  /\ watcher' = Set(watcher, t, "waiting")
  /\ UNCHANGED <<held, condition, stop, closing, announced>>

(* The process cannot be created; the room was made already. *)
StartFails ==
  /\ \E t \in Tasks : MayStart(t)
  /\ MakeRoom
  /\ status' = Evicted
  /\ UNCHANGED <<process, held, open, reader, condition, watcher, stop, closing, announced>>

---------------------------------------------------------------------------
(* The process.                                                            *)

Emit(t) ==
  /\ process[t] = "alive" \/ held[t]
  /\ status[t] # "evicted"
  /\ printed[t] < Prints[t]
  /\ printed' = Set(printed, t, printed[t] + 1)
  /\ UNCHANGED <<status, process, held, open, reader, output, condition, flags, watcher,
                 stop, closing, late, unlogged, announced>>

Exit(t) ==
  /\ process[t] = "alive"
  /\ \E code \in {"zero", "nonzero"} : process' = Set(process, t, code)
  /\ \E descendant \in IF t \in Interactive THEN {FALSE} ELSE BOOLEAN :
       held' = Set(held, t, descendant)
  /\ UNCHANGED <<status, printed, open, reader, output, condition, flags, watcher, stop,
                 closing, late, unlogged, announced>>

DescendantExits(t) ==
  /\ held[t]
  /\ held' = Set(held, t, FALSE)
  /\ UNCHANGED <<status, process, printed, open, reader, output, condition, flags, watcher,
                 stop, closing, late, unlogged, announced>>

---------------------------------------------------------------------------
(* The reader: _read_stream, _read_interactive.                            *)

Read(t) ==
  /\ reader[t] /\ open[t] /\ ~condition[t]
  /\ total[t] < printed[t]
  /\ total' = Set(total, t, total[t] + 1)
  /\ UNCHANGED <<status, proc, open, reader, cursor, accounted, condition, flags, watcher,
                 stop, closing, late, unlogged, announced>>

(* The end of the stream, or a read end that somebody else has closed. *)
ReaderEnds(t) ==
  /\ reader[t]
  /\ ~open[t] \/ (Exited(t) /\ ~held[t] /\ total[t] = printed[t])
  /\ reader' = Set(reader, t, FALSE)
  /\ UNCHANGED <<status, proc, open, output, condition, flags, watcher, stop, closing,
                 late, unlogged, announced>>

(* Its log cannot be opened, or refuses a chunk that was read: the thread   *)
(* ends without a word, and nobody collects what comes now.                 *)
ReaderFails(t) ==
  /\ t \in LogsMayFail
  /\ reader[t]
  /\ total[t] = 0 \/ (open[t] /\ total[t] < printed[t])
  /\ reader' = Set(reader, t, FALSE)
  /\ unlogged' = Set(unlogged, t, TRUE)
  /\ UNCHANGED <<status, proc, open, output, condition, flags, watcher, stop, closing,
                 late, announced>>

---------------------------------------------------------------------------
(* The watcher: _watch and _finish.                                        *)

(* release_process_tree closes the terminal before the reader is joined. *)
Reap(t) ==
  /\ watcher[t] = "waiting" /\ Exited(t)
  /\ open' = IF t \in Interactive THEN Set(open, t, FALSE) ELSE open
  /\ watcher' = Set(watcher, t, "draining")
  /\ UNCHANGED <<status, proc, reader, output, condition, flags, stop, closing, late,
                 unlogged, announced>>

\* Mutant: the end is reported without joining the reader.
DrainNothing(t) ==
  /\ watcher[t] = "draining"
  /\ watcher' = Set(watcher, t, "finishing")
  /\ UNCHANGED <<status, proc, open, reader, output, condition, flags, stop, closing, late,
                 unlogged, announced>>

Drained(t) ==
  /\ watcher[t] = "draining" /\ ~reader[t]
  /\ watcher' = Set(watcher, t, "finishing")
  /\ UNCHANGED <<status, proc, open, reader, output, condition, flags, stop, closing, late,
                 unlogged, announced>>

(* A reader that can read is done within the time it has. *)
DrainTimesOut(t) ==
  /\ watcher[t] = "draining" /\ reader[t]
  /\ held[t] \/ condition[t]
  /\ watcher' = Set(watcher, t, "finishing")
  /\ late' = Set(late, t, TRUE)
  /\ UNCHANGED <<status, proc, open, reader, output, condition, flags, stop, closing,
                 unlogged, announced>>

Outcome(t) ==
  IF stopping[t] THEN "stopped"
  ELSE IF interrupted[t] /\ process[t] = "nonzero" THEN "interrupted"
  ELSE IF process[t] = "zero" THEN "completed" ELSE "failed"

\* Mutant: the watcher does not look whether the end was reported already.
FinishAgain(t) ==
  /\ watcher[t] = "finishing" /\ ~condition[t]
  /\ status' = IF status[t] = "running" THEN Set(status, t, Outcome(t)) ELSE status
  /\ announced' = Set(announced, t, announced[t] + 1)
  /\ watcher' = Set(watcher, t, "done")
  /\ UNCHANGED <<proc, open, reader, output, condition, flags, stop, closing, late, unlogged>>

Finish(t) ==
  /\ watcher[t] = "finishing" /\ ~condition[t]
  /\ \/ /\ status[t] = "running"
        /\ status' = Set(status, t, Outcome(t))
        /\ announced' = Set(announced, t, announced[t] + 1)
     \/ status[t] # "running" /\ UNCHANGED <<status, announced>>
  /\ watcher' = Set(watcher, t, "done")
  /\ UNCHANGED <<proc, open, reader, output, condition, flags, stop, closing, late, unlogged>>

---------------------------------------------------------------------------
(* Agents and the interface.                                               *)

(* _consume: an incremental poll, wait, or the answer of a write. *)
Consume(t) ==
  /\ status[t] \in Terminal \union {"running"} /\ ~condition[t]
  /\ cursor[t] < total[t]
  /\ LET answer == Since(cursor[t], total[t]) IN
     /\ accounted' = Set(accounted, t, accounted[t] + Cardinality(answer.bytes) + answer.gap)
     /\ cursor' = Set(cursor, t, total[t])
  /\ UNCHANGED <<status, proc, open, reader, total, condition, flags, watcher, stop,
                 closing, late, unlogged, announced>>

(* write() holds the condition until the program takes the input. *)
Write(t) ==
  /\ t \in Interactive /\ status[t] = "running" /\ ~condition[t]
  /\ condition' = Set(condition, t, TRUE)
  /\ interrupted' = Set(interrupted, t, FALSE)
  /\ UNCHANGED <<status, proc, open, reader, output, stopping, watcher, stop, closing,
                 late, unlogged, announced>>

WriteReturns(t) ==
  /\ condition[t]
  /\ t \in ReadsInput \/ Exited(t)
  /\ condition' = Set(condition, t, FALSE)
  /\ UNCHANGED <<status, proc, open, reader, output, flags, watcher, stop, closing, late,
                 unlogged, announced>>

Interrupt(t) ==
  /\ t \in Interactive /\ status[t] = "running" /\ ~condition[t]
  /\ interrupted' = Set(interrupted, t, TRUE)
  /\ UNCHANGED <<status, proc, open, reader, output, condition, stopping, watcher, stop,
                 closing, late, unlogged, announced>>

---------------------------------------------------------------------------
(* stop(), called by an Agent, the user or close().  One at a time has the *)
(* termination lock; the others then find the session ended.               *)

CallStop(t) ==
  /\ status[t] = "running" /\ stop[t] = "none"
  /\ stop' = Set(stop, t, "called")
  /\ UNCHANGED <<status, proc, open, reader, output, condition, flags, watcher, closing,
                 late, unlogged, announced>>

(* stop() returns to its caller; close() then has one session less to stop. *)
Returns(t) ==
  /\ stop' = Set(stop, t, "none")
  /\ doomed' = IF closer = t THEN doomed \ {t} ELSE doomed
  /\ closer' = IF closer = t THEN 0 ELSE closer
  /\ UNCHANGED close

RequestStop(t) ==
  /\ stop[t] = "called" /\ ~condition[t]
  /\ \/ /\ status[t] = "running"
        /\ stopping' = Set(stopping, t, TRUE)
        /\ stop' = Set(stop, t, "killing")
        /\ UNCHANGED closing
     \/ /\ status[t] # "running"
        /\ Returns(t)
        /\ UNCHANGED stopping
  /\ UNCHANGED <<status, proc, open, reader, output, condition, interrupted, watcher,
                 late, unlogged, announced>>

(* terminate_process_tree: the process and its group, in bounded time. *)
Killed(t) ==
  IF process[t] = "alive" THEN Set(process, t, "nonzero") ELSE process

Kill(t) ==
  /\ stop[t] = "killing"
  /\ \/ process' = Killed(t) /\ held' = Set(held, t, FALSE)
     \/ MayResist /\ UNCHANGED <<process, held>>
  /\ stop' = Set(stop, t, "waiting")
  /\ UNCHANGED <<status, printed, open, reader, output, condition, flags, watcher,
                 closing, late, unlogged, announced>>

(* os.killpg refuses a terminal's signal with an error that nothing on the   *)
(* way catches: stop() raises, and so does a close() that called it.         *)
KillRaises(t) ==
  /\ stop[t] = "killing"
  /\ MayResist /\ t \in Interactive /\ process[t] = "alive"
  /\ stop' = Set(stop, t, "none")
  /\ \/ closer = t /\ close' = "failed" /\ doomed' = {} /\ closer' = 0
     \/ closer # t /\ UNCHANGED closing
  /\ UNCHANGED <<status, proc, open, reader, output, condition, flags, watcher, late,
                 unlogged, announced>>

(* The wait is longer than a kill and a drain: it ends without a status    *)
(* only if the process resisted.                                           *)
ForceStopped(t) ==
  /\ stop[t] = "waiting" /\ ~condition[t] /\ status[t] = "running"
  /\ process[t] = "alive"
  /\ status' = Set(status, t, "stopped")
  /\ late' = Set(late, t, TRUE)
  /\ announced' = Set(announced, t, announced[t] + 1)
  /\ UNCHANGED <<proc, open, reader, output, condition, flags, watcher, stop, closing, unlogged>>

(* _join_record_threads waits, in bounded time, and closes the pipe of a   *)
(* reader that is still alive.  Where wait() finds the record evicted,     *)
(* stop() raises instead.                                                  *)
Join(t) ==
  /\ stop[t] = "waiting" /\ ~condition[t] /\ status[t] # "running"
  /\ \/ open' = IF reader[t] /\ t \notin Interactive THEN Set(open, t, FALSE) ELSE open
     \/ status[t] = "evicted" /\ UNCHANGED open
  /\ Returns(t)
  /\ UNCHANGED <<status, proc, reader, output, condition, flags, watcher, late, unlogged,
                 announced>>

---------------------------------------------------------------------------
(* close().                                                                *)

Close ==
  /\ close = "open"
  /\ close' = "stopping"
  /\ doomed' = Running
  /\ UNCHANGED <<status, proc, open, reader, output, condition, flags, watcher, stop, closer,
                 late, unlogged, announced>>

(* It stops the sessions that ran then, one after the other. *)
CloseStops(t) ==
  /\ closer = 0 /\ doomed # {} /\ t = Min(doomed)
  /\ stop[t] = "none"
  /\ stop' = Set(stop, t, "called")
  /\ closer' = t
  /\ UNCHANGED <<status, proc, open, reader, output, condition, flags, watcher, close, doomed,
                 late, unlogged, announced>>

(* What is still alive is killed, and every thread joined in bounded time;  *)
(* a terminal that refuses the signal ends this as it ends a stop().        *)
CloseReturns ==
  /\ close = "stopping" /\ doomed = {}
  /\ LET alive == {t \in Running \union Ended : process[t] = "alive"} IN
     \E dead \in IF MayResist THEN SUBSET alive ELSE {alive} :
       /\ process' = [t \in Tasks |-> IF t \in dead THEN "nonzero" ELSE process[t]]
       /\ \/ close' = "closed"
          \/ (alive \ dead) \intersect Interactive # {} /\ close' = "failed"
  /\ UNCHANGED <<status, held, printed, open, reader, output, condition, flags, watcher,
                 stop, doomed, closer, late, unlogged, announced>>

---------------------------------------------------------------------------
Watch(t) == Reap(t) \/ Drained(t) \/ DrainTimesOut(t) \/ Finish(t)
Reader(t) == Read(t) \/ ReaderEnds(t) \/ ReaderFails(t)
Stopper(t) == RequestStop(t) \/ Kill(t) \/ KillRaises(t) \/ ForceStopped(t) \/ Join(t)

Next ==
  \/ StartFails \/ Close \/ CloseReturns
  \/ \E t \in Tasks :
       \/ Start(t) \/ Emit(t) \/ Exit(t) \/ DescendantExits(t)
       \/ Reader(t) \/ Watch(t)
       \/ Consume(t) \/ Write(t) \/ WriteReturns(t) \/ Interrupt(t)
       \/ CallStop(t) \/ CloseStops(t) \/ Stopper(t)

Spec == Init /\ [][Next]_vars

(* The threads of the manager run, and a write returns when the program    *)
(* reads.  SF: users may keep a condition or a lock busy, not for ever.    *)
(* Threads is one formula because each of its steps is taken finitely      *)
(* often in the life of a session: fair to the whole is fair to each.  A   *)
(* terminal's stop() may be refused and called for ever, and is apart.     *)
(* Programs need not print, exit or die; users need not do anything.       *)
Threads ==
  \/ CloseReturns
  \/ \E t \in Tasks : Reader(t) \/ Watch(t) \/ CloseStops(t)
  \/ \E t \in Tasks \ Interactive : Stopper(t)

FairSpec ==
  /\ Spec
  /\ SF_vars(Threads)
  /\ \A t \in Interactive : SF_vars(Stopper(t)) /\ WF_vars(WriteReturns(t))

---------------------------------------------------------------------------
TypeOK ==
  /\ status \in [Tasks -> Statuses]
  /\ Cardinality(Running) <= MaxRunning
  /\ Cardinality(Running \union Ended) <= MaxRetained
  /\ process \in [Tasks -> {"none", "alive", "zero", "nonzero"}]
  /\ held \in [Tasks -> BOOLEAN] /\ open \in [Tasks -> BOOLEAN]
  /\ reader \in [Tasks -> BOOLEAN] /\ condition \in [Tasks -> BOOLEAN]
  /\ \A t \in Tasks : cursor[t] \in 0 .. total[t] /\ total[t] \in 0 .. printed[t]
                      /\ printed[t] \in 0 .. Prints[t]
  /\ interrupted \in [Tasks -> BOOLEAN] /\ stopping \in [Tasks -> BOOLEAN]
  /\ watcher \in [Tasks -> {"none", "waiting", "draining", "finishing", "done"}]
  /\ stop \in [Tasks -> {"none", "called", "killing", "waiting"}]
  /\ close \in {"open", "stopping", "closed", "failed"} /\ doomed \subseteq Tasks
  /\ closer \in Tasks \union {0}
  /\ accounted \in [Tasks -> Nat]
  /\ late \in [Tasks -> BOOLEAN] /\ unlogged \in [Tasks -> BOOLEAN] /\ announced \in [Tasks -> 0 .. 2]

(* Incremental answers skip nothing silently and repeat nothing: up to the *)
(* cursor, every byte was given once or counted in a reported gap, however *)
(* far the cursor fell behind the head, the tail and the window.           *)
EveryByteAccounted == accounted = cursor

(* A session that ended by itself is reported only with all its output     *)
(* collected: a terminal status in an answer means nothing more to come.   *)
(* Excepted are a reader that gave up because of its log, which nothing    *)
(* reports, and terminals, whose read end the watcher closes itself.       *)
EndHasAllOutput ==
  \A t \in Ended : \/ late[t] \/ unlogged[t] \/ t \in Interactive \/ stopping[t]
                  \/ total[t] = printed[t]

(* Every process that exits is reported, and every session that a stop     *)
(* declares stopped, and none of them twice, although the watcher and a    *)
(* stop() that gave up waiting may both come to report it.                 *)
EndIsReported ==
  \A t \in Tasks : Exited(t) \/ status[t] \in Terminal ~> [](announced[t] = 1)

(* close() ends, whatever users, readers and watchers do meanwhile, and    *)
(* leaves nothing: from then on no record says running, and no process is  *)
(* alive that was not told to stop.  Excepted is a close() that raised,    *)
(* because a terminal refused its signal: it stops no further session.     *)
CloseEnds ==
  close = "stopping" ~>
    [](\/ close = "failed"
       \/ /\ close = "closed"
          /\ Running = {}
          /\ \A t \in Ended : process[t] = "alive" => stopping[t])
=============================================================================
