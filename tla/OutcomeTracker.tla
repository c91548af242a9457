--------------------------- MODULE OutcomeTracker ---------------------------
(***************************************************************************)
(* The outcome tracker of data/solana_outcomes.py: record_detection, which *)
(* the Solana scraper's coroutine calls for every launch, and the loop of  *)
(* run_forever, which takes the three snapshots of every sampled token.    *)
(*                                                                         *)
(* Both use one aiosqlite connection and therefore one SQLite transaction: *)
(* either coroutine sees what the other has written and not committed, and *)
(* a commit by either commits the statements of both. db is what the       *)
(* connection sees, disk what is committed; a crash leaves disk. Every     *)
(* awaited statement is a step.                                            *)
(*                                                                         *)
(* Rows carry what the control flow reads. The attempts column is written  *)
(* and never read, and prices, holders and statuses are not looked at by   *)
(* the loop; all of them are left out. A cycle takes its rows, which the   *)
(* code orders by first_seen_timestamp, in any order.                      *)
(***************************************************************************)
EXTENDS Integers, Sequences, FiniteSets

CONSTANTS
    Tokens,         \* mint addresses the scraper may detect
    NoToken,        \* "no token is being worked on"
    Intervals,      \* SNAPSHOT_INTERVALS, in ticks
    MaxTime,        \* bound: ticks of the clock
    MaxCrashes,     \* bound: how often the process is killed or stopped
    MaxFailures     \* bound: how often a statement raises

ASSUME TokenAssumption == NoToken \notin Tokens
ASSUME IntervalAssumption == Intervals \in Seq(Nat \ {0}) /\ Intervals # <<>>
ASSUME BoundAssumption == MaxTime \in Nat /\ MaxCrashes \in Nat /\ MaxFailures \in Nat

NoRow == -1
NumSnapshots == Len(Intervals)

VARIABLES
    db,         \* tables as the shared connection sees them
    disk,       \* tables as committed
    recorder,   \* where record_detection is suspended, for which token
    loop,       \* where _process_due_snapshots is suspended, for which token
    due,        \* tokens of the cycle's rows that are still to be worked on
    now,        \* the clock
    crashes, failures,
    torn        \* history: tokens whose detection ended between its two rows

vars == <<db, disk, recorder, loop, due, now, crashes, failures, torn>>

Idle == [pc |-> "idle", token |-> NoToken]
At(pc, t) == [pc |-> pc, token |-> t]

\* tokens: a row of tokens and its sampled flag. queue: next_snapshot_idx of
\* the row of pending. seenAt: first_seen_timestamp of that row. snaps: rows of
\* snapshots, counted by the interval they were taken for.
EmptyTables ==
    [tokens |-> [t \in Tokens |-> "none"],
     queue  |-> [t \in Tokens |-> NoRow],
     seenAt |-> [t \in Tokens |-> 0],
     snaps  |-> [t \in Tokens |-> [i \in 1..NumSnapshots |-> 0]]]

Init ==
    /\ db = EmptyTables
    /\ disk = EmptyTables
    /\ recorder = Idle
    /\ loop = Idle
    /\ due = {}
    /\ now = 0
    /\ crashes = 0
    /\ failures = 0
    /\ torn = {}

Commit == disk' = db

-----------------------------------------------------------------------------
\* record_detection: the row of tokens is looked for. (Bound: the last
\* interval of the token ends before MaxTime.)
Detect(t) ==
    /\ recorder.pc = "idle"
    /\ now + Intervals[NumSnapshots] <= MaxTime
    /\ db.tokens[t] = "none"
    /\ recorder' = At("check_pending", t)
    /\ UNCHANGED <<db, disk, loop, due, now, crashes, failures, torn>>

\* The row of pending is looked for, and without one the dice are thrown.
CheckPending ==
    /\ recorder.pc = "check_pending"
    /\ \/ /\ db.queue[recorder.token] # NoRow
          /\ recorder' = Idle
       \/ /\ db.queue[recorder.token] = NoRow
          /\ \E pc \in {"insert_pending", "insert_unsampled"} :
                recorder' = [recorder EXCEPT !.pc = pc]
    /\ UNCHANGED <<db, disk, loop, due, now, crashes, failures, torn>>

\* Mutant of InsertPending: the row of tokens is forgotten.
InsertPendingOnly ==
    LET t == recorder.token
    IN  /\ recorder.pc = "insert_pending"
        /\ db' = [db EXCEPT !.queue[t] = 0, !.seenAt[t] = now]
        /\ recorder' = [recorder EXCEPT !.pc = "commit"]
        /\ UNCHANGED <<disk, loop, due, now, crashes, failures, torn>>

InsertPending ==
    LET t == recorder.token
    IN  /\ recorder.pc = "insert_pending"
        /\ db' = [db EXCEPT !.queue[t] = 0, !.seenAt[t] = now]
        /\ recorder' = [recorder EXCEPT !.pc = "insert_sampled"]
        /\ UNCHANGED <<disk, loop, due, now, crashes, failures, torn>>

InsertToken ==
    /\ recorder.pc \in {"insert_sampled", "insert_unsampled"}
    /\ db' = [db EXCEPT !.tokens[recorder.token] =
                IF recorder.pc = "insert_sampled" THEN "sampled" ELSE "unsampled"]
    /\ recorder' = [recorder EXCEPT !.pc = "commit"]
    /\ UNCHANGED <<disk, loop, due, now, crashes, failures, torn>>

CommitDetection ==
    /\ recorder.pc = "commit"
    /\ Commit
    /\ recorder' = Idle
    /\ UNCHANGED <<db, loop, due, now, crashes, failures, torn>>

\* A statement of record_detection, or its commit, raises: on_tokens_found logs
\* it, and nothing is rolled back. What it has written stays in the transaction
\* and is committed with whatever is committed next.
RecordRaises ==
    /\ recorder.pc # "idle"
    /\ failures < MaxFailures
    /\ failures' = failures + 1
    /\ recorder' = Idle
    /\ torn' = IF recorder.pc = "insert_sampled" THEN torn \cup {recorder.token} ELSE torn
    /\ UNCHANGED <<db, disk, loop, due, now, crashes>>

-----------------------------------------------------------------------------
Finished(t) == db.queue[t] >= NumSnapshots
Due(t) == ~Finished(t) /\ now >= db.seenAt[t] + Intervals[db.queue[t] + 1]

\* Mutant of Rows: a snapshot may be taken as soon as the token is queued.
RowsAtOnce == {t \in Tokens : db.queue[t] # NoRow}

\* The rows of a cycle that the loop does not pass over: now is read once, and
\* only the loop itself changes a row of pending.
Rows == {t \in Tokens : db.queue[t] # NoRow /\ (Finished(t) \/ Due(t))}

BeginCycle ==
    /\ loop.pc = "idle"
    /\ due = {}
    /\ due' = Rows
    /\ UNCHANGED <<db, disk, recorder, loop, now, crashes, failures, torn>>

\* Mutant of DeleteRow: the row stays.
DeleteRowNot(t) ==
    /\ loop.pc = "idle" /\ t \in due /\ Finished(t)
    /\ due' = due \ {t}
    /\ loop' = At("commit", t)
    /\ UNCHANGED <<db, disk, recorder, now, crashes, failures, torn>>

\* A row whose snapshots are all taken is deleted.
DeleteRow(t) ==
    /\ loop.pc = "idle" /\ t \in due /\ Finished(t)
    /\ due' = due \ {t}
    /\ db' = [db EXCEPT !.queue[t] = NoRow]
    /\ loop' = At("commit", t)
    /\ UNCHANGED <<disk, recorder, now, crashes, failures, torn>>

\* _take_snapshot is awaited. It catches what its sources raise and always
\* returns a Snapshot.
TakeSnapshot(t) ==
    /\ loop.pc = "idle" /\ t \in due /\ ~Finished(t)
    /\ due' = due \ {t}
    /\ loop' = At("store", t)
    /\ UNCHANGED <<db, disk, recorder, now, crashes, failures, torn>>

\* Mutant of StoreSnapshot: nothing is written.
StoreNothing ==
    /\ loop.pc = "store"
    /\ loop' = [loop EXCEPT !.pc = "advance"]
    /\ UNCHANGED <<db, disk, recorder, due, now, crashes, failures, torn>>

\* _store_snapshot: without a row in tokens it logs an error and returns, and
\* the caller does not notice.
StoreSnapshot ==
    LET t == loop.token
    IN  /\ loop.pc = "store"
        /\ db' = IF db.tokens[t] = "none" THEN db
                 ELSE [db EXCEPT !.snaps[t][db.queue[t] + 1] = @ + 1]
        /\ loop' = [loop EXCEPT !.pc = "advance"]
        /\ UNCHANGED <<disk, recorder, due, now, crashes, failures, torn>>

\* Mutant of AdvanceRow: the index is not written.
AdvanceRowNot ==
    /\ loop.pc = "advance"
    /\ loop' = [loop EXCEPT !.pc = "commit"]
    /\ UNCHANGED <<db, disk, recorder, due, now, crashes, failures, torn>>

\* UPDATE pending SET next_snapshot_idx = new_idx.
AdvanceRow ==
    /\ loop.pc = "advance"
    /\ db' = [db EXCEPT !.queue[loop.token] = @ + 1]
    /\ loop' = [loop EXCEPT !.pc = "commit"]
    /\ UNCHANGED <<disk, recorder, due, now, crashes, failures, torn>>

\* A statement of _store_snapshot, or the UPDATE after it, raises: the except
\* clause counts an attempt and commits, whatever was written before.
StatementRaises ==
    /\ loop.pc \in {"store", "advance"}
    /\ failures < MaxFailures
    /\ failures' = failures + 1
    /\ loop' = [loop EXCEPT !.pc = "commit"]
    /\ UNCHANGED <<db, disk, recorder, due, now, crashes, torn>>

\* A DELETE, a commit or the except clause itself raises: the cycle is over,
\* without a commit, and the rows it had left wait for the next.
CycleRaises ==
    /\ loop.pc # "idle" \/ \E t \in due : Finished(t)
    /\ failures < MaxFailures
    /\ failures' = failures + 1
    /\ loop' = Idle
    /\ due' = {}
    /\ UNCHANGED <<db, disk, recorder, now, crashes, torn>>

CommitRow ==
    /\ loop.pc = "commit"
    /\ Commit
    /\ loop' = Idle
    /\ UNCHANGED <<db, recorder, due, now, crashes, failures, torn>>

-----------------------------------------------------------------------------
\* Time passes. A tick is a large part of the first interval (90 s), and a
\* statement waits at most busy_timeout (5 s): the clock does not tick during
\* one detection.
Tick ==
    /\ now < MaxTime
    /\ recorder.pc = "idle"
    /\ now' = now + 1
    /\ UNCHANGED <<db, disk, recorder, loop, due, crashes, failures, torn>>

\* The process is killed, or cancelled and its connection closed: what is not
\* committed is rolled back, so a detection is torn when the loop has committed
\* its row of pending alone. It starts again on the same database.
Crash ==
    /\ crashes < MaxCrashes
    /\ crashes' = crashes + 1
    /\ db' = disk
    /\ recorder' = Idle
    /\ loop' = Idle
    /\ due' = {}
    /\ torn' = torn \cup {t \in Tokens : disk.queue[t] # NoRow /\ disk.tokens[t] = "none"}
    /\ UNCHANGED <<disk, now, failures>>

Record == CheckPending \/ InsertPending \/ InsertToken \/ CommitDetection \/ RecordRaises
Loop ==
    \/ BeginCycle
    \/ \E t \in Tokens : DeleteRow(t) \/ TakeSnapshot(t)
    \/ StoreSnapshot
    \/ AdvanceRow
    \/ StatementRaises
    \/ CycleRaises
    \/ CommitRow

Next ==
    \/ \E t \in Tokens : Detect(t)
    \/ Record
    \/ Loop
    \/ Tick
    \/ Crash

Spec == Init /\ [][Next]_vars

\* Both coroutines go on, and however many detections there are the clock
\* ticks between them; no token need ever be detected.
FairSpec == Spec /\ WF_vars(Record) /\ WF_vars(Loop) /\ SF_vars(Tick)

-----------------------------------------------------------------------------
Tables ==
    [tokens : [Tokens -> {"none", "sampled", "unsampled"}],
     queue  : [Tokens -> {NoRow} \cup 0..NumSnapshots],
     seenAt : [Tokens -> 0..MaxTime],
     snaps  : [Tokens -> [1..NumSnapshots -> Nat]]]

\* Every variable has its type.
TypeOK ==
    /\ db \in Tables
    /\ disk \in Tables
    /\ recorder \in [pc : {"idle", "check_pending", "insert_pending", "insert_sampled",
                           "insert_unsampled", "commit"},
                     token : Tokens \cup {NoToken}]
    /\ loop \in [pc : {"idle", "store", "advance", "commit"}, token : Tokens \cup {NoToken}]
    /\ due \subseteq Tokens
    /\ now \in 0..MaxTime
    /\ crashes \in 0..MaxCrashes
    /\ failures \in 0..MaxFailures
    /\ torn \subseteq Tokens

\* How many snapshots the tables say were taken of a sampled token.
Taken(tables, t) ==
    IF tables.queue[t] = NoRow THEN NumSnapshots ELSE tables.queue[t]

\* The index of a sampled token moves only past intervals whose snapshot is in
\* the snapshots table, in memory and on disk, whatever commits, fails or
\* crashes in between.
AdvancedMeansStored ==
    \A tables \in {db, disk} : \A t \in Tokens :
        tables.tokens[t] = "sampled" =>
            \A i \in 1..Taken(tables, t) : tables.snaps[t][i] > 0

\* Without faults an interval is snapshotted once, and every crash and every
\* raising statement repeats at most one: a commit by record_detection, or by
\* the except clause, may separate a snapshot from the index it advances.
RepeatsNeedFaults ==
    \A t \in Tokens : \A i \in 1..NumSnapshots :
        db.snaps[t][i] <= 1 + crashes + failures

\* A snapshot is not taken before its time, nor before the one before it.
InTimeAndOrder ==
    \A t \in Tokens : \A i \in 1..NumSnapshots :
        db.snaps[t][i] > 0 =>
            /\ now >= db.seenAt[t] + Intervals[i]
            /\ i > 1 => db.snaps[t][i - 1] > 0

\* A queued token whose detection is over has its row in tokens, without which
\* every snapshot of it is dropped. Only a detection that a crash or a raising
\* statement tore between its two rows leaves it without, and then for good.
QueuedTokenHasRow ==
    \A t \in Tokens \ torn :
        db.queue[t] # NoRow /\ recorder.token # t => db.tokens[t] # "none"

\* What is committed is not taken back, by whichever coroutine commits next and
\* whatever it commits of the other's, nor by a crash: a row of tokens stays as
\* it is, a snapshot stays, and the index of a sampled token does not go back.
Extends(new, old) ==
    \A t \in Tokens :
        /\ old.tokens[t] # "none" => new.tokens[t] = old.tokens[t]
        /\ \A i \in 1..NumSnapshots : new.snaps[t][i] >= old.snaps[t][i]
        /\ old.tokens[t] = "sampled" => Taken(new, t) >= Taken(old, t)

CommittedIsKept == [][Extends(disk', disk)]_vars

\* Every queued token leaves the queue in the end.
QueueDrains ==
    \A t \in Tokens : db.queue[t] # NoRow ~> db.queue[t] = NoRow

\* Every token committed as sampled is snapshotted at every interval, and the
\* snapshots are committed.
EverySnapshotTaken ==
    \A t \in Tokens :
        disk.tokens[t] = "sampled" ~>
            \A i \in 1..NumSnapshots : disk.snaps[t][i] > 0
-----------------------------------------------------------------------------
(* The inductive invariant: what the proofs add to the properties above.   *)

\* What the tables say of a token, at any time and in either copy.
RowOK(tables, t) ==
    /\ tables.tokens[t] = "none" => \A i \in 1..NumSnapshots : tables.snaps[t][i] = 0
    /\ tables.tokens[t] = "unsampled" => tables.queue[t] = NoRow
    /\ tables.tokens[t] = "sampled" =>
          \A i \in 1..Taken(tables, t) : tables.snaps[t][i] > 0
    /\ \A i \in 1..NumSnapshots : tables.snaps[t][i] > 0 =>
          /\ now >= tables.seenAt[t] + Intervals[i]
          /\ i > 1 => tables.snaps[t][i - 1] > 0

TablesOK == \A t \in Tokens : RowOK(db, t) /\ RowOK(disk, t)

\* Nobody else inserts the token that record_detection works on, and until its
\* row of pending is due nobody works on that.
RecorderOK ==
    LET t == recorder.token
    IN  /\ recorder.pc = "idle" <=> t = NoToken
        /\ recorder.pc \notin {"idle", "commit"} => db.tokens[t] = "none"
        /\ recorder.pc = "commit" => db.tokens[t] # "none"
        /\ recorder.pc = "check_pending" => t \in torn \/ db.queue[t] = NoRow
        /\ recorder.pc \in {"insert_pending", "insert_unsampled"} => db.queue[t] = NoRow
        /\ recorder.pc = "insert_sampled" => db.queue[t] = 0 /\ db.seenAt[t] = now

\* The rows of a cycle stay due until the loop works on them.
LoopOK ==
    LET t == loop.token
    IN  /\ \A d \in due : db.queue[d] # NoRow /\ (Finished(d) \/ Due(d))
        /\ loop.pc # "idle" => t \in Tokens \ due
        /\ loop.pc \in {"store", "advance"} => db.queue[t] # NoRow /\ Due(t)
        /\ loop.pc = "advance" /\ db.tokens[t] = "sampled" => db.snaps[t][db.queue[t] + 1] > 0

\* A snapshot is repeated once by every fault, and is one ahead of the index
\* until that is written; on disk, until the crash that makes it a repeat.
Stored(tables, t, i) == IF i <= Taken(tables, t) THEN 1 ELSE 0
Ahead(t, i) == IF loop = At("advance", t) /\ i = db.queue[t] + 1 THEN 1 ELSE 0

RepeatsOK ==
    \A t \in Tokens : \A i \in 1..NumSnapshots :
        /\ db.snaps[t][i] <= Stored(db, t, i) + Ahead(t, i) + crashes + failures
        /\ disk.snaps[t][i] <= Stored(disk, t, i) + 1 + crashes + failures

OutcomeInv ==
    /\ TypeOK
    /\ TablesOK
    /\ RecorderOK
    /\ LoopOK
    /\ RepeatsOK
    /\ QueuedTokenHasRow
=============================================================================
