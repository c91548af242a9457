------------------------ MODULE OutcomeTrackerProofs ------------------------
(***************************************************************************)
(* Proofs about OutcomeTracker, for any tokens, intervals and bounds, with *)
(* the one coroutine of record_detection and the loop of run_forever.      *)
(***************************************************************************)
EXTENDS OutcomeTracker, TLAPS

\* There is an interval, and each is at least a tick long.
LEMMA Snapshots ==
    /\ NumSnapshots \in Nat \ {0}
    /\ \A i \in 1..NumSnapshots : Intervals[i] \in Nat \ {0}
BY IntervalAssumption DEF NumSnapshots

\* Empty tables are consistent.
LEMMA InitOutcome == Init => OutcomeInv
<1> SUFFICES ASSUME Init PROVE OutcomeInv
    OBVIOUS
<1> USE Snapshots DEF NoRow
<1>1. db = EmptyTables /\ disk = EmptyTables
    BY DEF Init
<1>2. EmptyTables \in Tables
    BY BoundAssumption DEF EmptyTables, Tables
<1>3. TypeOK
    BY <1>1, <1>2, BoundAssumption DEF Init, TypeOK, Idle
<1>4. TablesOK
    BY <1>1 DEF TablesOK, RowOK, EmptyTables, Taken
<1>5. RecorderOK /\ LoopOK
    BY DEF Init, RecorderOK, LoopOK, Idle
<1>6. RepeatsOK
    BY <1>1 DEF Init, RepeatsOK, EmptyTables, Stored, Ahead, Taken
<1>7. QueuedTokenHasRow
    BY <1>1 DEF QueuedTokenHasRow, EmptyTables
<1> QED
    BY <1>3, <1>4, <1>5, <1>6, <1>7 DEF OutcomeInv

\* A step that changes no table keeps what the tables say, also after a tick.
LEMMA SameTables ==
    ASSUME TypeOK, TypeOK', TablesOK, UNCHANGED <<db, disk>>, now' >= now
    PROVE  TablesOK'
<1> SUFFICES ASSUME NEW t \in Tokens PROVE RowOK(db, t)' /\ RowOK(disk, t)'
    BY DEF TablesOK
<1> USE Snapshots
<1>1. /\ RowOK(db, t) /\ RowOK(disk, t)
    BY DEF TablesOK
<1>2. /\ db.seenAt[t] \in Nat /\ disk.seenAt[t] \in Nat
      /\ now \in Nat /\ now' \in Nat
    BY BoundAssumption DEF TypeOK, Tables
<1>3. db' = db /\ disk' = disk
    OBVIOUS
<1> QED
    BY <1>1, <1>2, <1>3 DEF RowOK, Taken

\* The numbers of which RepeatsOK speaks.
LEMMA Numbers ==
    ASSUME TypeOK, NEW t \in Tokens, NEW i \in 1..NumSnapshots
    PROVE  /\ db.snaps[t][i] \in Nat /\ disk.snaps[t][i] \in Nat
           /\ db.queue[t] \in {NoRow} \cup 0..NumSnapshots
           /\ Stored(db, t, i) \in 0..1 /\ Stored(disk, t, i) \in 0..1
           /\ Ahead(t, i) \in 0..1
           /\ crashes \in Nat /\ failures \in Nat
<1>1. Stored(db, t, i) \in 0..1 /\ Stored(disk, t, i) \in 0..1 /\ Ahead(t, i) \in 0..1
    BY DEF Stored, Ahead
<1>2. crashes \in Nat /\ failures \in Nat
    BY BoundAssumption DEF TypeOK
<1>3. /\ db.snaps[t][i] \in Nat /\ disk.snaps[t][i] \in Nat
      /\ db.queue[t] \in {NoRow} \cup 0..NumSnapshots
    BY DEF TypeOK, Tables
<1> QED
    BY <1>1, <1>2, <1>3

\* A fault that changes no table allows for one more of every snapshot.
LEMMA FaultPays ==
    ASSUME OutcomeInv, TypeOK', UNCHANGED <<db, disk>>,
           crashes' + failures' = crashes + failures + 1
    PROVE  RepeatsOK'
<1> SUFFICES ASSUME NEW t \in Tokens, NEW i \in 1..NumSnapshots
             PROVE  /\ db.snaps[t][i] <= (Stored(db, t, i) + Ahead(t, i) + crashes + failures)'
                    /\ disk.snaps[t][i] <= (Stored(disk, t, i) + 1 + crashes + failures)'
    BY DEF RepeatsOK
<1>1. /\ db.snaps[t][i] <= Stored(db, t, i) + Ahead(t, i) + crashes + failures
      /\ disk.snaps[t][i] <= Stored(disk, t, i) + 1 + crashes + failures
    BY DEF OutcomeInv, RepeatsOK
<1>2. Stored(db, t, i)' = Stored(db, t, i) /\ Stored(disk, t, i)' = Stored(disk, t, i)
    BY DEF Stored, Taken
<1>3. Ahead(t, i)' \in 0..1 /\ crashes' \in Nat /\ failures' \in Nat
    BY BoundAssumption DEF Ahead, TypeOK
<1> QED
    BY <1>1, <1>2, <1>3, Numbers DEF OutcomeInv

\* A commit puts on disk what is at most one snapshot ahead of its index.
LEMMA CommitPays ==
    ASSUME OutcomeInv, disk' = db, UNCHANGED <<db, crashes, failures>>,
           loop' = loop \/ loop.pc = "commit"
    PROVE  RepeatsOK'
<1> SUFFICES ASSUME NEW t \in Tokens, NEW i \in 1..NumSnapshots
             PROVE  /\ db.snaps[t][i] <= Stored(db, t, i)' + Ahead(t, i)' + crashes + failures
                    /\ db.snaps[t][i] <= Stored(db, t, i) + 1 + crashes + failures
    BY DEF RepeatsOK, Stored, Taken
<1>1. db.snaps[t][i] <= Stored(db, t, i) + Ahead(t, i) + crashes + failures
    BY DEF OutcomeInv, RepeatsOK
<1>2. Stored(db, t, i)' = Stored(db, t, i)
    BY DEF Stored, Taken
<1>3. Ahead(t, i)' = Ahead(t, i) \/ Ahead(t, i) = 0
    BY DEF Ahead, At
<1>4. Ahead(t, i)' \in 0..1
    BY DEF Ahead
<1> QED
    BY <1>1, <1>2, <1>3, <1>4, Numbers DEF OutcomeInv

-----------------------------------------------------------------------------
\* The detection begins: a token without a row in tokens is torn, or is not
\* queued either.
LEMMA DetectKeeps == ASSUME OutcomeInv, NEW t \in Tokens, Detect(t) PROVE OutcomeInv'
<1> USE DEF Detect, At
<1>1. TypeOK'
    BY DEF OutcomeInv, TypeOK
<1>2. TablesOK'
    BY <1>1, SameTables DEF OutcomeInv, TypeOK
<1>3. RecorderOK'
    BY TokenAssumption DEF OutcomeInv, RecorderOK, QueuedTokenHasRow
<1>4. LoopOK'
    BY DEF OutcomeInv, LoopOK, Finished, Due
<1>5. RepeatsOK'
    BY DEF OutcomeInv, RepeatsOK, Stored, Ahead, Taken
<1>6. QueuedTokenHasRow'
    BY TokenAssumption DEF OutcomeInv, QueuedTokenHasRow, RecorderOK
<1> QED
    BY <1>1, <1>2, <1>3, <1>4, <1>5, <1>6 DEF OutcomeInv

LEMMA CheckPendingKeeps == ASSUME OutcomeInv, CheckPending PROVE OutcomeInv'
<1> USE DEF CheckPending, Idle
<1>1. TypeOK'
    BY DEF OutcomeInv, TypeOK
<1>2. TablesOK'
    BY <1>1, SameTables DEF OutcomeInv, TypeOK
<1>3. RecorderOK'
    BY <1>1 DEF OutcomeInv, RecorderOK, TypeOK
<1>4. LoopOK'
    BY DEF OutcomeInv, LoopOK, Finished, Due
<1>5. RepeatsOK'
    BY DEF OutcomeInv, RepeatsOK, Stored, Ahead, Taken
<1>6. QueuedTokenHasRow'
    BY DEF OutcomeInv, QueuedTokenHasRow, RecorderOK, TypeOK
<1> QED
    BY <1>1, <1>2, <1>3, <1>4, <1>5, <1>6 DEF OutcomeInv
\* A detection that ends between its two rows is torn, and every other has
\* both rows or none.
LEMMA RecordRaisesKeeps == ASSUME OutcomeInv, RecordRaises PROVE OutcomeInv'
<1> USE DEF RecordRaises, Idle
<1>1. TypeOK'
    <2>1. /\ db' \in Tables /\ disk' \in Tables
          /\ loop' = loop /\ due' = due /\ now' = now /\ crashes' = crashes
          /\ failures' \in 0..MaxFailures
        BY BoundAssumption DEF OutcomeInv, TypeOK
    <2>2. recorder' = [pc |-> "idle", token |-> NoToken]
        OBVIOUS
    <2>3. torn' \subseteq Tokens
        BY DEF OutcomeInv, TypeOK, RecorderOK
    <2> QED
        BY <2>1, <2>2, <2>3 DEF OutcomeInv, TypeOK
<1>2. TablesOK'
    BY <1>1, SameTables DEF OutcomeInv, TypeOK
<1>3. RecorderOK'
    BY DEF OutcomeInv, RecorderOK, TypeOK
<1>4. LoopOK'
    BY DEF OutcomeInv, LoopOK, Finished, Due
<1>5. RepeatsOK'
    <2>1. crashes' + failures' = crashes + failures + 1
        BY BoundAssumption DEF OutcomeInv, TypeOK
    <2> QED
        BY <1>1, <2>1, FaultPays
<1>6. QueuedTokenHasRow'
    BY DEF OutcomeInv, QueuedTokenHasRow, RecorderOK, TypeOK
<1> QED
    BY <1>1, <1>2, <1>3, <1>4, <1>5, <1>6 DEF OutcomeInv

LEMMA BeginCycleKeeps == ASSUME OutcomeInv, BeginCycle PROVE OutcomeInv'
<1> USE DEF BeginCycle, Rows
<1>1. TypeOK'
    BY DEF OutcomeInv, TypeOK
<1>2. TablesOK'
    BY <1>1, SameTables DEF OutcomeInv, TypeOK
<1>3. RecorderOK'
    BY DEF OutcomeInv, RecorderOK
<1>4. LoopOK'
    BY DEF OutcomeInv, LoopOK, Finished, Due
<1>5. RepeatsOK'
    BY DEF OutcomeInv, RepeatsOK, Stored, Ahead, Taken
<1>6. QueuedTokenHasRow'
    BY DEF OutcomeInv, QueuedTokenHasRow
<1> QED
    BY <1>1, <1>2, <1>3, <1>4, <1>5, <1>6 DEF OutcomeInv

LEMMA TakeSnapshotKeeps == ASSUME OutcomeInv, NEW t \in Tokens, TakeSnapshot(t) PROVE OutcomeInv'
<1> USE DEF TakeSnapshot, At
<1>1. TypeOK'
    BY DEF OutcomeInv, TypeOK
<1>2. TablesOK'
    BY <1>1, SameTables DEF OutcomeInv, TypeOK
<1>3. RecorderOK'
    BY DEF OutcomeInv, RecorderOK
<1>4. LoopOK'
    BY DEF OutcomeInv, LoopOK, Finished, Due
<1>5. RepeatsOK'
    BY DEF OutcomeInv, RepeatsOK, Stored, Ahead, Taken
<1>6. QueuedTokenHasRow'
    BY DEF OutcomeInv, QueuedTokenHasRow
<1> QED
    BY <1>1, <1>2, <1>3, <1>4, <1>5, <1>6 DEF OutcomeInv

\* The snapshot that is ahead of its index becomes a repeat of this fault.
LEMMA StatementRaisesKeeps == ASSUME OutcomeInv, StatementRaises PROVE OutcomeInv'
<1> USE DEF StatementRaises
<1>1. TypeOK'
    BY BoundAssumption DEF OutcomeInv, TypeOK
<1>2. TablesOK'
    BY <1>1, SameTables DEF OutcomeInv, TypeOK
<1>3. RecorderOK'
    BY DEF OutcomeInv, RecorderOK
<1>4. LoopOK'
    BY DEF OutcomeInv, LoopOK, Finished, Due, TypeOK
<1>5. RepeatsOK'
    <2>1. crashes' + failures' = crashes + failures + 1
        BY BoundAssumption DEF OutcomeInv, TypeOK
    <2> QED
        BY <1>1, <2>1, FaultPays
<1>6. QueuedTokenHasRow'
    BY DEF OutcomeInv, QueuedTokenHasRow
<1> QED
    BY <1>1, <1>2, <1>3, <1>4, <1>5, <1>6 DEF OutcomeInv

LEMMA CycleRaisesKeeps == ASSUME OutcomeInv, CycleRaises PROVE OutcomeInv'
<1> USE DEF CycleRaises, Idle
<1>1. TypeOK'
    BY BoundAssumption DEF OutcomeInv, TypeOK
<1>2. TablesOK'
    BY <1>1, SameTables DEF OutcomeInv, TypeOK
<1>3. RecorderOK'
    BY DEF OutcomeInv, RecorderOK
<1>4. LoopOK'
    BY DEF OutcomeInv, LoopOK, Finished, Due
<1>5. RepeatsOK'
    <2>1. crashes' + failures' = crashes + failures + 1
        BY BoundAssumption DEF OutcomeInv, TypeOK
    <2> QED
        BY <1>1, <2>1, FaultPays
<1>6. QueuedTokenHasRow'
    BY DEF OutcomeInv, QueuedTokenHasRow
<1> QED
    BY <1>1, <1>2, <1>3, <1>4, <1>5, <1>6 DEF OutcomeInv

\* The clock moves between detections, and what was due stays due.
LEMMA TickKeeps == ASSUME OutcomeInv, Tick PROVE OutcomeInv'
<1> USE DEF Tick
<1>1. TypeOK'
    BY BoundAssumption DEF OutcomeInv, TypeOK
<1>2. TablesOK'
    BY <1>1, SameTables, BoundAssumption DEF OutcomeInv, TypeOK
<1>3. RecorderOK'
    BY DEF OutcomeInv, RecorderOK
<1>4. LoopOK'
    <2>1. ASSUME NEW t \in Tokens, db.queue[t] # NoRow, Finished(t) \/ Due(t)
          PROVE  (Finished(t) \/ Due(t))' /\ (Due(t) => Due(t)')
        <3>1. db.queue[t] \in 0..NumSnapshots /\ db.seenAt[t] \in Nat /\ now \in Nat
            BY <2>1, BoundAssumption DEF OutcomeInv, TypeOK, Tables
        <3>2. CASE Finished(t)
            BY <3>2 DEF Finished, Due
        <3>3. CASE ~Finished(t)
            <4>1. Intervals[db.queue[t] + 1] \in Nat
                BY <3>1, <3>3, Snapshots DEF Finished
            <4> QED
                BY <2>1, <3>1, <3>3, <4>1 DEF Finished, Due
        <3> QED
            BY <3>2, <3>3
    <2> QED
        BY <2>1 DEF OutcomeInv, LoopOK, TypeOK, Due
<1>5. RepeatsOK'
    BY DEF OutcomeInv, RepeatsOK, Stored, Ahead, Taken
<1>6. QueuedTokenHasRow'
    BY DEF OutcomeInv, QueuedTokenHasRow
<1> QED
    BY <1>1, <1>2, <1>3, <1>4, <1>5, <1>6 DEF OutcomeInv

LEMMA CommitDetectionKeeps == ASSUME OutcomeInv, CommitDetection PROVE OutcomeInv'
<1> USE DEF CommitDetection, Commit, Idle
<1>1. TypeOK'
    BY DEF OutcomeInv, TypeOK
<1>2. TablesOK'
    BY <1>1 DEF OutcomeInv, TablesOK, RowOK, Taken
<1>3. RecorderOK'
    BY DEF OutcomeInv, RecorderOK, TypeOK
<1>4. LoopOK'
    BY DEF OutcomeInv, LoopOK, Finished, Due
<1>5. RepeatsOK'
    BY CommitPays
<1>6. QueuedTokenHasRow'
    BY DEF OutcomeInv, QueuedTokenHasRow, RecorderOK, TypeOK
<1> QED
    BY <1>1, <1>2, <1>3, <1>4, <1>5, <1>6 DEF OutcomeInv

LEMMA CommitRowKeeps == ASSUME OutcomeInv, CommitRow PROVE OutcomeInv'
<1> USE DEF CommitRow, Commit, Idle
<1>1. TypeOK'
    BY DEF OutcomeInv, TypeOK
<1>2. TablesOK'
    BY <1>1 DEF OutcomeInv, TablesOK, RowOK, Taken
<1>3. RecorderOK'
    BY DEF OutcomeInv, RecorderOK
<1>4. LoopOK'
    BY DEF OutcomeInv, LoopOK, Finished, Due
<1>5. RepeatsOK'
    BY CommitPays
<1>6. QueuedTokenHasRow'
    BY DEF OutcomeInv, QueuedTokenHasRow
<1> QED
    BY <1>1, <1>2, <1>3, <1>4, <1>5, <1>6 DEF OutcomeInv

\* What is on disk is what the next process sees; a snapshot that was ahead
\* of its index there is repeated.
LEMMA CrashKeeps == ASSUME OutcomeInv, Crash PROVE OutcomeInv'
<1> USE DEF Crash, Idle
<1>1. TypeOK'
    BY BoundAssumption DEF OutcomeInv, TypeOK
<1>2. TablesOK'
    BY <1>1 DEF OutcomeInv, TablesOK, RowOK, Taken
<1>3. RecorderOK'
    BY DEF OutcomeInv, RecorderOK
<1>4. LoopOK'
    BY DEF OutcomeInv, LoopOK, Finished, Due
<1>5. RepeatsOK'
    <2> SUFFICES ASSUME NEW t \in Tokens, NEW i \in 1..NumSnapshots
                 PROVE  /\ disk.snaps[t][i] <= Stored(disk, t, i) + Ahead(t, i)' + crashes' + failures
                        /\ disk.snaps[t][i] <= Stored(disk, t, i) + 1 + crashes' + failures
        BY DEF RepeatsOK, Stored, Taken
    <2>1. disk.snaps[t][i] <= Stored(disk, t, i) + 1 + crashes + failures
        BY DEF OutcomeInv, RepeatsOK
    <2>2. Ahead(t, i)' \in 0..1
        BY DEF Ahead
    <2> QED
        BY <2>1, <2>2, Numbers DEF OutcomeInv
<1>6. QueuedTokenHasRow'
    BY DEF OutcomeInv, QueuedTokenHasRow
<1> QED
    BY <1>1, <1>2, <1>3, <1>4, <1>5, <1>6 DEF OutcomeInv

-----------------------------------------------------------------------------
\* The token is queued with the time of now, hence due no sooner than at the
\* next tick.
LEMMA InsertPendingKeeps == ASSUME OutcomeInv, InsertPending PROVE OutcomeInv'
<1> USE DEF InsertPending
<1>1. TypeOK'
    <2>1. /\ recorder.token \in Tokens /\ now \in 0..MaxTime /\ db \in Tables
        BY DEF OutcomeInv, TypeOK, RecorderOK
    <2>2. db' \in Tables
        <3> DEFINE Indexes == {NoRow} \cup 0..NumSnapshots
        <3>1. 0 \in Indexes
            BY Snapshots
        <3>2. db \in [tokens : [Tokens -> {"none", "sampled", "unsampled"}],
                       queue  : [Tokens -> Indexes],
                       seenAt : [Tokens -> 0..MaxTime],
                       snaps  : [Tokens -> [1..NumSnapshots -> Nat]]]
            BY <2>1 DEF Tables
        <3> HIDE DEF Indexes
        <3>3. db' \in [tokens : [Tokens -> {"none", "sampled", "unsampled"}],
                        queue  : [Tokens -> Indexes],
                        seenAt : [Tokens -> 0..MaxTime],
                        snaps  : [Tokens -> [1..NumSnapshots -> Nat]]]
            BY <2>1, <3>1, <3>2
        <3> QED
            BY <3>3 DEF Tables, Indexes
    <2> QED
        BY <2>2 DEF OutcomeInv, TypeOK
<1>2. TablesOK'
    BY Snapshots DEF OutcomeInv, TablesOK, RowOK, Taken, TypeOK, Tables, RecorderOK
<1>3. RecorderOK'
    BY DEF OutcomeInv, RecorderOK, TypeOK, Tables
<1>4. LoopOK'
    BY DEF OutcomeInv, LoopOK, Finished, Due, RecorderOK, TypeOK, Tables
<1>5. RepeatsOK'
    <2> SUFFICES ASSUME NEW t \in Tokens, NEW i \in 1..NumSnapshots
                 PROVE  /\ db'.snaps[t][i] <= Stored(db, t, i)' + Ahead(t, i)' + crashes + failures
                        /\ disk.snaps[t][i] <= Stored(disk, t, i) + 1 + crashes + failures
        BY DEF RepeatsOK, Stored, Taken
    <2>1. /\ db.snaps[t][i] <= Stored(db, t, i) + Ahead(t, i) + crashes + failures
          /\ disk.snaps[t][i] <= Stored(disk, t, i) + 1 + crashes + failures
        BY DEF OutcomeInv, RepeatsOK
    <2>2. db'.snaps = db.snaps
        BY DEF OutcomeInv, TypeOK, Tables
    <2>3. CASE t = recorder.token
        <3>1. db.snaps[t][i] = 0
            BY <2>3 DEF OutcomeInv, RecorderOK, TablesOK, RowOK
        <3>2. Stored(db, t, i)' \in 0..1 /\ Ahead(t, i)' \in 0..1
            BY DEF Stored, Ahead
        <3> QED
            BY <2>1, <2>2, <3>1, <3>2, Numbers DEF OutcomeInv
    <2>4. CASE t # recorder.token
        <3>1. db'.queue[t] = db.queue[t]
            BY <2>4 DEF OutcomeInv, TypeOK, Tables
        <3>2. Stored(db, t, i)' = Stored(db, t, i) /\ Ahead(t, i)' = Ahead(t, i)
            BY <3>1 DEF Stored, Ahead, Taken
        <3> QED
            BY <2>1, <2>2, <3>2
    <2> QED
        BY <2>3, <2>4
<1>6. QueuedTokenHasRow'
    BY DEF OutcomeInv, QueuedTokenHasRow, RecorderOK, TypeOK, Tables
<1> QED
    BY <1>1, <1>2, <1>3, <1>4, <1>5, <1>6 DEF OutcomeInv

\* A token whose row says sampled begins with the first interval.
LEMMA InsertTokenKeeps == ASSUME OutcomeInv, InsertToken PROVE OutcomeInv'
<1> USE DEF InsertToken
<1>1. TypeOK'
    BY Snapshots DEF OutcomeInv, TypeOK, Tables
<1>2. TablesOK'
    <2>1. /\ recorder.token \in Tokens /\ disk' = disk /\ now' = now
          /\ db'.queue = db.queue /\ db'.seenAt = db.seenAt /\ db'.snaps = db.snaps
          /\ \A t \in Tokens \ {recorder.token} : db'.tokens[t] = db.tokens[t]
        BY DEF OutcomeInv, TypeOK, Tables, RecorderOK
    <2> SUFFICES ASSUME NEW t \in Tokens PROVE RowOK(db, t)' /\ RowOK(disk, t)'
        BY DEF TablesOK
    <2>2. RowOK(db, t) /\ RowOK(disk, t)
        BY DEF OutcomeInv, TablesOK
    <2>3. RowOK(disk, t)'
        BY <2>1, <2>2 DEF RowOK, Taken
    <2>4. CASE t # recorder.token
        BY <2>1, <2>2, <2>3, <2>4 DEF RowOK, Taken
    <2>5. CASE t = recorder.token
        <3>1. \A i \in 1..NumSnapshots : db.snaps[t][i] = 0
            BY <2>2, <2>5 DEF OutcomeInv, RecorderOK, RowOK
        <3>2. CASE recorder.pc = "insert_sampled"
            <4>1. db'.tokens[t] = "sampled"
                BY <2>5, <3>2 DEF OutcomeInv, TypeOK, Tables
            <4>2. Taken(db, t)' = 0
                BY <2>1, <2>5, <3>2 DEF OutcomeInv, RecorderOK, Taken, NoRow
            <4> QED
                BY <2>1, <2>3, <3>1, <4>1, <4>2, Snapshots DEF RowOK
        <3>3. CASE recorder.pc = "insert_unsampled"
            <4>1. db'.tokens[t] = "unsampled" /\ db'.queue[t] = NoRow
                BY <2>1, <2>5, <3>3 DEF OutcomeInv, TypeOK, Tables, RecorderOK
            <4> QED
                BY <2>1, <2>3, <3>1, <4>1, Snapshots DEF RowOK
        <3> QED
            BY <3>2, <3>3
    <2> QED
        BY <2>4, <2>5
<1>3. RecorderOK'
    BY DEF OutcomeInv, RecorderOK, TypeOK, Tables
<1>4. LoopOK'
    <2>1. /\ db'.queue = db.queue /\ db'.seenAt = db.seenAt /\ db'.snaps = db.snaps
          /\ \A t \in Tokens \ {recorder.token} : db'.tokens[t] = db.tokens[t]
        BY DEF OutcomeInv, TypeOK, Tables
    <2>2. ASSUME loop.pc = "advance", db'.tokens[loop.token] = "sampled"
          PROVE  db.tokens[loop.token] = "sampled"
        <3>1. /\ loop.token \in Tokens /\ db.queue[loop.token] # NoRow /\ Due(loop.token)
            BY <2>2 DEF OutcomeInv, LoopOK
        <3>2. CASE loop.token = recorder.token
            <4>1. recorder.pc = "insert_sampled"
                BY <3>1, <3>2 DEF OutcomeInv, RecorderOK
            <4>2. now >= now + Intervals[1]
                BY <3>1, <3>2, <4>1 DEF OutcomeInv, RecorderOK, Due
            <4> QED
                BY <4>2, Snapshots, BoundAssumption DEF OutcomeInv, TypeOK
        <3>3. CASE loop.token # recorder.token
            BY <2>1, <2>2, <3>1, <3>3
        <3> QED
            BY <3>2, <3>3
    <2> QED
        BY <2>1, <2>2 DEF OutcomeInv, LoopOK, Finished, Due
<1>5. RepeatsOK'
    BY BoundAssumption DEF OutcomeInv, RepeatsOK, Stored, Ahead, Taken, TypeOK, Tables, RecorderOK
<1>6. QueuedTokenHasRow'
    BY DEF OutcomeInv, QueuedTokenHasRow, RecorderOK, TypeOK, Tables
<1> QED
    BY <1>1, <1>2, <1>3, <1>4, <1>5, <1>6 DEF OutcomeInv

\* A token that leaves the queue has all its snapshots taken.
LEMMA DeleteRowKeeps == ASSUME OutcomeInv, NEW t \in Tokens, DeleteRow(t) PROVE OutcomeInv'
<1> USE DEF DeleteRow, At
<1>1. TypeOK'
    BY Snapshots DEF OutcomeInv, TypeOK, Tables
<1>2. TablesOK'
    BY Snapshots DEF OutcomeInv, TablesOK, RowOK, Taken, TypeOK, Tables, Finished, NoRow
<1>3. RecorderOK'
    BY Snapshots DEF OutcomeInv, RecorderOK, TypeOK, Tables, NoRow, Finished
<1>4. LoopOK'
    BY DEF OutcomeInv, LoopOK, Finished, Due, TypeOK, Tables
<1>5. RepeatsOK'
    <2> SUFFICES ASSUME NEW u \in Tokens, NEW i \in 1..NumSnapshots
                 PROVE  /\ db'.snaps[u][i] <= Stored(db, u, i)' + Ahead(u, i)' + crashes + failures
                        /\ disk.snaps[u][i] <= Stored(disk, u, i) + 1 + crashes + failures
        BY DEF RepeatsOK, Stored, Taken
    <2>1. /\ db.snaps[u][i] <= Stored(db, u, i) + Ahead(u, i) + crashes + failures
          /\ disk.snaps[u][i] <= Stored(disk, u, i) + 1 + crashes + failures
        BY DEF OutcomeInv, RepeatsOK
    <2>2. db'.snaps = db.snaps
        BY DEF OutcomeInv, TypeOK, Tables
    <2>3. db.queue[u] \in {NoRow} \cup 0..NumSnapshots
        BY DEF OutcomeInv, TypeOK, Tables
    <2>4. db'.queue[u] = IF u = t THEN NoRow ELSE db.queue[u]
        BY DEF OutcomeInv, TypeOK, Tables
    <2>5. Taken(db, u)' = Taken(db, u)
        BY <2>3, <2>4, Snapshots DEF Taken, Finished, NoRow
    <2>6. Stored(db, u, i)' = Stored(db, u, i)
        BY <2>5 DEF Stored
    <2>7. Ahead(u, i)' = 0 /\ Ahead(u, i) = 0
        BY DEF Ahead
    <2> QED
        BY <2>1, <2>2, <2>6, <2>7
<1>6. QueuedTokenHasRow'
    BY DEF OutcomeInv, QueuedTokenHasRow, TypeOK, Tables
<1> QED
    BY <1>1, <1>2, <1>3, <1>4, <1>5, <1>6 DEF OutcomeInv

\* The snapshot of the interval that is due, after all before it.
LEMMA StoreSnapshotKeeps == ASSUME OutcomeInv, StoreSnapshot PROVE OutcomeInv'
<1>0. \A u \in Tokens : db.snaps[u] \in [1..NumSnapshots -> Nat]
    BY DEF OutcomeInv, TypeOK, Tables
<1>1. PICK t \in Tokens, k \in 1..NumSnapshots, n \in 0..1 :
        /\ loop.token = t /\ t \notin due
        /\ db.queue[t] = k - 1 /\ now >= db.seenAt[t] + Intervals[k]
        /\ n = IF db.tokens[t] = "none" THEN 0 ELSE 1
    <2>1. /\ loop.pc = "store" /\ loop.token \in Tokens \ due
          /\ db.queue[loop.token] # NoRow /\ Due(loop.token)
        BY DEF OutcomeInv, LoopOK, StoreSnapshot
    <2>2. db.queue[loop.token] \in {NoRow} \cup 0..NumSnapshots
        BY <2>1 DEF OutcomeInv, TypeOK, Tables
    <2>3. db.queue[loop.token] + 1 \in 1..NumSnapshots
        BY <2>1, <2>2, Snapshots DEF Due, Finished, NoRow
    <2>4. db.queue[loop.token] = (db.queue[loop.token] + 1) - 1
        BY <2>3, <2>2 DEF NoRow
    <2> QED
        BY <2>1, <2>3, <2>4 DEF Due
<1>2. /\ db'.tokens = db.tokens /\ db'.queue = db.queue /\ db'.seenAt = db.seenAt
      /\ db' \in Tables
      /\ \A u \in Tokens : \A i \in 1..NumSnapshots :
            db'.snaps[u][i] = IF u = t /\ i = k THEN db.snaps[u][i] + n ELSE db.snaps[u][i]
    <2>1. db \in Tables
        BY DEF OutcomeInv, TypeOK
    <2>2. CASE db.tokens[t] = "none"
        <3>1. db' = db
            BY <1>1, <2>2 DEF StoreSnapshot
        <3>2. n = 0 /\ \A u \in Tokens : \A i \in 1..NumSnapshots : db.snaps[u][i] \in Nat
            BY <1>1, <2>1, <2>2 DEF Tables
        <3> QED
            BY <2>1, <3>1, <3>2
    <2>3. CASE db.tokens[t] # "none"
        <3>1. db' = [db EXCEPT !.snaps = [db.snaps EXCEPT ![t] =
                        [db.snaps[t] EXCEPT ![k] = db.snaps[t][k] + 1]]]
            BY <1>1, <2>3 DEF StoreSnapshot
        <3>2. db.snaps[t] \in [1..NumSnapshots -> Nat] /\ db.snaps[t][k] + 1 \in Nat
            <4>1. db.snaps[t] \in [1..NumSnapshots -> Nat]
                BY <1>0
            <4>2. db.snaps[t][k] \in Nat
                BY <4>1
            <4> QED
                BY <4>1, <4>2
        <3>3. [db.snaps[t] EXCEPT ![k] = db.snaps[t][k] + 1] \in [1..NumSnapshots -> Nat]
            BY <3>2
        <3>4. n = 1
            BY <1>1, <2>3
        <3> QED
            BY <1>1, <2>1, <3>1, <3>2, <3>3, <3>4 DEF Tables
    <2> QED
        BY <2>2, <2>3
<1>3. /\ loop.pc = "store" /\ loop' = [loop EXCEPT !.pc = "advance"]
      /\ UNCHANGED <<disk, recorder, due, now, crashes, failures, torn>>
    BY DEF StoreSnapshot
<1>4. loop'.pc = "advance" /\ loop'.token = t
    BY <1>1, <1>3 DEF OutcomeInv, TypeOK
<1>5. TypeOK'
    BY <1>1, <1>2, <1>3 DEF OutcomeInv, TypeOK
<1>6. TablesOK'
    <2> SUFFICES ASSUME NEW u \in Tokens PROVE RowOK(db, u)' /\ RowOK(disk, u)'
        BY DEF TablesOK
    <2>1. RowOK(db, u) /\ RowOK(disk, u)
        BY DEF OutcomeInv, TablesOK
    <2>2. RowOK(disk, u)'
        BY <1>3, <2>1 DEF RowOK, Taken
    <2>3. CASE u # t \/ db.tokens[t] = "none"
        <3>1. \A i \in 1..NumSnapshots : db'.snaps[u][i] = db.snaps[u][i]
            <4>1. ASSUME NEW i \in 1..NumSnapshots PROVE db'.snaps[u][i] = db.snaps[u][i]
                <5>1. db.snaps[u][i] \in Nat
                    BY <1>0
                <5>2. u # t \/ n = 0
                    BY <1>1, <2>3
                <5> QED
                    BY <1>2, <5>1, <5>2
            <4> QED
                BY <4>1
        <3>2. \A i \in 1..NumSnapshots : i > 1 => i - 1 \in 1..NumSnapshots
            BY Snapshots
        <3>3. Taken(db, u) \in 0..NumSnapshots /\ Taken(db, u)' = Taken(db, u)
            BY <1>2, Snapshots DEF Taken, OutcomeInv, TypeOK, Tables, NoRow
        <3> QED
            BY <1>2, <1>3, <2>1, <2>2, <3>1, <3>2, <3>3, Snapshots DEF RowOK
    <2>4. CASE u = t /\ db.tokens[t] = "sampled"
        <3>1. Taken(db, t) = db.queue[t] /\ Taken(db, t)' = db.queue[t]
            BY <1>1, <1>2 DEF Taken, NoRow
        <3>2. \A i \in 1..NumSnapshots :
                 db.snaps[t][i] \in Nat /\ (db'.snaps[t][i] > 0 <=> (i = k \/ db.snaps[t][i] > 0))
            <4>1. n = 1
                BY <1>1, <2>4
            <4> SUFFICES ASSUME NEW i \in 1..NumSnapshots
                         PROVE  /\ db.snaps[t][i] \in Nat
                                /\ db'.snaps[t][i] > 0 <=> (i = k \/ db.snaps[t][i] > 0)
                OBVIOUS
            <4>2. db.snaps[t][i] \in Nat
                BY <1>0
            <4>3. db'.snaps[t][i] = IF i = k THEN db.snaps[t][i] + 1 ELSE db.snaps[t][i]
                BY <1>1, <1>2, <4>1
            <4> QED
                BY <4>2, <4>3
        <3>3. \A i \in 1..k - 1 : db.snaps[t][i] > 0
            BY <1>1, <2>1, <2>4, <3>1 DEF RowOK
        <3>4. ASSUME NEW i \in 1..NumSnapshots, db'.snaps[t][i] > 0
              PROVE  now >= db.seenAt[t] + Intervals[i] /\ (i > 1 => db'.snaps[t][i - 1] > 0)
            <4>1. CASE i = k
                <5>1. i > 1 => i - 1 \in 1..k - 1 /\ i - 1 \in 1..NumSnapshots
                    BY <4>1, Snapshots
                <5> QED
                    BY <1>1, <3>2, <3>3, <4>1, <5>1
            <4>2. CASE i # k
                <5>1. db.snaps[t][i] > 0
                    BY <3>2, <3>4, <4>2
                <5>2. now >= db.seenAt[t] + Intervals[i] /\ (i > 1 => db.snaps[t][i - 1] > 0)
                    BY <2>1, <2>4, <5>1 DEF RowOK
                <5> QED
                    BY <3>2, <5>2, Snapshots
            <4> QED
                BY <4>1, <4>2
        <3>5. \A i \in 1..db.queue[t] : db'.snaps[t][i] > 0
            <4>1. ASSUME NEW i \in 1..k - 1 PROVE db'.snaps[t][i] > 0
                <5>1. i \in 1..NumSnapshots
                    BY Snapshots
                <5> QED
                    BY <3>2, <3>3, <5>1
            <4> QED
                BY <1>1, <4>1
        <3> QED
            BY <1>2, <1>3, <2>2, <2>4, <3>1, <3>4, <3>5 DEF RowOK
    <2>5. db.tokens[t] \in {"none", "sampled"}
        BY <1>1 DEF OutcomeInv, TablesOK, RowOK, TypeOK, Tables, NoRow
    <2> QED
        BY <2>3, <2>4, <2>5
<1>7. RecorderOK'
    BY <1>2, <1>3 DEF OutcomeInv, RecorderOK
<1>8. LoopOK'
    <2>1. /\ \A d \in due : db'.queue[d] # NoRow /\ (Finished(d) \/ Due(d))'
          /\ db'.queue[t] # NoRow /\ Due(t)'
        BY <1>1, <1>2, <1>3 DEF OutcomeInv, LoopOK, Finished, Due
    <2>2. db'.tokens[t] = "sampled" => db'.snaps[t][db'.queue[t] + 1] > 0
        <3>1. ASSUME db.tokens[t] = "sampled" PROVE db'.snaps[t][k] > 0
            <4>1. n = 1 /\ db.snaps[t][k] \in Nat
                BY <1>0, <1>1, <3>1
            <4> QED
                BY <1>1, <1>2, <4>1
        <3> QED
            BY <1>1, <1>2, <3>1
    <2> QED
        BY <1>1, <1>3, <1>4, <2>1, <2>2 DEF LoopOK
<1>9. RepeatsOK'
    <2> SUFFICES ASSUME NEW u \in Tokens, NEW i \in 1..NumSnapshots
                 PROVE  /\ db'.snaps[u][i] <= Stored(db, u, i)' + Ahead(u, i)' + crashes + failures
                        /\ disk.snaps[u][i] <= Stored(disk, u, i) + 1 + crashes + failures
        BY <1>3 DEF RepeatsOK, Stored, Taken
    <2>1. /\ db.snaps[u][i] <= Stored(db, u, i) + Ahead(u, i) + crashes + failures
          /\ disk.snaps[u][i] <= Stored(disk, u, i) + 1 + crashes + failures
        BY DEF OutcomeInv, RepeatsOK
    <2>2. Stored(db, u, i)' = Stored(db, u, i) /\ Ahead(u, i) = 0
        BY <1>2, <1>3 DEF Stored, Taken, Ahead, At
    <2>3. CASE u = t /\ i = k
        <3>1. Ahead(u, i)' = 1
            BY <1>2, <1>3, <1>4, <1>1, <2>3 DEF Ahead, At, OutcomeInv, TypeOK
        <3> QED
            BY <1>1, <1>2, <2>1, <2>2, <2>3, <3>1, Numbers DEF OutcomeInv
    <2>4. CASE ~(u = t /\ i = k)
        <3>1. Ahead(u, i)' \in 0..1 /\ db'.snaps[u][i] = db.snaps[u][i]
            BY <1>2, <2>4 DEF Ahead
        <3> QED
            BY <2>1, <2>2, <3>1, Numbers DEF OutcomeInv
    <2> QED
        BY <2>3, <2>4
<1>10. QueuedTokenHasRow'
    BY <1>2, <1>3 DEF OutcomeInv, QueuedTokenHasRow
<1> QED
    BY <1>5, <1>6, <1>7, <1>8, <1>9, <1>10 DEF OutcomeInv

\* The index moves past an interval whose snapshot is stored.
LEMMA AdvanceRowKeeps == ASSUME OutcomeInv, AdvanceRow PROVE OutcomeInv'
<1>1. PICK t \in Tokens, k \in 1..NumSnapshots :
        /\ loop.token = t /\ t \notin due
        /\ db.queue[t] = k - 1 /\ now >= db.seenAt[t] + Intervals[k]
        /\ db.tokens[t] = "sampled" => db.snaps[t][k] > 0
    <2>1. /\ loop.pc = "advance" /\ loop.token \in Tokens \ due
          /\ db.queue[loop.token] # NoRow /\ Due(loop.token)
          /\ db.tokens[loop.token] = "sampled" =>
                db.snaps[loop.token][db.queue[loop.token] + 1] > 0
        BY DEF OutcomeInv, LoopOK, AdvanceRow
    <2>2. db.queue[loop.token] \in {NoRow} \cup 0..NumSnapshots
        BY <2>1 DEF OutcomeInv, TypeOK, Tables
    <2>3. db.queue[loop.token] + 1 \in 1..NumSnapshots
        BY <2>1, <2>2, Snapshots DEF Due, Finished, NoRow
    <2>4. db.queue[loop.token] = (db.queue[loop.token] + 1) - 1
        BY <2>3, <2>2 DEF NoRow
    <2> QED
        BY <2>1, <2>3, <2>4 DEF Due
<1>2. /\ db'.tokens = db.tokens /\ db'.snaps = db.snaps /\ db'.seenAt = db.seenAt
      /\ db' \in Tables
      /\ \A u \in Tokens : db'.queue[u] = IF u = t THEN k ELSE db.queue[u]
    <2> DEFINE Indexes == {NoRow} \cup 0..NumSnapshots
    <2>1. k \in Indexes /\ db.queue[t] + 1 = k
        BY <1>1
    <2>2. db' = [db EXCEPT !.queue[t] = k]
        BY <1>1, <2>1 DEF AdvanceRow
    <2>3. db \in [tokens : [Tokens -> {"none", "sampled", "unsampled"}],
                   queue  : [Tokens -> Indexes],
                   seenAt : [Tokens -> 0..MaxTime],
                   snaps  : [Tokens -> [1..NumSnapshots -> Nat]]]
        BY DEF OutcomeInv, TypeOK, Tables
    <2> HIDE DEF Indexes
    <2>4. /\ db' \in [tokens : [Tokens -> {"none", "sampled", "unsampled"}],
                       queue  : [Tokens -> Indexes],
                       seenAt : [Tokens -> 0..MaxTime],
                       snaps  : [Tokens -> [1..NumSnapshots -> Nat]]]
          /\ db'.tokens = db.tokens /\ db'.snaps = db.snaps /\ db'.seenAt = db.seenAt
          /\ \A u \in Tokens : db'.queue[u] = IF u = t THEN k ELSE db.queue[u]
        BY <2>1, <2>2, <2>3
    <2> QED
        BY <2>4 DEF Tables, Indexes
<1>3. /\ loop.pc = "advance" /\ loop' = [loop EXCEPT !.pc = "commit"]
      /\ UNCHANGED <<disk, recorder, due, now, crashes, failures, torn>>
    BY DEF AdvanceRow
<1>4. loop'.pc = "commit" /\ loop'.token = t
    BY <1>1, <1>3 DEF OutcomeInv, TypeOK
<1>5. TypeOK'
    BY <1>2, <1>3 DEF OutcomeInv, TypeOK
<1>6. TablesOK'
    <2> SUFFICES ASSUME NEW u \in Tokens PROVE RowOK(db, u)' /\ RowOK(disk, u)'
        BY DEF TablesOK
    <2>1. RowOK(db, u) /\ RowOK(disk, u)
        BY DEF OutcomeInv, TablesOK
    <2>2. RowOK(disk, u)'
        BY <1>3, <2>1 DEF RowOK, Taken
    <2>3. CASE u # t
        <3>1. db'.queue[u] = db.queue[u]
            BY <1>2, <2>3
        <3> QED
            BY <1>2, <1>3, <2>1, <2>2, <3>1 DEF RowOK, Taken
    <2>4. CASE u = t
        <3>1. Taken(db, t) = db.queue[t] /\ Taken(db, t)' = k /\ db'.queue[t] = k
            BY <1>1, <1>2 DEF Taken, NoRow
        <3>2. db.tokens[t] # "unsampled"
            BY <1>1, <2>1, <2>4 DEF RowOK, NoRow
        <3>3. db.tokens[t] = "sampled" => \A i \in 1..k : db.snaps[t][i] > 0
            BY <1>1, <2>1, <2>4, <3>1 DEF RowOK
        <3> QED
            BY <1>2, <1>3, <2>1, <2>2, <2>4, <3>1, <3>2, <3>3 DEF RowOK
    <2> QED
        BY <2>3, <2>4
<1>7. RecorderOK'
    <2>1. CASE recorder.token = t
        <3>1. recorder.pc # "insert_sampled"
            BY <1>1, <2>1, Snapshots, BoundAssumption DEF OutcomeInv, RecorderOK, TypeOK
        <3>2. recorder.pc \notin {"insert_pending", "insert_unsampled"}
            BY <1>1, <2>1 DEF OutcomeInv, RecorderOK, NoRow
        <3>3. recorder.pc = "check_pending" => t \in torn
            BY <1>1, <2>1 DEF OutcomeInv, RecorderOK, NoRow
        <3> QED
            BY <1>1, <1>2, <1>3, <2>1, <3>1, <3>2, <3>3 DEF OutcomeInv, RecorderOK
    <2>2. CASE recorder.token # t /\ recorder.token \in Tokens
        BY <1>2, <1>3, <2>2 DEF OutcomeInv, RecorderOK
    <2>3. CASE recorder.token \notin Tokens
        <3>1. recorder.token = NoToken /\ recorder.pc = "idle"
            BY <2>3 DEF OutcomeInv, TypeOK, RecorderOK
        <3> QED
            BY <1>3, <3>1 DEF RecorderOK
    <2> QED
        BY <2>1, <2>2, <2>3
<1>8. LoopOK'
    <2>1. \A d \in due : db'.queue[d] = db.queue[d]
        BY <1>1, <1>2 DEF OutcomeInv, TypeOK
    <2>2. \A d \in due : db'.queue[d] # NoRow /\ (Finished(d) \/ Due(d))'
        BY <1>2, <1>3, <2>1 DEF OutcomeInv, LoopOK, Finished, Due
    <2> QED
        BY <1>1, <1>3, <1>4, <2>2 DEF LoopOK
<1>9. RepeatsOK'
    <2> SUFFICES ASSUME NEW u \in Tokens, NEW i \in 1..NumSnapshots
                 PROVE  /\ db.snaps[u][i] <= Stored(db, u, i)' + Ahead(u, i)' + crashes + failures
                        /\ disk.snaps[u][i] <= Stored(disk, u, i) + 1 + crashes + failures
        BY <1>2, <1>3 DEF RepeatsOK, Stored, Taken
    <2>1. /\ db.snaps[u][i] <= Stored(db, u, i) + Ahead(u, i) + crashes + failures
          /\ disk.snaps[u][i] <= Stored(disk, u, i) + 1 + crashes + failures
        BY DEF OutcomeInv, RepeatsOK
    <2>2. Ahead(u, i)' = 0
        BY <1>4 DEF Ahead, At
    <2>3. CASE u = t
        <3>1. Taken(db, t) = k - 1 /\ Taken(db, t)' = k
            BY <1>1, <1>2 DEF Taken, NoRow
        <3>2. Stored(db, u, i)' = Stored(db, u, i) + Ahead(u, i)
            BY <1>1, <1>3, <2>3, <3>1 DEF Stored, Ahead, At, OutcomeInv, TypeOK
        <3> QED
            BY <2>1, <2>2, <3>2, Numbers DEF OutcomeInv
    <2>4. CASE u # t
        <3>1. Stored(db, u, i)' = Stored(db, u, i)
            BY <1>2, <2>4 DEF Stored, Taken
        <3>2. Ahead(u, i) = 0
            BY <1>1, <2>4 DEF Ahead, At
        <3> QED
            BY <2>1, <2>2, <3>1, <3>2
    <2> QED
        BY <2>3, <2>4
<1>10. QueuedTokenHasRow'
    BY <1>1, <1>2, <1>3 DEF OutcomeInv, QueuedTokenHasRow, NoRow
<1> QED
    BY <1>5, <1>6, <1>7, <1>8, <1>9, <1>10 DEF OutcomeInv

-----------------------------------------------------------------------------
LEMMA StutterKeeps == ASSUME OutcomeInv, UNCHANGED vars PROVE OutcomeInv'
BY DEF vars, OutcomeInv, TypeOK, TablesOK, RowOK, Taken, RecorderOK, LoopOK, Finished, Due,
       RepeatsOK, Stored, Ahead, QueuedTokenHasRow

LEMMA NextKeeps == OutcomeInv /\ [Next]_vars => OutcomeInv'
<1> SUFFICES ASSUME OutcomeInv, [Next]_vars PROVE OutcomeInv'
    OBVIOUS
<1>1. CASE \E t \in Tokens : Detect(t)
    BY <1>1, DetectKeeps
<1>2. CASE Record
    BY <1>2, CheckPendingKeeps, InsertPendingKeeps, InsertTokenKeeps, CommitDetectionKeeps,
       RecordRaisesKeeps DEF Record
<1>3. CASE Loop
    BY <1>3, BeginCycleKeeps, DeleteRowKeeps, TakeSnapshotKeeps, StoreSnapshotKeeps,
       AdvanceRowKeeps, StatementRaisesKeeps, CycleRaisesKeeps, CommitRowKeeps DEF Loop
<1>4. CASE Tick
    BY <1>4, TickKeeps
<1>5. CASE Crash
    BY <1>5, CrashKeeps
<1>6. CASE UNCHANGED vars
    BY <1>6, StutterKeeps
<1> QED
    BY <1>1, <1>2, <1>3, <1>4, <1>5, <1>6 DEF Next

LEMMA OutcomeInvariant == Spec => []OutcomeInv
BY InitOutcome, NextKeeps, PTL DEF Spec

-----------------------------------------------------------------------------
\* Every variable of the tracker has its type.
THEOREM OutcomeTypeCorrect == Spec => []TypeOK
<1>1. OutcomeInv => TypeOK
    BY DEF OutcomeInv
<1> QED
    BY <1>1, OutcomeInvariant, PTL

\* No snapshot is lost: whatever commits, raises or crashes, the index of a
\* sampled token (solana_outcomes.py:370) is behind the snapshots that are
\* stored, in memory and on disk.
THEOREM NoSnapshotLost == Spec => []AdvancedMeansStored
<1>1. OutcomeInv => AdvancedMeansStored
    BY DEF OutcomeInv, TablesOK, RowOK, AdvancedMeansStored
<1> QED
    BY <1>1, OutcomeInvariant, PTL

\* A snapshot is repeated once by each crash and each raising statement, and
\* never without one: what the shared transaction costs.
THEOREM RepeatsBounded == Spec => []RepeatsNeedFaults
<1>1. OutcomeInv => RepeatsNeedFaults
    <2> SUFFICES ASSUME OutcomeInv, NEW t \in Tokens, NEW i \in 1..NumSnapshots
                 PROVE  db.snaps[t][i] <= 1 + crashes + failures
        BY DEF RepeatsNeedFaults
    <2>1. /\ db.snaps[t][i] \in Nat
          /\ db.queue[t] \in Int
          /\ crashes \in Nat /\ failures \in Nat
        BY Snapshots, BoundAssumption DEF OutcomeInv, TypeOK, Tables, NoRow
    <2>2. db.snaps[t][i] <= Stored(db, t, i) + Ahead(t, i) + crashes + failures
        BY DEF OutcomeInv, RepeatsOK
    <2>3. Stored(db, t, i) = 0 \/ Ahead(t, i) = 0
        <3>1. CASE loop = At("advance", t) /\ i = db.queue[t] + 1
            <4>1. db.queue[t] # NoRow
                BY <3>1 DEF OutcomeInv, LoopOK, At
            <4>2. ~(i <= Taken(db, t))
                BY <3>1, <4>1, <2>1 DEF Taken
            <4> QED
                BY <4>2 DEF Stored
        <3>2. CASE ~(loop = At("advance", t) /\ i = db.queue[t] + 1)
            BY <3>2 DEF Ahead
        <3> QED
            BY <3>1, <3>2
    <2>4. Stored(db, t, i) \in 0..1 /\ Ahead(t, i) \in 0..1
        BY DEF Stored, Ahead
    <2> QED
        BY <2>1, <2>2, <2>3, <2>4
<1> QED
    BY <1>1, OutcomeInvariant, PTL

\* Snapshots are taken when they are due and in the order of the intervals,
\* also when several are due at once after a long stop.
THEOREM SnapshotsInOrder == Spec => []InTimeAndOrder
<1>1. OutcomeInv => InTimeAndOrder
    BY DEF OutcomeInv, TablesOK, RowOK, InTimeAndOrder
<1> QED
    BY <1>1, OutcomeInvariant, PTL

\* Only a torn detection leaves a queued token without its row in tokens.
THEOREM QueuedTokensRecorded == Spec => []QueuedTokenHasRow
<1>1. OutcomeInv => QueuedTokenHasRow
    BY DEF OutcomeInv
<1> QED
    BY <1>1, OutcomeInvariant, PTL

-----------------------------------------------------------------------------
\* What extends the tables extends what they extend.
LEMMA ExtendsOn ==
    ASSUME NEW new \in Tables, NEW mid \in Tables, NEW old \in Tables,
           Extends(new, mid), Extends(mid, old)
    PROVE  Extends(new, old)
<1> SUFFICES ASSUME NEW t \in Tokens
             PROVE  /\ old.tokens[t] # "none" => new.tokens[t] = old.tokens[t]
                    /\ \A i \in 1..NumSnapshots : new.snaps[t][i] >= old.snaps[t][i]
                    /\ old.tokens[t] = "sampled" => Taken(new, t) >= Taken(old, t)
    BY DEF Extends
<1>1. /\ Taken(new, t) \in Int /\ Taken(mid, t) \in Int /\ Taken(old, t) \in Int
      /\ \A i \in 1..NumSnapshots :
            new.snaps[t][i] \in Nat /\ mid.snaps[t][i] \in Nat /\ old.snaps[t][i] \in Nat
    BY Snapshots DEF Taken, Tables, NoRow
<1>2. /\ mid.tokens[t] # "none" => new.tokens[t] = mid.tokens[t]
      /\ \A i \in 1..NumSnapshots : new.snaps[t][i] >= mid.snaps[t][i]
      /\ mid.tokens[t] = "sampled" => Taken(new, t) >= Taken(mid, t)
    BY DEF Extends
<1>3. /\ old.tokens[t] # "none" => mid.tokens[t] = old.tokens[t]
      /\ \A i \in 1..NumSnapshots : mid.snaps[t][i] >= old.snaps[t][i]
      /\ old.tokens[t] = "sampled" => Taken(mid, t) >= Taken(old, t)
    BY DEF Extends
<1>4. ASSUME NEW i \in 1..NumSnapshots PROVE new.snaps[t][i] >= old.snaps[t][i]
    BY <1>1, <1>2, <1>3
<1>5. ASSUME old.tokens[t] = "sampled" PROVE Taken(new, t) >= Taken(old, t)
    BY <1>1, <1>2, <1>3, <1>5
<1>6. ASSUME old.tokens[t] # "none" PROVE new.tokens[t] = old.tokens[t]
    BY <1>2, <1>3, <1>6
<1> QED
    BY <1>4, <1>5, <1>6

LEMMA ExtendsItself == ASSUME NEW tables \in Tables PROVE Extends(tables, tables)
<1>1. \A t \in Tokens :
        Taken(tables, t) \in Int /\ \A i \in 1..NumSnapshots : tables.snaps[t][i] \in Nat
    BY Snapshots DEF Taken, Tables, NoRow
<1> QED
    BY <1>1 DEF Extends

\* A statement of either coroutine only adds to the tables.
LEMMA StatementsExtend ==
    ASSUME OutcomeInv, OutcomeInv', Next, ~Crash
    PROVE  Extends(db', db)
<1>0. db \in Tables /\ db' \in Tables
    BY DEF OutcomeInv, TypeOK
<1>n. /\ \A t \in Tokens : db.queue[t] \in {NoRow} \cup 0..NumSnapshots
      /\ \A t \in Tokens : \A i \in 1..NumSnapshots : db.snaps[t][i] \in Nat
      /\ NumSnapshots \in Nat
    BY <1>0, Snapshots DEF Tables
<1>r. /\ \A t \in Tokens : Taken(db, t) \in Int /\ Taken(db, t) <= NumSnapshots
    BY <1>n DEF Taken, NoRow
<1>1. CASE UNCHANGED db
    BY <1>0, <1>1, ExtendsItself
<1>2. CASE InsertPending
    <2> DEFINE u == recorder.token
    <2>1. db.tokens[u] = "none"
        BY <1>2 DEF InsertPending, OutcomeInv, RecorderOK
    <2>2. /\ db'.tokens = db.tokens /\ db'.snaps = db.snaps
          /\ \A t \in Tokens \ {u} : db'.queue[t] = db.queue[t]
        BY <1>0, <1>2 DEF InsertPending, Tables
    <2>3. \A t \in Tokens \ {u} : Taken(db', t) = Taken(db, t)
        BY <2>2 DEF Taken
    <2> QED
        BY <1>n, <1>r, <2>1, <2>2, <2>3 DEF Extends
<1>3. CASE InsertToken
    <2> DEFINE u == recorder.token
    <2>1. db.tokens[u] = "none"
        BY <1>3 DEF InsertToken, OutcomeInv, RecorderOK
    <2>2. /\ db'.queue = db.queue /\ db'.snaps = db.snaps
          /\ \A t \in Tokens \ {u} : db'.tokens[t] = db.tokens[t]
        BY <1>0, <1>3 DEF InsertToken, Tables
    <2>3. \A t \in Tokens : Taken(db', t) = Taken(db, t)
        BY <2>2 DEF Taken
    <2> QED
        BY <1>n, <1>r, <2>1, <2>2, <2>3 DEF Extends
<1>4. ASSUME NEW u \in Tokens, DeleteRow(u) PROVE Extends(db', db)
    <2>1. /\ db'.tokens = db.tokens /\ db'.snaps = db.snaps
          /\ \A t \in Tokens : db'.queue[t] = IF t = u THEN NoRow ELSE db.queue[t]
        BY <1>0, <1>4 DEF DeleteRow, Tables
    <2>2. \A t \in Tokens : Taken(db', t) >= Taken(db, t)
        BY <1>n, <1>r, <2>1 DEF Taken
    <2> QED
        BY <1>n, <2>1, <2>2 DEF Extends
<1>5. CASE StoreSnapshot
    <2> DEFINE u == loop.token
               k == db.queue[u] + 1
    <2>1. db'.tokens = db.tokens /\ db'.queue = db.queue
        BY <1>0, <1>5 DEF StoreSnapshot, Tables
    <2>2. /\ u \in Tokens /\ k \in 1..NumSnapshots
        BY <1>n, <1>5, Snapshots DEF StoreSnapshot, OutcomeInv, LoopOK, Due, Finished, NoRow
    <2>3. ASSUME NEW t \in Tokens, NEW i \in 1..NumSnapshots
          PROVE  db'.snaps[t][i] \in {db.snaps[t][i], db.snaps[t][i] + 1}
        BY <1>0, <1>5, <2>2 DEF StoreSnapshot, Tables
    <2>4. \A t \in Tokens : \A i \in 1..NumSnapshots : db'.snaps[t][i] >= db.snaps[t][i]
        BY <1>n, <2>3
    <2>5. \A t \in Tokens : Taken(db', t) = Taken(db, t)
        BY <2>1 DEF Taken
    <2> QED
        BY <1>r, <2>1, <2>4, <2>5 DEF Extends
<1>6. CASE AdvanceRow
    <2> DEFINE u == loop.token
    <2>1. /\ db'.tokens = db.tokens /\ db'.snaps = db.snaps
          /\ \A t \in Tokens : db'.queue[t] = IF t = u THEN db.queue[t] + 1 ELSE db.queue[t]
        BY <1>0, <1>6 DEF AdvanceRow, Tables
    <2>2. u \in Tokens /\ db.queue[u] # NoRow
        BY <1>6 DEF AdvanceRow, OutcomeInv, LoopOK
    <2>3. \A t \in Tokens : Taken(db', t) >= Taken(db, t)
        BY <1>n, <1>r, <2>1, <2>2 DEF Taken, NoRow
    <2> QED
        BY <1>n, <2>1, <2>3 DEF Extends
<1> QED
    BY <1>1, <1>2, <1>3, <1>4, <1>5, <1>6
    DEF Next, Record, Loop, Detect, CheckPending, CommitDetection, RecordRaises, BeginCycle,
        TakeSnapshot, StatementRaises, CycleRaises, CommitRow, Tick

\* What is on disk comes from what is in memory, or stays.
LEMMA DiskFollows == [Next]_vars => disk' \in {disk, db}
BY DEF Next, Record, Loop, Detect, CheckPending, InsertPending, InsertToken, CommitDetection,
       RecordRaises, BeginCycle, DeleteRow, TakeSnapshot, StoreSnapshot, AdvanceRow,
       StatementRaises, CycleRaises, CommitRow, Tick, Crash, Commit, vars

\* In memory there is all that is on disk, and perhaps more.
LEMMA MemoryAhead ==
    ASSUME OutcomeInv, OutcomeInv', Extends(db, disk), [Next]_vars
    PROVE  Extends(db', disk')
<1>0. db \in Tables /\ db' \in Tables /\ disk \in Tables /\ disk' \in Tables
    BY DEF OutcomeInv, TypeOK
<1>1. CASE Crash
    BY <1>0, <1>1, ExtendsItself DEF Crash
<1>2. CASE UNCHANGED vars
    BY <1>2 DEF vars
<1>3. CASE Next /\ ~Crash
    <2>1. Extends(db', db)
        BY <1>3, StatementsExtend
    <2> QED
        BY <1>0, <2>1, DiskFollows, ExtendsOn
<1> QED
    BY <1>1, <1>2, <1>3

\* What either coroutine has committed stays: no commit of the other, no raising
\* statement, no rollback and no crash takes a detection or a snapshot back, or
\* makes the index of a sampled token go back (solana_outcomes.py:302, 397).
THEOREM CommitsAreKept == Spec => CommittedIsKept
<1>1. Init => Extends(db, disk)
    <2>1. Init => db = disk /\ db \in Tables
        BY InitOutcome DEF Init, OutcomeInv, TypeOK
    <2> QED
        BY <2>1, ExtendsItself
<1>2. OutcomeInv /\ OutcomeInv' /\ Extends(db, disk) /\ [Next]_vars => Extends(db, disk)'
    BY MemoryAhead
<1>3. OutcomeInv /\ OutcomeInv' /\ Extends(db, disk) /\ [Next]_vars => [Extends(disk', disk)]_vars
    <2> SUFFICES ASSUME OutcomeInv, Extends(db, disk), [Next]_vars PROVE Extends(disk', disk)
        OBVIOUS
    <2>1. disk \in Tables
        BY DEF OutcomeInv, TypeOK
    <2> QED
        BY <2>1, DiskFollows, ExtendsItself
<1> QED
    BY <1>1, <1>2, <1>3, OutcomeInvariant, PTL DEF Spec, CommittedIsKept
=============================================================================
