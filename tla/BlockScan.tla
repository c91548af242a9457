------------------------------ MODULE BlockScan ------------------------------
(***************************************************************************)
(* How a polling TokenScraper walks the chain (src/data/scraper.py,        *)
(* _scan_new_blocks and _scan_factory): from the block after the last      *)
(* scanned one to the newest confirmed one, factory by factory, in chunks  *)
(* whose size is halved for good whenever get_logs fails. Each await of    *)
(* get_logs is one step. The provider may fail any query, and may answer   *)
(* any block height: endpoints behind the pool lag by different amounts.   *)
(***************************************************************************)
EXTENDS Integers

CONSTANTS
    NumFactories,   \* entries of FACTORIES_BY_CHAIN for the chain
    MaxChunk,       \* ScraperConfig.max_block_range_per_query
    Lookback,       \* ScraperConfig.initial_lookback_blocks
    Confirmations,  \* ScraperConfig.confirmation_blocks
    MaxBlock,       \* bound: highest block an endpoint answers with
    MaxRestarts     \* bound: how often the process is restarted

ASSUME FactoryAssumption == NumFactories \in Nat \ {0}
\* With 0 the loop of _scan_factory would never advance.
ASSUME ChunkAssumption == MaxChunk \in Nat \ {0}
ASSUME LookbackAssumption == Lookback \in Nat
ASSUME ConfirmationAssumption == Confirmations \in Nat
ASSUME BlockAssumption == MaxBlock \in Nat
ASSUME ScanRestartAssumption == MaxRestarts \in Nat

Factories == 1..NumFactories
None == -1          \* a block number that was not set

VARIABLES
    last,       \* _last_scanned_block, or None
    chunk,      \* _effective_chunk_size
    factory,    \* the factory being scanned, 0 between scans
    cursor,     \* cursor of _scan_factory
    from, to    \* the range of the scan in progress

VARIABLES
    start,      \* history: where this process began to scan, or None
    covered,    \* history: blocks get_logs answered for, per factory
    twice,      \* history: blocks it answered for more than once
    skipped,    \* history: blocks given up, per factory
    restarts

vars == <<last, chunk, factory, cursor, from, to, start, covered, twice, skipped, restarts>>

Min2(a, b) == IF a < b THEN a ELSE b
Max2(a, b) == IF a > b THEN a ELSE b

Init ==
    /\ last = None
    /\ chunk = MaxChunk
    /\ factory = 0
    /\ cursor = 0 /\ from = 0 /\ to = 0
    /\ start = None
    /\ covered = [f \in Factories |-> {}]
    /\ twice = [f \in Factories |-> {}]
    /\ skipped = [f \in Factories |-> {}]
    /\ restarts = 0

FirstBlock(safeTip) == IF last = None THEN Max2(0, safeTip - Lookback) ELSE last + 1

\* The early returns of _scan_new_blocks: nothing confirmed, or nothing new.
HasNew(safeTip) == safeTip >= 0 /\ FirstBlock(safeTip) <= safeTip

\* The call returns early and nothing changes.
NothingNew(latest) ==
    /\ factory = 0
    /\ ~HasNew(latest - Confirmations)
    /\ UNCHANGED vars

\* _scan_new_blocks: an endpoint answered latest, and there are blocks to scan.
BeginScan(latest) ==
    LET safeTip == latest - Confirmations
        first   == FirstBlock(safeTip)
    IN  /\ factory = 0
        /\ HasNew(safeTip)
        /\ factory' = 1
        /\ cursor' = first /\ from' = first /\ to' = safeTip
        /\ start' = IF start = None THEN first ELSE start
        /\ UNCHANGED <<last, chunk, covered, twice, skipped, restarts>>

\* Mutant of Continue: the next factory goes on where this one stopped.
ContinueFrom(next) ==
    IF next <= to
    THEN cursor' = next /\ UNCHANGED <<factory, last>>
    ELSE IF factory < NumFactories
    THEN factory' = factory + 1 /\ cursor' = next /\ UNCHANGED last
    ELSE factory' = 0 /\ last' = to /\ cursor' = next

\* The factory's loop goes on at block next, or the next factory starts over
\* at from, or the scan is over and _last_scanned_block is set.
Continue(next) ==
    IF next <= to
    THEN cursor' = next /\ UNCHANGED <<factory, last>>
    ELSE IF factory < NumFactories
    THEN factory' = factory + 1 /\ cursor' = from /\ UNCHANGED last
    ELSE factory' = 0 /\ last' = to /\ cursor' = next

\* Mutant of ChunkEnd: the last chunk reaches beyond the confirmed blocks.
ChunkEndBeyond == cursor + chunk - 1

ChunkEnd == Min2(cursor + chunk - 1, to)

\* get_logs answers for the chunk.
QuerySucceeds ==
    /\ factory # 0
    /\ LET queried == cursor..ChunkEnd
       IN  /\ covered' = [covered EXCEPT ![factory] = @ \cup queried]
           /\ twice' = [twice EXCEPT ![factory] = @ \cup (queried \cap covered[factory])]
    /\ Continue(ChunkEnd + 1)
    /\ UNCHANGED <<chunk, from, to, start, skipped, restarts>>

\* Mutant of ShrinkChunk: the size goes back to the configured one.
ShrinkChunkRecovering ==
    /\ factory # 0 /\ chunk > 1
    /\ chunk' = IF chunk > 2 THEN chunk \div 2 ELSE MaxChunk
    /\ UNCHANGED <<last, factory, cursor, from, to, start, covered, twice, skipped, restarts>>

\* get_logs fails: the size is halved, for all later queries, and the same
\* block is tried again.
ShrinkChunk ==
    /\ factory # 0 /\ chunk > 1
    /\ chunk' = Max2(1, chunk \div 2)
    /\ UNCHANGED <<last, factory, cursor, from, to, start, covered, twice, skipped, restarts>>

\* get_logs fails for a single block: the block is skipped.
SkipBlock ==
    /\ factory # 0 /\ chunk <= 1
    /\ skipped' = [skipped EXCEPT ![factory] = @ \cup {cursor}]
    /\ Continue(cursor + 1)
    /\ UNCHANGED <<chunk, from, to, start, covered, twice, restarts>>

\* The process is restarted: without a store the scan starts over from the
\* lookback, whatever was scanned before.
Restart ==
    /\ restarts < MaxRestarts
    /\ restarts' = restarts + 1
    /\ last' = None
    /\ chunk' = MaxChunk
    /\ factory' = 0
    /\ cursor' = 0 /\ from' = 0 /\ to' = 0
    /\ start' = None
    /\ covered' = [f \in Factories |-> {}]
    /\ twice' = [f \in Factories |-> {}]
    /\ skipped' = [f \in Factories |-> {}]

Query == QuerySucceeds \/ ShrinkChunk \/ SkipBlock

Next ==
    \/ \E latest \in 0..MaxBlock : BeginScan(latest) \/ NothingNew(latest)
    \/ Query
    \/ Restart

\* Every query ends, one way or the other: requests have a timeout. It need
\* never succeed.
Spec == Init /\ [][Next]_vars
FairSpec == Spec /\ WF_vars(Query)

-----------------------------------------------------------------------------
\* Every variable has its type.
TypeOK ==
    /\ last \in Int /\ chunk \in 1..MaxChunk
    /\ factory \in 0..NumFactories
    /\ cursor \in Nat /\ from \in Nat /\ to \in Nat
    /\ start \in Int
    /\ covered \in [Factories -> SUBSET Nat]
    /\ twice \in [Factories -> SUBSET Nat]
    /\ skipped \in [Factories -> SUBSET Nat]
    /\ restarts \in 0..MaxRestarts

\* Every block up to _last_scanned_block, from where the process began, was
\* answered for or given up, for every factory: chunk boundaries, halvings,
\* lagging endpoints and the hand-over between factories leave no gap.
NoGap ==
    last # None =>
        \A f \in Factories : start..last \subseteq covered[f] \cup skipped[f]

\* No block is answered for twice for one factory: a pair cannot be announced
\* twice by one process through overlapping chunks or scans.
ScannedOnce == \A f \in Factories : twice[f] = {}

\* A block is given up only when the learned chunk size is down to one, and the
\* size never recovers (scraper.py:423-429).
SkipsOnlySingleBlocks ==
    (\E f \in Factories : skipped[f] # {}) => chunk = 1

\* A scan ends whatever the provider does: every failed query either halves
\* the chunk size or moves the cursor.
ScanTerminates == factory # 0 ~> factory = 0

\* What ScanTerminates rests on, whichever way a query ends: it moves the scan to
\* its end, to the next factory, to a later block or, at the same block, to a
\* smaller chunk, and there are finitely many of each before it. _scan_factory
\* (scraper.py:420-461) knows no other bound on its retries.
Advances ==
    \/ factory' = 0
    \/ factory' > factory
    \/ factory' = factory /\ cursor' > cursor
    \/ factory' = factory /\ cursor' = cursor /\ chunk' < chunk

EveryQueryAdvances ==
    [][factory # 0 /\ restarts' = restarts =>
            Advances /\ to' = to /\ cursor' <= to + 1 /\ factory' \in 0..NumFactories]_vars

\* Heights that lag do not take a scan back: within one process a scan only
\* begins where the last one ended, and _last_scanned_block only grows.
NeverFallsBack ==
    [][restarts' = restarts /\ last # None =>
            /\ last' >= last
            /\ factory = 0 /\ factory' # 0 => from' = last + 1 /\ to' > last]_vars

\* No block that lacks its confirmations at any endpoint is scanned or given up.
ConfirmedOnly ==
    \A f \in Factories : covered[f] \cup skipped[f] \subseteq 0..(MaxBlock - Confirmations)

\* The inductive invariant behind NoGap and ScannedOnce: factory f is in the
\* books from start up to Progress(f), and nowhere beyond.
Progress(f) ==
    IF factory = 0 THEN last
    ELSE IF f < factory THEN to
    ELSE IF f = factory THEN cursor - 1
    ELSE from - 1

Range ==
    /\ start = None <=> (factory = 0 /\ last = None)
    /\ start # None => start \in Nat
    /\ last # None => last \in Nat /\ start <= last
    /\ factory # 0 => /\ start <= from /\ from <= cursor /\ cursor <= to
                      /\ from = IF last = None THEN start ELSE last + 1

Books ==
    \A f \in Factories :
        covered[f] \cup skipped[f] = IF start = None THEN {} ELSE start..Progress(f)

ScanInv == TypeOK /\ Range /\ Books /\ ScannedOnce
=============================================================================
