--------------------------- MODULE BlockScanProofs ---------------------------
(***************************************************************************)
(* Proofs about BlockScan, for every number of factories, chunk size,      *)
(* lookback, confirmation depth and chain length.                          *)
(***************************************************************************)
EXTENDS BlockScan, TLAPS

\* The initial state satisfies the inductive invariant.
LEMMA ScanInit == Init => ScanInv
BY FactoryAssumption, ChunkAssumption, ScanRestartAssumption
DEF Init, ScanInv, TypeOK, Range, Progress, Books, ScannedOnce, Factories, None

\* When the loop reached block next, everything before it is in the books, and
\* Continue sets the cursor, the factory and _last_scanned_block accordingly.
LEMMA ContinueStep ==
    ASSUME ScanInv, factory # 0, NEW next \in Nat, cursor < next, next <= to + 1,
           Continue(next), UNCHANGED <<from, to, start, restarts>>,
           chunk' \in 1..MaxChunk,
           covered' \in [Factories -> SUBSET Nat],
           skipped' \in [Factories -> SUBSET Nat],
           twice' \in [Factories -> SUBSET Nat],
           ScannedOnce',
           \A f \in Factories : covered'[f] \cup skipped'[f] =
               IF f = factory THEN covered[f] \cup skipped[f] \cup (cursor..(next - 1))
                              ELSE covered[f] \cup skipped[f]
    PROVE  ScanInv'
<1> USE FactoryAssumption DEF ScanInv, TypeOK, Range, Books, Progress, Factories, None
<1>1. CASE next <= to
  <2>1. cursor' = next /\ factory' = factory /\ last' = last
    BY <1>1 DEF Continue
  <2>2. TypeOK' /\ Range'
    BY <2>1, <1>1
  <2>3. Books'
    BY <2>1, <1>1
  <2> QED
    BY <2>2, <2>3
<1>2. CASE ~(next <= to) /\ factory < NumFactories
  <2>1. cursor' = from /\ factory' = factory + 1 /\ last' = last
    BY <1>2 DEF Continue
  <2>2. next = to + 1
    BY <1>2
  <2>3. TypeOK' /\ Range'
    <3>1. TypeOK'
      BY <1>2, <2>1
    <3>2. factory' # 0
      BY <1>2, <2>1
    <3>3. Range'
      BY <2>1, <3>2
    <3> QED
      BY <3>1, <3>3
  <2>4. ASSUME NEW f \in Factories
        PROVE  covered'[f] \cup skipped'[f] = start..(Progress(f)')
    <3>1. CASE f = factory
      <4>1. covered[f] \cup skipped[f] = start..(cursor - 1) /\ Progress(f)' = to
        BY <2>1, <3>1
      <4>2. start..(cursor - 1) \cup cursor..to = start..to
        OBVIOUS
      <4> QED
        BY <2>2, <3>1, <4>1, <4>2
    <3>2. CASE f # factory
      <4>1. Progress(f)' = Progress(f)
        BY <2>1, <3>2
      <4> QED
        BY <3>2, <4>1
    <3> QED
      BY <3>1, <3>2
  <2>5. Books'
    BY <2>3, <2>4
  <2> QED
    BY <2>3, <2>5
<1>3. CASE ~(next <= to) /\ ~(factory < NumFactories)
  <2>1. cursor' = next /\ factory' = 0 /\ last' = to
    BY <1>3 DEF Continue
  <2>2. next = to + 1 /\ factory = NumFactories
    BY <1>3
  <2>3. TypeOK' /\ Range'
    BY <2>1, <2>2
  <2>4. Books'
    BY <2>1, <2>2
  <2> QED
    BY <2>3, <2>4
<1> QED
  BY <1>1, <1>2, <1>3

\* Every step of the scan preserves the inductive invariant.
LEMMA ScanStep == ScanInv /\ [Next]_vars => ScanInv'
<1> SUFFICES ASSUME ScanInv, [Next]_vars PROVE ScanInv'
  OBVIOUS
<1> USE FactoryAssumption, ChunkAssumption DEF ScanInv, TypeOK, Factories, None
<1>1. ASSUME NEW latest \in 0..MaxBlock, BeginScan(latest) PROVE ScanInv'
  <2> DEFINE safeTip == latest - Confirmations
             first == FirstBlock(safeTip)
  <2>1. safeTip \in Nat /\ first \in Nat /\ first <= safeTip
    BY <1>1, LookbackAssumption, ConfirmationAssumption, BlockAssumption
    DEF BeginScan, HasNew, FirstBlock, Max2, Range
  <2>2. first = IF last = None THEN first ELSE last + 1
    BY DEF FirstBlock
  <2> HIDE DEF safeTip, first
  <2>3. /\ factory = 0 /\ factory' = 1
        /\ cursor' = first /\ from' = first /\ to' = safeTip
        /\ start' = IF start = None THEN first ELSE start
        /\ UNCHANGED <<last, chunk, covered, twice, skipped, restarts>>
    BY <1>1 DEF BeginScan, safeTip, first
  <2>4. TypeOK' /\ Range'
    BY <2>1, <2>2, <2>3 DEF Range
  <2>5. Books'
    BY <2>1, <2>2, <2>3 DEF Range, Books, Progress
  <2>6. ScannedOnce'
    BY <2>3 DEF ScannedOnce
  <2> QED
    BY <2>4, <2>5, <2>6
<1>2. CASE QuerySucceeds
  <2> DEFINE end == ChunkEnd
             queried == cursor..end
  <2>1. end \in Nat /\ cursor < end + 1 /\ end + 1 <= to + 1 /\ end + 1 \in Nat
    BY <1>2 DEF QuerySucceeds, ChunkEnd, Min2, Range
  <2> HIDE DEF end
  <2>2. /\ factory # 0
        /\ covered' = [covered EXCEPT ![factory] = @ \cup queried]
        /\ twice' = [twice EXCEPT ![factory] = @ \cup (queried \cap covered[factory])]
        /\ Continue(end + 1)
        /\ UNCHANGED <<chunk, from, to, start, skipped, restarts>>
    BY <1>2 DEF QuerySucceeds, end
  <2>3. queried \cap covered[factory] = {}
    BY <2>1, <2>2 DEF Books, Progress, Range
  <2>4. ScannedOnce'
    BY <2>2, <2>3 DEF ScannedOnce
  <2>5. /\ covered' \in [Factories -> SUBSET Nat]
        /\ skipped' \in [Factories -> SUBSET Nat]
        /\ twice' \in [Factories -> SUBSET Nat]
        /\ chunk' \in 1..MaxChunk
    BY <2>1, <2>2
  <2>6. \A f \in Factories : covered'[f] \cup skipped'[f] =
            IF f = factory THEN covered[f] \cup skipped[f] \cup (cursor..((end + 1) - 1))
                           ELSE covered[f] \cup skipped[f]
    BY <2>1, <2>2
  <2> QED
    BY <2>1, <2>2, <2>4, <2>5, <2>6, ContinueStep
<1>3. CASE ShrinkChunk
  <2>1. chunk' \in 1..MaxChunk
    BY <1>3 DEF ShrinkChunk, Max2
  <2> QED
    BY <1>3, <2>1 DEF ShrinkChunk, Range, Books, Progress, ScannedOnce
<1>4. CASE SkipBlock
  <2>1. /\ factory # 0
        /\ skipped' = [skipped EXCEPT ![factory] = @ \cup {cursor}]
        /\ Continue(cursor + 1)
        /\ UNCHANGED <<chunk, from, to, start, covered, twice, restarts>>
    BY <1>4 DEF SkipBlock
  <2>2. cursor + 1 \in Nat /\ cursor < cursor + 1 /\ cursor + 1 <= to + 1
    BY <2>1 DEF Range
  <2>3. \A f \in Factories : covered'[f] \cup skipped'[f] =
            IF f = factory THEN covered[f] \cup skipped[f] \cup (cursor..((cursor + 1) - 1))
                           ELSE covered[f] \cup skipped[f]
    BY <2>1
  <2>4. /\ covered' \in [Factories -> SUBSET Nat]
        /\ skipped' \in [Factories -> SUBSET Nat]
        /\ twice' \in [Factories -> SUBSET Nat]
        /\ chunk' \in 1..MaxChunk
        /\ ScannedOnce'
    BY <2>1 DEF ScannedOnce
  <2> QED
    BY <2>1, <2>2, <2>3, <2>4, ContinueStep
<1>5. CASE Restart
  BY <1>5, ScanRestartAssumption DEF Restart, Range, Books, Progress, ScannedOnce
<1>6. CASE UNCHANGED vars \/ \E latest \in 0..MaxBlock : NothingNew(latest)
  <2>1. UNCHANGED vars
    BY <1>6 DEF NothingNew
  <2> QED
    BY <2>1 DEF vars, Range, Books, Progress, ScannedOnce
<1> QED
  BY <1>1, <1>2, <1>3, <1>4, <1>5, <1>6 DEF Next, Query

\* The inductive invariant holds in every reachable state.
THEOREM ScanInvariance == Spec => []ScanInv
<1>1. ScanInv /\ [Next]_vars => ScanInv'
  BY ScanStep
<1> QED
  BY ScanInit, <1>1, PTL DEF Spec

\* Whatever the provider fails and however high its endpoints answer, every
\* block between the first and the last scanned one was answered for or given
\* up, for every factory (scraper.py:391-461).
THEOREM NoBlockMissed == Spec => []NoGap
<1>1. ScanInv => NoGap
  BY FactoryAssumption
  DEF ScanInv, TypeOK, Range, Books, Progress, NoGap, Factories, None
<1> QED
  BY <1>1, ScanInvariance, PTL

\* No block is scanned twice by one process for one factory.
THEOREM NoBlockRepeated == Spec => []ScannedOnce
<1>1. ScanInv => ScannedOnce
  BY DEF ScanInv
<1> QED
  BY <1>1, ScanInvariance, PTL

\* The variables of the scan keep their types.
THEOREM ScanTypeCorrect == Spec => []TypeOK
<1>1. ScanInv => TypeOK
  BY DEF ScanInv
<1> QED
  BY <1>1, ScanInvariance, PTL

\* A block is given up only when the learned chunk size is down to one: the
\* size is never raised within a process.
THEOREM SkipsJustified == Spec => []SkipsOnlySingleBlocks
<1> DEFINE Inv == SkipsOnlySingleBlocks /\ TypeOK
<1>1. Init => SkipsOnlySingleBlocks
  BY DEF Init, SkipsOnlySingleBlocks
<1>2. SkipsOnlySingleBlocks /\ TypeOK /\ [Next]_vars => SkipsOnlySingleBlocks'
  BY DEF SkipsOnlySingleBlocks, TypeOK, Next, Query, BeginScan, NothingNew, QuerySucceeds,
         ShrinkChunk, SkipBlock, Restart, vars
<1> QED
  BY <1>1, <1>2, ScanTypeCorrect, PTL DEF Spec
-----------------------------------------------------------------------------
\* Where Continue goes: to a later block, to the next factory, or to the end.
LEMMA ContinueAdvances ==
    ASSUME ScanInv, factory # 0, NEW next \in Nat, cursor < next, next <= to + 1,
           Continue(next), UNCHANGED <<from, to>>
    PROVE  Advances /\ to' = to /\ cursor' <= to + 1 /\ factory' \in 0..NumFactories
BY FactoryAssumption DEF ScanInv, TypeOK, Range, Continue, Advances

\* A query that ends moves the scan on.
LEMMA QueryAdvances ==
    ASSUME ScanInv, Query
    PROVE  Advances /\ to' = to /\ cursor' <= to + 1 /\ factory' \in 0..NumFactories
<1>1. CASE QuerySucceeds
  <2> DEFINE end == ChunkEnd
  <2>1. end \in Nat /\ cursor < end + 1 /\ end + 1 <= to + 1 /\ end + 1 \in Nat
    BY <1>1 DEF QuerySucceeds, ChunkEnd, Min2, ScanInv, TypeOK, Range
  <2>2. factory # 0 /\ Continue(end + 1) /\ UNCHANGED <<from, to>>
    BY <1>1 DEF QuerySucceeds
  <2> HIDE DEF end
  <2> QED
    BY <2>1, <2>2, ContinueAdvances
<1>2. CASE ShrinkChunk
  <2>1. chunk' < chunk /\ factory' = factory /\ cursor' = cursor /\ to' = to
    BY <1>2 DEF ShrinkChunk, Max2, ScanInv, TypeOK
  <2>2. cursor <= to + 1 /\ factory \in 0..NumFactories
    BY <1>2 DEF ShrinkChunk, ScanInv, TypeOK, Range
  <2> QED
    BY <2>1, <2>2 DEF Advances
<1>3. CASE SkipBlock
  <2>1. /\ factory # 0 /\ Continue(cursor + 1) /\ UNCHANGED <<from, to>>
        /\ cursor + 1 \in Nat /\ cursor < cursor + 1 /\ cursor + 1 <= to + 1
    BY <1>3 DEF SkipBlock, ScanInv, TypeOK, Range
  <2> QED
    BY <2>1, ContinueAdvances
<1> QED
  BY <1>1, <1>2, <1>3 DEF Query

\* A scan ends after finitely many queries, whatever the provider does: each
\* takes it to its end, to a later factory, to a later block, or to a smaller
\* chunk, and all of these are bounded (scraper.py:412-431).
THEOREM QueriesAdvance == Spec => EveryQueryAdvances
<1>1. ScanInv /\ [Next]_vars =>
        [factory # 0 /\ restarts' = restarts =>
            Advances /\ to' = to /\ cursor' <= to + 1 /\ factory' \in 0..NumFactories]_vars
  <2> SUFFICES ASSUME ScanInv, Next, factory # 0, restarts' = restarts, ~(UNCHANGED vars)
               PROVE  Advances /\ to' = to /\ cursor' <= to + 1 /\ factory' \in 0..NumFactories
    OBVIOUS
  <2>1. ~Restart
    BY DEF Restart, ScanInv, TypeOK
  <2>2. ~(\E latest \in 0..MaxBlock : BeginScan(latest) \/ NothingNew(latest))
    BY DEF BeginScan, NothingNew
  <2>3. Query
    BY <2>1, <2>2 DEF Next
  <2> QED
    BY <2>3, QueryAdvances
<1> QED
  BY <1>1, ScanInvariance, PTL DEF Spec, EveryQueryAdvances

\* Endpoints that lag never take a scan back behind what was scanned
\* (scraper.py:352-379).
THEOREM ScanNeverFallsBack == Spec => NeverFallsBack
<1>1. ScanInv /\ [Next]_vars =>
        [restarts' = restarts /\ last # None =>
            /\ last' >= last
            /\ factory = 0 /\ factory' # 0 => from' = last + 1 /\ to' > last]_vars
  <2> SUFFICES ASSUME ScanInv, Next, restarts' = restarts, last # None, ~(UNCHANGED vars)
               PROVE  /\ last' >= last
                      /\ factory = 0 /\ factory' # 0 => from' = last + 1 /\ to' > last
    OBVIOUS
  <2> USE DEF ScanInv, TypeOK, Range, None
  <2>1. ~Restart
    BY DEF Restart
  <2>2. CASE Query
    <3>1. factory # 0
      BY <2>2 DEF Query, QuerySucceeds, ShrinkChunk, SkipBlock
    <3>2. last' \in {last, to}
      BY <2>2 DEF Query, QuerySucceeds, ShrinkChunk, SkipBlock, Continue
    <3> QED
      BY <3>1, <3>2
  <2>3. CASE \E latest \in 0..MaxBlock : BeginScan(latest)
    <3>1. PICK latest \in 0..MaxBlock : BeginScan(latest)
      BY <2>3
    <3> DEFINE safeTip == latest - Confirmations
    <3>2. safeTip \in Int /\ last' = last
      BY <3>1, ConfirmationAssumption, BlockAssumption DEF BeginScan
    <3>3. FirstBlock(safeTip) = last + 1 /\ FirstBlock(safeTip) <= safeTip
      BY <3>1 DEF BeginScan, HasNew, FirstBlock
    <3>4. from' = last + 1 /\ to' = safeTip
      BY <3>1, <3>3 DEF BeginScan
    <3> QED
      BY <3>2, <3>3, <3>4
  <2> QED
    BY <2>1, <2>2, <2>3 DEF Next, NothingNew
<1> QED
  BY <1>1, ScanInvariance, PTL DEF Spec, NeverFallsBack

\* Nothing is scanned, or given up, that some endpoint's height does not confirm
\* (scraper.py:363-365): neither by a chunk that is cut at the end of the range
\* nor by one that follows a failure.
THEOREM ScansOnlyConfirmed == Spec => []ConfirmedOnly
<1> DEFINE Top == MaxBlock - Confirmations
           Confirmed == (factory # 0 => to <= Top) /\ (last # None => last <= Top)
<1>1. Init => Confirmed
  BY DEF Init
<1>2. ScanInv /\ Confirmed /\ [Next]_vars => Confirmed'
  <2> SUFFICES ASSUME ScanInv, Confirmed, [Next]_vars PROVE Confirmed'
    OBVIOUS
  <2>0. Top \in Int /\ to \in Nat
    BY ConfirmationAssumption, BlockAssumption DEF ScanInv, TypeOK
  <2>1. ASSUME NEW latest \in 0..MaxBlock, BeginScan(latest) PROVE Confirmed'
    <3>1. to' = latest - Confirmations /\ last' = last
      BY <2>1 DEF BeginScan
    <3>2. latest - Confirmations <= Top
      BY ConfirmationAssumption, BlockAssumption
    <3> QED
      BY <3>1, <3>2
  <2>2. CASE Query
    <3>1. factory # 0 /\ to' = to /\ last' \in {last, to}
      BY <2>2 DEF Query, QuerySucceeds, ShrinkChunk, SkipBlock, Continue
    <3> QED
      BY <3>1
  <2>3. CASE Restart
    BY <2>3 DEF Restart
  <2>4. CASE UNCHANGED vars \/ \E latest \in 0..MaxBlock : NothingNew(latest)
    BY <2>4 DEF NothingNew, vars
  <2> QED
    BY <2>1, <2>2, <2>3, <2>4 DEF Next
<1>3. ScanInv /\ Confirmed => ConfirmedOnly
  <2> SUFFICES ASSUME ScanInv, Confirmed, NEW f \in Factories
               PROVE  covered[f] \cup skipped[f] \subseteq 0..Top
    BY DEF ConfirmedOnly
  <2>0. Top \in Int
    BY ConfirmationAssumption, BlockAssumption
  <2> HIDE DEF Top
  <2>1. CASE start = None
    BY <2>1 DEF ScanInv, Books
  <2>2. CASE start # None
    <3>1. start \in Nat /\ covered[f] \cup skipped[f] = start..Progress(f)
      BY <2>2 DEF ScanInv, Range, Books
    <3>2. Progress(f) \in Int /\ Progress(f) <= Top
      BY <2>0, <2>2, FactoryAssumption DEF ScanInv, TypeOK, Range, Progress, Factories, None
    <3> QED
      BY <2>0, <3>1, <3>2
  <2> QED
    BY <2>1, <2>2
<1> QED
  BY <1>1, <1>2, <1>3, ScanInvariance, PTL DEF Spec
=============================================================================
