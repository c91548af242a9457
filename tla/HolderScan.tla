----------------------------- MODULE HolderScan -----------------------------
(***************************************************************************)
(* HolderAnalyzer of data/holders.py as operators: who holds a token, from *)
(* the Transfer logs between its launch and the newest block.              *)
(*                                                                         *)
(* The range is cut into chunks, which are fetched side by side; a chunk   *)
(* whose query fails is logged and counts as empty. A chain is what the    *)
(* token's contract did: the transfers of each block, in order. The supply *)
(* is what the balances are divided by, and left out. Values are decoded   *)
(* from logs that scraper.py:470 would decode the same way: where that     *)
(* drops a byte, no pair is parsed and no token gets here.                 *)
(***************************************************************************)
EXTENDS Integers, Sequences, FiniteSets, FiniteSetsExt, SequencesExt

CONSTANTS
    Wallets,            \* addresses that are no quote asset and not zero
    Blocks,             \* what a block may hold: sequences of transfers
    ChunkSize,          \* initial_chunk_size
    MaxChunks,          \* MAX_CHUNKS
    MaxTransfers,       \* MAX_TRANSFERS_SCANNED
    MaxHeight           \* bound: the newest block

\* The quote asset stands for what is excluded from the holders besides zero.
\* A pool would be, but get_top_holders names none: it is a wallet like others.
Excluded == {"zero", "quote"}
Addresses == Excluded \cup Wallets

Transfers == [from : Addresses, to : Addresses, value : Nat]

ASSUME HolderAssumption == {ChunkSize, MaxChunks, MaxTransfers, MaxHeight} \subseteq Nat \ {0}
ASSUME WalletAssumption == IsFiniteSet(Wallets) /\ Wallets \cap Excluded = {}
ASSUME BlockAssumption == Blocks \subseteq Seq(Transfers)

\* The balance of a after the transfers of list.
Balance(list, a) ==
    LET sum[i \in 0..Len(list)] ==
            IF i = 0 THEN 0
            ELSE sum[i - 1] + (IF list[i].to = a THEN list[i].value ELSE 0)
                            - (IF list[i].from = a THEN list[i].value ELSE 0)
    IN  sum[Len(list)]

\* Chains from the launch on: nobody sends what they do not have.
Chains ==
    {chain \in UNION {[1..h -> Blocks] : h \in 1..MaxHeight} :
        \A h \in 1..Len(chain) : \A a \in Addresses \ {"zero"} :
            Balance(FlattenSeq(SubSeq(chain, 1, h)), a) >= 0}

-----------------------------------------------------------------------------
NumRanges(chain) == (Len(chain) + ChunkSize - 1) \div ChunkSize

\* Mutant of ChunkRange: both bounds are counted in.
ChunkRangeBeyond(chain, i) ==
    SubSeq(chain, (i - 1) * ChunkSize + 1, Min({i * ChunkSize + 1, Len(chain)}))

\* The blocks of the i-th of chunk_ranges.
ChunkRange(chain, i) ==
    SubSeq(chain, (i - 1) * ChunkSize + 1, Min({i * ChunkSize, Len(chain)}))

\* Too many chunks: the newest are fetched, and truncated is set before
\* anything is read.
Capped(chain) == NumRanges(chain) > MaxChunks
FirstRange(chain) == IF Capped(chain) THEN NumRanges(chain) - MaxChunks + 1 ELSE 1

\* The logs of each chunk that is fetched, in order, none of a failed one.
Results(chain, failed) ==
    [i \in 1..(NumRanges(chain) - FirstRange(chain) + 1) |->
        LET n == FirstRange(chain) + i - 1
        IN  IF n \in failed THEN <<>> ELSE FlattenSeq(ChunkRange(chain, n))]

\* What the loop over the results comes to: with truncated set it ends after
\* the first of them.
Reachable(chain, failed) ==
    IF Capped(chain) THEN Head(Results(chain, failed)) ELSE FlattenSeq(Results(chain, failed))

\* The transfers it takes into account, and truncated when it is over.
Read(chain, failed) ==
    LET logs == Reachable(chain, failed)
    IN  SubSeq(logs, 1, Min({Len(logs), MaxTransfers}))
Truncated(chain, failed) == Capped(chain) \/ Len(Reachable(chain, failed)) > MaxTransfers

\* A transfer leaves the sender and then reaches the receiver.
Booked(b, x) ==
    LET paid == [b EXCEPT ![x.from] = @ - x.value]
    IN  [paid EXCEPT ![x.to] = @ + x.value]

\* balances, one transfer after the other.
Balances(read) ==
    LET b[i \in 0..Len(read)] ==
            IF i = 0 THEN [a \in Addresses |-> 0] ELSE Booked(b[i - 1], read[i])
    IN  b[Len(read)]

\* Positive balances, what is excluded left out; 1 counts as nothing.
Holders(b) == {a \in Addresses \ Excluded : b[a] > 1}

\* first_minter: who gets what is minted first.
FirstMinter(read) ==
    LET mints == {i \in 1..Len(read) : read[i].from = "zero" /\ read[i].to # "zero"}
    IN  {read[i].to : i \in {j \in mints : \A k \in mints : j <= k}}

Report(chain, failed) ==
    LET read    == Read(chain, failed)
        b       == Balances(read)
        holders == Holders(b)
    IN  [holders        |-> holders,
         top_balance    |-> Max({0} \cup {b[a] : a \in holders}),
         minter         |-> FirstMinter(read),
         minter_balance |-> {IF a \in holders THEN b[a] ELSE 0 : a \in FirstMinter(read)},
         truncated      |-> Truncated(chain, failed),
         error          |-> FALSE]

\* The report of analyze when _scan raised: the newest block could not be read.
\* (The supply counts as zero then.) It has an error and is not truncated.
NoReport ==
    [holders |-> {}, top_balance |-> 0, minter |-> {}, minter_balance |-> {},
     truncated |-> FALSE, error |-> TRUE]

\* What analyze can return. get_top_holders looks at the holders alone.
Analyses(chain) ==
    {NoReport} \cup {Report(chain, failed) : failed \in SUBSET (1..NumRanges(chain))}

-----------------------------------------------------------------------------
\* The places of the mints, a block and an index in it, and the first of them.
Mints(seen) ==
    {m \in UNION {{h} \X (1..Len(seen[h])) : h \in 1..Len(seen)} :
        seen[m[1]][m[2]].from = "zero" /\ seen[m[1]][m[2]].to # "zero"}

FirstMints(seen) ==
    {m \in Mints(seen) : \A n \in Mints(seen) : m[1] < n[1] \/ (m[1] = n[1] /\ m[2] <= n[2])}

\* What report r has to say of the transfers of chain seen.
Exact(r, seen) ==
    LET Held(a) == Balance(FlattenSeq(seen), a)
    IN  /\ r.holders = {w \in Wallets : Held(w) > 1}
        /\ \A w \in r.holders : Held(w) <= r.top_balance
        /\ r.holders # {} => \E w \in r.holders : Held(w) = r.top_balance
        /\ r.minter = {seen[m[1]][m[2]].to : m \in FirstMints(seen)}
        /\ \A a \in r.minter : r.minter_balance = {IF a \in r.holders THEN Held(a) ELSE 0}

\* "If the token has too many transfers to scan within the configured budget"
\* (holders.py:27-28), of blocks or of transfers.
Oversized(chain) ==
    Len(chain) > MaxChunks * ChunkSize \/ Len(FlattenSeq(chain)) > MaxTransfers

\* A report is flagged only if the chain is oversized. When every query is
\* answered it is flagged if and only if it is, and else exact for the chain.
ScanExact ==
    \A chain \in Chains :
        /\ \A r \in Analyses(chain) : r.truncated => Oversized(chain)
        /\ IF Oversized(chain) THEN Report(chain, {}).truncated
                                ELSE Exact(Report(chain, {}), chain)
=============================================================================
