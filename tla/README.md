# KenyaPump in TLA+

KenyaPump is one asyncio process (`main.py`) that watches token launches on
Ethereum, Base and Solana, screens them in two layers and alerts by Telegram,
and a second process (`watchdog.py`) that restarts the first. Nothing in it is
multi-threaded, but its coroutines share dictionaries, database connections,
circuit breakers and locks across `await`s, and that is where it is hard to
test. The modules here model those parts: code between two awaits is one step,
every await is a point where the others run.

Contents: [the system](#the-system), [modules](#modules-and-their-code),
[runs](#runs), [proofs](#proofs), [disagreements](#where-code-and-documentation-disagree),
[limits](#what-is-left-out), [plan](#plan). `PROJECT.json` lists all of it for
tools: components, runs, the source lines of every definition, the hazards of
the code with the properties that cover them, mutants and theorems.

## The system

| component | state | operations | what makes it correct |
|---|---|---|---|
| `TokenScraper`, queue (`data/scraper.py`) | `_seen_pairs`, `_pending` with attempts | register a batch of pairs; a retry pass of lookups; callback; retry timer; socket end | a discovered pair is settled once, reported or given up, and never silently lost |
| `TokenScraper`, scan (`data/scraper.py`) | `_last_scanned_block`, learned chunk size | height, chunked `get_logs` per factory, halving, skipping | no block missed, none scanned twice, every scan ends |
| `on_tokens_found` (`main.py`) | the reputation store | screen, record, alert, assess | alerts follow the verdicts; deployers on record; one token's failure costs no other |
| `QuickScreen` (`ai/quick_screen.py`) | none | `check` | the verdict follows from the launch's transfers |
| `HoneypotDetector` (`ai/honeypot.py`) | a GoPlus client | `assess` | one more danger never lowers the level; UNKNOWN when nothing is known |
| `HolderAnalyzer`, `wallet_tracker` (`data/`) | a TTL cache | chunked scan with caps | balances exact, or flagged as truncated, when every query is answered |
| `ReputationStore` (`intelligence/`) | wallet rows | `record_edge`, three queries | one row per wallet, token and role |
| `OutcomeTracker` (`data/solana_outcomes.py`) | `tokens`, `pending`, `snapshots` over one connection | `record_detection`, snapshot loop | every interval of a sampled token is snapshotted, across crashes |
| `SolanaTokenScraper` (`data/solana_scraper.py`) | socket, its buffer, `_stopped`, `reconnect_delay`, the keepalive task | `run_forever`, `_keepalive`, `stop`, cancellation | a connection that is left is replaced; nothing outlives it; launches are handed over in order |
| `RpcPool` (`utils/rpc_pool.py`) | a breaker per endpoint | `call` | priority order, failover, breakers open only on failing endpoints |
| `EthereumAdapter`, `BaseAdapter` (`chains/`) | provider handles | reads; `sign_and_send_transaction`; `wait_for_confirmation` | a retryable error means the effect did not take place |
| `RateLimiter`, `TelegramNotifier` | a deque of times, a lock | `acquire`, `send` | at most `max_calls` per rolling window |
| `watchdog.py`, `main.py` tasks | `was_alive`, `last_restart`; live tasks | check, alert, restart | a dead bot is started again, and only one runs |
| `ScraperStore` (`data/persistence.py`) | SQLite tables | load and save | *no scraper is given one* |
| routers, clients, settings, data classes | – | I/O and constants | – |

How they interact. Each scraper coroutine awaits the shared `on_tokens_found`,
and its own work stands still until it returns. A websocket scraper runs two
coroutines over one `_pending` dict. All reads and writes of an EVM chain pass
through that chain's `RpcPool`, and several coroutines are in it at once; what
is suspended there later writes breakers that others have changed meanwhile.
`QuickScreen`, the wallet tracker and the assessment are awaited one after the
other inside the callback. The notifier's lock is held across its sleep. The
Solana scraper calls `record_detection` while the tracker's loop works on the
same connection, hence in the same SQLite transaction. The watchdog knows the
bot only by `pgrep`.

Hard behaviours, in short: two coroutines over one queue; state read before an
await and written after it; exceptions and cancellations in the middle of a
pass; endpoints that lag, fail or lose an answer after the effect; a commit of
somebody else's half of a transaction; a crash between two statements; a death
that falls between two checks; a peer that disappears without a word; a
cancellation that arrives in a finally clause. Each is a hazard in `PROJECT.json` at its line.

## Modules and their code

* **`TokenScraper`** – the candidate queue. `mode` selects `run_forever` (one
  coroutine, `poller`) or `run_forever_ws` (`listener` and `retrier`), `store`
  says whether a `ScraperStore` is attached; both are chosen in `Init`.
  `PollCycle`/`Message`/`RetryTick` are the three ways into `_retry_pending`;
  `Qualify`, `GiveUp` and `KeepPending` are its branches after
  the lookup; `Proceed` ends the pass (pop what was resolved) or takes the next
  of its snapshot. `work`, `current`, `found` and `resolved` are its locals;
  `reports`, `gaveUp`, `intervals` and `outcome` are history; `outcome` says of
  each pair and coroutine what became of it there, and `again` once it was
  settled there a second time. With a store the code calls
  `mark_pending` and `mark_qualified` with other parameters than
  `persistence.py` declares: both raise `TypeError`, and so do the actions.
* **`PairLedger`** – what the queue promises of its `Hands`, the coroutines: a
  hand claims pairs of the open ones (`Take`) and settles claims (`SettleClaims`),
  each pair once per hand, after which it is open no more; until a restart
  (`Forget`) a pair that is known is not opened again. With two hands two claims
  on one pair are two settlements, and the ledger shows both.
  `TokenScraper!ImplementsLedger` is the refinement: what is known, open and
  claimed is `seen`, `pending` and `Held`, and the outcomes are the scraper's.
* **`BlockScan`** – `_scan_new_blocks` and `_scan_factory`: `BeginScan` reads a
  height (any: endpoints lag), `QuerySucceeds`, `ShrinkChunk` and `SkipBlock`
  are the outcomes of one `get_logs`. `covered`, `twice` and `skipped` are the
  books per factory.
* **`SolanaScraper`** – `phase` and `keepalive` say where the two coroutines are
  suspended, `cause` why the connection is being left. `Closed`, `CleanedUp` and
  `SleepOver` are `__aexit__`, the finally clause and the pause; `Stop` and
  `Cancel` come from outside. The rest is the environment: `link` is the socket,
  which the peer may close, reset, or leave in silence; `inbox` is the library's
  buffer, which fills while a callback runs, and whose notifications may raise when they are
  read (`MessageRaises`); `subscription` is what the node
  made of the request, whose answer nobody reads. `handled` and `discarded` are
  history.
* **`LaunchFeed`** – what that scraper promises about launches, with no
  connections in it: a launch arrives and waits; the oldest that waits is handed
  over, or all that wait are dropped at once. `SolanaScraper!ImplementsFeed` is
  the refinement: what waits is the launches in `inbox`.
* **`OutcomeTracker`** – `db` is what the connection sees, `disk` what is
  committed; `recorder` and `loop` are the two coroutines, one SQL statement a
  step. `StatementRaises` is any statement of a row, `Crash` restores `disk`;
  `torn` remembers detections that a crash or an exception cut in two.
* **`Watchdog`** – `Check`, `Restart`/`SkipRestart` around the awaited alert;
  a bot `Started`, its `TaskEnds`, `Exits` when no task is left, or `Dies`.
  Time is counted in checks (30 s).
* **`RateLimiter`** – `kind` selects `utils/rate_limiter.py` or its inlined twin
  in the notifier, which does not evict after its sleep. The deque is the tail
  of the history `calls` from `head` on. A sleeper may be cancelled.
* **`RpcPool`** – one call per caller: `Begin` fixes its list of endpoints
  (`todo`), then `Answers`, `RateLimited`, `Raises`, and `Resume` after a
  backoff. **`SwapSubmission`** extends it by one transaction that a trader
  sends and waits for while the others read through the same pool; `tx` is what
  the chain knows, one view for all endpoints, `phase` what the trader does. A
  retry may broadcast again what was dropped (`Accepted`).
* **`QuickScreen`** – `check` as the operator `Checked`: the set of what it can
  return, over every set of chunks that could be read. Balances are percentages,
  and a chunk is one of four kinds of trading.
* **`HoneypotScore`** – `assess` as the operator `Level`, from a report and a
  simulated sale to a risk level. A report is a record of what the score tells
  apart: three flags that weigh most, the flags that only add points, the trust
  list, and the ranges of the taxes, of the largest holder and of the holder
  count (`zero` and `unknown` among them, which truthiness keeps apart). All
  thirteen of the flags that add points are there; the constant `Flags` says
  which of them reports may set.
* **`HolderScan`** – `_scan` as the operator `Report`, from a chain of transfers
  and a set of chunks whose queries fail to what it returns: the chunk ranges,
  the cap on them, the loop that stops at `truncated`, the sums. `Analyses` is
  what `analyze` returns, the report with an error when the height cannot be read
  (`NoReport`) among it; `get_top_holders` lists its holders and drops the rest.
  The reference is `Balance` over all transfers of the chain. `Wallets` and
  `Blocks`, what a block may hold, are constants.
* **`TokenPipeline`** – the callback: one `pc` per handler, one action per
  await. It extends `QuickScreen`, `HoneypotScore` and `HolderScan`, whose report
  is what the handler records as top holders: `Screened` takes any
  element of `Checked` (a REJECT by an exception included, which carries the
  deployer if it was found before), `Assessed` any level that `Level` gives to an answer.
  `DeployerRecorded` has the store's success and its swallowed exception.

`MC*` modules hold what a `.cfg` cannot write. A definition commented "Mutant
of X" is X as a plausible mistake would have it. It is no part of the
specification; substituting it for X shows that the property named in
`PROJECT.json` fails, hence that the property says something about X.

## Runs

Model values are symbols, so two or three pairs, tokens or callers stand for
any; the bounds below make each interesting case happen at least twice.

| run | bounds | states | shows |
|---|---|---|---|
| `scraper` | 3 pairs, 2 attempts, 1 restart, both modes, with and without a store | 144,808 | no pair lost, no coroutine settles a pair twice, attempts exceed the limit by one at most, every pair is settled; polling: reported or given up, once and not both, and given up only after the window; the queue implements `PairLedger` |
| `scraper_ws_duplicate` | 2 pairs | – | **violated**: a pair is reported twice, or after it was given up |
| `scan` | 2 factories, chunks up to 4, heights up to 6, 1 restart | 109,114 | no gap, nothing twice, scans end |
| `solana` | 4 launches, buffer of 3, delay up to 4 | 20,231 | connections are replaced and nothing outlives them; launches in order, none lost by a lost connection; the pause follows the failed connects; stop and cancellation end the scraper; a vanished peer is noticed |
| `outcomes` | 2 tokens, 3 intervals, 1 crash, 1 raising statement | 51,544 | the index never passes a snapshot that is not stored, in memory and on disk; repeats are owed to faults; all snapshots are taken |
| `watchdog` | 4 processes, 2 deaths, 1 each of misread, operator start, Popen failure | 13,274 | bots bounded by misreads and the operator; the cooldown refuses nothing after the first restart; seen deaths are acted on |
| `watchdog_stays_down` | 2 deaths | – | **violated**: a bot that dies before the next check stays down |
| `limiter` | 2 calls per 3 ticks, 12 ticks | 14,550 | rolling window, no needless wait, in both copies |
| `swap` | 2 callers, 2 endpoints, 3 tries, breaker after 3 | 228,719 | priority, exhaustion, breakers open when they should be and only then; every call ends |
| `swap_lost_answer` | same, shorter clock | – | **violated**: a retryable error for a transaction that was broadcast |
| `pipeline` | 2 handlers sharing 1 of 2 tokens, every kind of launch; every report; chains of up to 5 blocks in chunks of 2 | 472,342 | PASS and DANGER alerts and records follow verdicts; no token is skipped; levels are ordered and mean what they say; a holder report is flagged only for an oversized chain, and when no query failed it is flagged or exact |
| `pipeline_partial_scan` | 1 token, 2 chunks | – | **violated**: a bundle is announced as PASS |

Why the bounds suffice. The queue's hazards are between two coroutines and one
pair, with a second pair to keep the pass going and a third to be queued
meanwhile. The scan needs a chunk that is halved twice, a boundary on each side
and a second factory that inherits the learned size. The Solana buffer holds the
answer to the subscription and two launches behind the one that is handled, and
fills; a delay of 4 is reached after two failures and held by a third. The
tracker needs a clock that outruns all three intervals (1, 2, 4), so that several
are due at once after a crash. A breaker opens within one call (3 tries) while
the other caller is still in its own. Within one chunk the pipeline meets every
verdict; the second chunk is needed only for the partial scan. Five blocks make
three chunks, the last of them short, one more than the cap (2) and room for one
more transfer than the other cap (3).

`DangersNeverLowerLevel`, `LevelsKeepTheirWord` and `HolderReportExact` are about
functions: at a state in which a handler awaits that function, they quantify over
every input within the bounds: two flags, two wallets, nine kinds of block. The
proofs have them for all flags, wallets, blocks, chunk sizes and caps.

Fairness. Timers of the event loop fire and awaited I/O ends, because every
client has a timeout, so each coroutine's own steps are weakly fair. The
environment is never obliged: no pair or token need appear, no query need
succeed, no bot need stay up, nobody need stop or cancel anything. What is
assumed beyond that is stated where it is: endpoints do not fail for ever, so a
poll cycle eventually reaches a queue with candidates (`TokenScraper!Fairness`);
the clock ticks (strongly fair in `OutcomeTracker`, since detections may interrupt
it for ever); connecting and subscribing to Helius do not fail for ever (strong),
Helius closes a connection nobody pings, as the comment at solana_scraper.py:150
has it, and the kernel gives up a socket whose data is not acknowledged
(`SolanaScraper!Fairness`). The pong is under no such assumption: it comes from a
peer that is there and from no other.

`CHECK_DEADLOCK FALSE` stands where the system may stop: `scraper` and
`scraper_ws_duplicate` (after the socket closes both coroutines end and nothing
restarts them), `solana` (stopped or cancelled, it has ended), `limiter` (the
clock is bounded and nobody need call), and the two pipeline runs (each handler
brings a token at most once, so there is an end).

## Proofs

All for arbitrary constants under the named `ASSUME`s. Each proof module states
an inductive invariant that its component defines, proves `Init`, step and
consequence, and ends with the theorems. TLC checked the invariants first, and
every property that a theorem states and no run lists, on the bounds of its
component's run. The type invariant of each component is a conjunct of its
inductive invariant and a theorem of its own (`TypeCorrect`, `ScanTypeCorrect`,
`LimiterTypeCorrect`, `WatchdogTypeCorrect`, `PipelineTypeCorrect`,
`OutcomeTypeCorrect`, `SolanaTypeCorrect`, `SwapTypeCorrect`), so most runs do
not list it.

Every invariant, action property and refinement of the passing runs is proved;
what is left to TLC is liveness. Of `ScanTerminates`, `EveryCallEnds` and
`EveryTokenHandled` the variant is proved, as an action property: each step
moves along an order in which it cannot move for ever, and only the fairness
that makes it step is TLC's part.

* **`TokenScraperProofs`** – `NothingLost`, `ReportedOncePerWorker`, both modes,
  any number of pairs. `NoSilentLoss` is not inductive: a pair between its
  lookup and the end of the pass is popped on the strength of `resolved`.
  `QueueInv` adds that everything resolved was found or given up (`PassInv`),
  that everything held was seen (`AllSeen`), and that a lookup is for a pair
  (`Awaiting`). A second invariant over it, `SettleInv`, carries
  `PollerSettlesOnce`, `WindowIsKept` and `LookupsBounded`: what a pass has left,
  under way and settled is disjoint (`PassShape`); a popped pair is left to one
  coroutine (`OneHolder`); the poller has neither queued nor in its snapshot what
  it gave up, but for what it is about to pop (`PollerInv`); a pair at the limit is
  about to be popped by somebody, so only an older snapshot can look it up again
  (`AttemptsInv`); and attempts stay behind poll intervals (`WindowInv`).
  `StepKinds` sorts the actions into the start of a pass, its abandonment, the end
  of a lookup, a restart and a stutter, and each conjunct is kept kind by kind.
  `OutcomeInv` says what `outcome` is made of: a coroutine has a report or a
  giving up of a pair exactly where `reports` or `gaveUp` has it, and never a
  pair in hand that it settled before. With both invariants, `LedgerImplemented`
  maps the start or the abandonment of a pass to `Take`, the end of a lookup to `SettleClaims`, and
  a restart to `Forget`; `PollerSettlesOnce` says that no outcome is `again`.
* **`BlockScanProofs`** – `NoBlockMissed`, `NoBlockRepeated`, `SkipsJustified`,
  any factories and chunk size. `ScanInv` says that the books of a factory are
  exactly the interval from the start to its progress: all of the range for
  factories before the current one, up to the cursor for it, the old range for
  those behind it. `QueriesAdvance` is the variant of the scan, factory, cursor
  and chunk: a failed query moves it by halving the chunk or, at one block, by
  giving it up. `ScanNeverFallsBack` needs that a scan under way begins behind
  `last` and ends beyond it, so that a height from an endpoint that lags begins
  none; `ScansOnlyConfirmed` that its end has its confirmations.
* **`SolanaScraperProofs`** – `NothingLeaks`, `LaunchesKept`, any number of
  launches, buffer and delay. `SolanaInv` adds `ConnectionOK`: which places of
  `run_forever` have a socket, and that a connection left as lost was read
  empty; and `InboxOK`: what is buffered is in order, and later than all that
  was handed over. `PausesDouble` says what the delay is at every place of the
  loop (`DelayOK`): it is doubled after the pause and used before the next, so
  while the scraper sleeps it is that of the failures or, the failure being
  counted first, of one fewer. It needs that capped powers of two double to
  capped powers of two. `FeedImplemented` maps the receipt of a launch to `Hand`,
  which is of the oldest by `InboxOK`, an end of the connection that throws the
  buffer away to `Drop`, and whatever else to `Arrive` or a stutter; a lost
  connection drops nothing, because it was read empty.
* **`OutcomeTrackerProofs`** – `NoSnapshotLost`, `RepeatsBounded`,
  `SnapshotsInOrder`, `QueuedTokensRecorded`, any tokens, intervals, crashes and
  raising statements. `OutcomeInv` says the same of both copies of the tables
  (`RowOK`), so a commit and a crash, which copy one to the other, keep it;
  `RecorderOK` and `LoopOK` say that the two coroutines never work on the same
  row: a token is inserted by one and is due only later. `RepeatsOK` counts: a
  snapshot in memory is ahead of its index only while the loop is between the
  two statements, and one on disk by the repeat that a crash would make of it.
  `CommitsAreKept` says of two successive contents of the disk what is never
  undone. Its invariant is that memory always extends the disk in that sense;
  then a commit, of whichever coroutine, copies an extension, and a crash and an
  exception leave the disk alone.
* **`RateLimiterProofs`** – `WindowRespected`, `DequeStaysShort`,
  `NobodyWaitsInVain`, any limit and period. The invariant needs that what was
  popped is older than a period and that a sleeper waits for the oldest call of
  a full deque.
* **`WatchdogProofs`** – `CooldownNeverRefuses`, `FewInstances`. A check that
  saw the bot alive came a check after the restart; while a death is alerted,
  every live bot is owed to a misread or the operator. `DeathsAreAnswered`, the
  safety part of `SeenDeathRestarted`, follows from the former: the branch that
  skips the restart is dead after the first one.
* **`SwapSubmissionProofs`** – `RaisesWhenExhausted`, `PriorityKept`,
  `BreakersJustified`, `FailingIsDisabled`, any callers, endpoints, tries and clock. Every step of the trader and the readers is a step of the pool or
  leaves it alone (`EveryStepIsThePools`). `PoolInv` says that an open call has
  failed at, skipped or still to do each endpoint (`CallOK`), whence both
  exhaustion and priority; and that a breaker is open as long as its failures
  ask, and no longer (`BreakerOK`). That a list has a first endpoint rests on the
  well-foundedness of the naturals. `CallsMoveOn` is the variant of a call: fewer
  endpoints to do, a later try at the same, or the end of its pause; nobody else
  moves it, and no step takes it back. So it tries each endpoint `MaxRetries`
  times at most, however the breakers change under it.
* **`TokenPipelineProofs`** – `AlertsCorrect`, `DeployersKept`, any handlers and
  tokens, any launches. `PipelineInv` says for each handler what its `pc` implies
  for the current token and that the tokens to come are untouched. Only the rows
  are shared, and rows of deployers never go away, so a step of one handler keeps
  every other's part (`OthersKeep`); the steps of a handler itself end its token
  (`Finishes`), stay with it (`Stays`) or take the next (`Proceeds`). Of
  `QuickScreen` only the shape of what it returns is used. The same
  step kinds give `TokensCarriedThrough`, the variant behind `EveryTokenHandled`.

  The rest is about the operators. `RanksAreOrdered` and `LevelsAreTruthful`
  (`DangersOrdered`, `LevelsTrusted`) bound each of the score's sums by what one
  more danger adds to it, and go through the thresholds; no flag is named but the
  thirteen of the code. `ReportsExact` (`HoldersExact`) is about sums that recur
  over the transfers: with every query answered, a report is that of the whole
  chain unless it is flagged. The lemmas under it say what the answered chunks
  add up to when some failed, which is no claim about the chain. Induction is by a set: the numbers up to a bound at which
  an equation fails have no least element, since the naturals are well-founded
  (`WFMin` of the library), so there are none. With it, a balance over two lists
  one after the other is the sum of the two, the loop over the chunks sums what
  the answered ones hold until it stops as truncated, and a scan that never
  stopped has gone through every chunk.

Checked by TLC only: liveness (`EventuallySettled`, `ScanTerminates`,
`QueueDrains`, `EverySnapshotTaken`, `SeenDeathRestarted`, `EveryCallEnds`,
`EveryTokenHandled`, `ListensAgain`, `StopEnds`, `CancelEnds`,
`VanishedPeerNoticed`), which rests on fairness and is beyond the prover; and
the properties of the runs that expect a violation, which do not hold.

`RateLimiter` assumes that the clock passes the end of a sleep
(`ClockAssumption`). On a clock so coarse that two readings around an await are
equal, the oldest call would be exactly a period old, would not be popped, and
the calls of that tick would be let through beside it.

## Where code and documentation disagree

Shown by a run, and listed as findings:

1. `scraper_ws_duplicate`: message loop and `retry_loop` retry the same pairs;
   a pair may be reported by both, or reported after it was given up.
2. `watchdog_stays_down`: the restart is taken on the edge from alive to dead,
   and a bot that is gone at the check after its restart gives no edge.
3. `swap_lost_answer`: the pool retries whatever raised and ends in the
   retryable `ChainConnectionError`, also when the transaction was broadcast.
4. `pipeline_partial_scan`: a chunk that could not be read is skipped, and the
   verdict computed as if nothing had happened in it.

Met while modelling, and modelled as the code has it, without a run:

* In websocket mode every message spends an attempt of every queued pair, so
  the 20-minute window of README.md:19-20 shrinks with traffic.
  `GivesUpAfterWindow` is about polling.
* A closed socket ends the detection of that EVM chain (README.md:95 has
  reconnection); `EventuallySettled` excepts it.
* main.py:106-122 attaches no store, so a restart does re-process
  (README.md:34); with one attached the first new pair raises `TypeError`.
* `SolanaTokenScraper`: a cancellation that reaches the finally clause while it
  waits for the cancelled keepalive task is swallowed there
  (solana_scraper.py:114), and main.py:446 waits for a scraper that connects
  again. An error answer to the subscription is ignored (176): the connection
  stays open without launches. `stop()` creates the coroutine of `close()` and
  does not await it (62), so it closes nothing. The pong is awaited without a
  timeout (155): a peer that vanishes there is not noticed, which is why
  `VanishedPeerNoticed` begins between two pings.
* `record_detection` and the tracker's loop share a transaction, and each commits
  statements of the other (solana_outcomes.py:302, 397). `RepeatsNeedFaults` and
  `QueuedTokenHasRow` say how far that can go; a detection that raises between
  its inserts is committed by halves, and every snapshot of that token dropped.
* WATCH is sent to Telegram (main.py:264; README.md:30-31 says PASS and DANGER
  only). A WATCH of the age gate carries no percentage, and formatting its
  warning (main.py:250) raises past it. `AlertsFollowVerdicts` therefore asks for
  no WATCH alert; it says that one is sent for no other verdict, and that layer 2
  assesses the token nevertheless. Deployers of PASS tokens are not recorded.
* Levels HIGH and UNKNOWN are logged as `[SAFE]` (main.py:345-347 against
  honeypot.py:62). A honeypot on GoPlus's trust list is HIGH only
  (`LevelsKeepTheirWord` allows it), hence not alerted.
* A holder scan that is capped at 600 chunks reads the first of the newest 600
  only, because `truncated` is set before the loop that stops at it
  (holders.py:242, 300). A chunk whose query fails leaves the report unflagged
  (261), against holders.py:25-28, and its balances wrong; `HolderReportExact`
  says nothing of the balances then, nor of those of a flagged report. When the
  height cannot be read the report is empty, unflagged, and has an `error`.
  `get_top_holders` passes on neither flag nor error. `wallet_tracker` makes an
  analyzer per call, so its cache is never hit, and names no pool, so the pool
  counts as a holder, against holders.py:23-24.
* A notification whose `context` is null raises in `_process_message`
  (solana_scraper.py:214), outside its `try`, and costs the connection and what
  is buffered, like a raising callback.
* The lookahead windows are inclusive, 21 and 11 blocks, hence three and two
  chunks. The pool's own address is not passed by main.py:202 either.
* `wait_for_confirmation` never reports DROPPED. A reverted transaction is fatal
  (exceptions.py:45) and raised as such (ethereum.py:506), but the pool counts
  it against the endpoints and ends in the retryable `ChainConnectionError`, or in
  PENDING if the next endpoint has no receipt.
* `data.hex()[2:]` (scraper.py:470, quick_screen.py, holders.py) drops a byte
  where `HexBytes.hex()` has no `0x` prefix (hexbytes 1, web3 7). There every
  pair log fails to parse, and no EVM token reaches the pipeline. The models are
  of the code as it was meant to decode; logs are their inputs.

## What is left out

Decoding and building of events, price requests (DexScreener, GeckoTerminal, the
latter unused), report texts and formatting, HTTP and Telegram wire formats,
logging, settings, routers, the Solana adapter (stateless reads; its writes raise
`NotImplementedError`), quotes and gas estimates of the EVM adapters, the tables
of `ScraperStore` (nobody creates one) and the queries of `ReputationStore`
(nobody calls them). The snapshots' contents and the `attempts` column of the
tracker, which nothing reads. Durations below a check, a tick or a minute are not
told apart.

Some hazards of `PROJECT.json` name no property, or have a note on the part that
no property covers: where the code does go wrong, a property that holds can only
exempt the case. The exemptions are: pairs whose window shrinks with messages and
a closed socket; torn detections; the swallowed cancellation and the pong that
never comes; twins beside a misread or a start by hand, and the cooldown near
boot; endpoints that disagree about a receipt; failed chunks of a holder scan.
Each is in the list of disagreements above or in the property's comment.

Three more hazards follow from what is absent, and are the subject of no property: queue,
dedup set and history are in memory, so a restart repeats reports (main.py:106);
a scraper whose task has ended leaves a process that `pgrep` finds alive
(main.py:46; `EventuallySettled` and `Watchdog!TaskEnds` meet it from both sides);
a burst of alerts sleeps with the notifier's lock held, inside the callback that
every scraper waits for (telegram.py:63-71).

## Plan

Done: queue, scan, Solana connection, tracker, supervision, limiter, pool and
swap, screen, honeypot score, holder scan and pipeline, with the proofs above.
What is next, in the order of importance:

1. `Scraper`: `BlockScan` and `TokenScraper` composed, so that a pair is followed
   from its block to its report, and over a restart beyond the lookback.
2. `SolanaScraper` composed with `OutcomeTracker`'s recorder as its callee, for
   what a raising detection costs the launches behind it.

A new run takes the place of a shallower one, so that each still asks a question
of its own.
