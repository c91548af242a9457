---------------------------- MODULE TokenScraper ----------------------------
(***************************************************************************)
(* The candidate queue of one TokenScraper (src/data/scraper.py): pairs    *)
(* announced by a factory are deduplicated and queued by                   *)
(* _process_new_events, looked up on DexScreener by _retry_pending until   *)
(* they qualify or pending_max_attempts is reached, and handed to the      *)
(* on_tokens_found callback.                                               *)
(*                                                                         *)
(* The scraper runs on one asyncio event loop: code between two awaits is  *)
(* one step, and every await is a point where the other coroutine runs.    *)
(*   polling    one coroutine, run_forever (the "poller");                 *)
(*   websocket  two coroutines over the same _pending dict, the message    *)
(*              loop of run_forever_ws (the "listener") and its background *)
(*              retry_loop (the "retrier").                                *)
(* Which pairs a poll or a message announces, and what DexScreener and     *)
(* get_token_info answer, is up to the environment.                        *)
(***************************************************************************)
EXTENDS Integers

CONSTANTS
    Pairs,          \* pair addresses (lower-cased)
    NoPair,         \* "no candidate is being looked up"
    MaxAttempts,    \* ScraperConfig.pending_max_attempts
    MaxRestarts     \* bound: how often the process is restarted

ASSUME AttemptsAssumption == MaxAttempts \in Nat \ {0}
ASSUME PairAssumption == NoPair \notin Pairs
ASSUME RestartAssumption == MaxRestarts \in Nat

Workers == {"poller", "listener", "retrier"}

\* The attempt counters stop at this bound. Without a store no counter gets
\* there (AttemptsBounded); with one they grow for ever.
AttemptCap == MaxAttempts + 2
Bump(n) == IF n < AttemptCap THEN n + 1 ELSE n

VARIABLES
    mode,        \* ScraperConfig.mode, "polling" or "websocket"
    store,       \* _store: "none", or "attached" if a ScraperStore was passed
    seen,        \* _seen_pairs
    pending,     \* keys of _pending
    attempts,    \* _PendingCandidate.attempts, per pair
    pc,          \* where each coroutine is suspended
    work,        \* rest of the snapshot list(self._pending.items()), per coroutine
    current,     \* the candidate whose _try_enrich is awaited
    found,       \* found, local to a pass of _retry_pending
    resolved     \* resolved_this_cycle, local to a pass

VARIABLES
    reports,     \* history: the coroutines that handed a pair to on_tokens_found
    gaveUp,      \* history: pairs logged as given up in this process
    outcome,     \* history: how each coroutine's passes settled each pair
    intervals,   \* history: poll intervals begun while the pair was pending
    restarts     \* number of restarts so far

queueVars == <<mode, store, seen, pending, attempts>>
passVars  == <<pc, work, current, found, resolved>>
history   == <<reports, gaveUp, outcome, intervals, restarts>>
vars      == <<mode, store, seen, pending, attempts, pc, work, current, found, resolved,
               reports, gaveUp, outcome, intervals, restarts>>

-----------------------------------------------------------------------------
Init ==
    /\ mode \in {"polling", "websocket"}
    /\ store \in {"none", "attached"}
    /\ seen = {}
    /\ pending = {}
    /\ attempts = [p \in Pairs |-> 0]
    /\ pc = [w \in Workers |-> "waiting"]
    /\ work = [w \in Workers |-> {}]
    /\ current = [w \in Workers |-> NoPair]
    /\ found = [w \in Workers |-> {}]
    /\ resolved = [w \in Workers |-> {}]
    /\ reports = [p \in Pairs |-> {}]
    /\ gaveUp = {}
    /\ outcome = [p \in Pairs |-> [w \in Workers |-> "none"]]
    /\ intervals = [p \in Pairs |-> 0]
    /\ restarts = 0

\* The candidates a pass of coroutine w has still to settle or to pop.
Held(w) == work[w] \cup resolved[w] \cup ({current[w]} \ {NoPair})

\* on_tokens_found(tokens) is called by coroutine w, if there are any.
Report(w, tokens) ==
    reports' = [p \in Pairs |-> IF p \in tokens THEN reports[p] \cup {w} ELSE reports[p]]

\* The pass of w ends: for this coroutine the pairs of hits are reported and the
\* others of done given up; a pair it had settled before is settled "again".
Settle(w, hits, done) ==
    outcome' = [p \in Pairs |->
        IF p \in done
        THEN [outcome[p] EXCEPT ![w] = IF @ # "none" THEN "again"
                                       ELSE IF p \in hits THEN "reported" ELSE "given_up"]
        ELSE outcome[p]]

-----------------------------------------------------------------------------
\* Mutant of Registered: the check against _seen_pairs is missing.
RegisteredAgain(batch) == {batch}

\* What _process_new_events adds to _seen_pairs and _pending. With a store,
\* mark_pending is called with more arguments than it takes: the first new
\* pair is registered, the call raises TypeError and the rest is lost.
Registered(batch) ==
    LET fresh == batch \ seen
    IN  IF store = "attached" /\ fresh # {} THEN {{p} : p \in fresh} ELSE {fresh}

RegisterRaises(batch) == store = "attached" /\ batch \ seen # {}

Enqueue(new) ==
    /\ seen' = seen \cup new
    /\ pending' = pending \cup new

\* The exception a coroutine does not handle ends run_forever_ws, whose
\* finally clause cancels the retry task wherever it is suspended.
EndListening ==
    /\ pc' = [w \in Workers |-> "ended"]
    /\ work' = [w \in Workers |-> {}]
    /\ current' = [w \in Workers |-> NoPair]
    /\ found' = [w \in Workers |-> {}]
    /\ resolved' = [w \in Workers |-> {}]

\* Coroutine w leaves its pass for state next, which forgets its locals.
LeavePass(w, next) ==
    /\ pc' = [pc EXCEPT ![w] = next]
    /\ work' = [work EXCEPT ![w] = {}]
    /\ current' = [current EXCEPT ![w] = NoPair]
    /\ found' = [found EXCEPT ![w] = {}]
    /\ resolved' = [resolved EXCEPT ![w] = {}]

\* An exception in a cycle: caught by the cycle's except clause in the two
\* timed loops, fatal in the message loop.
CycleFails(w) == IF w = "listener" THEN EndListening ELSE LeavePass(w, "waiting")

\* The pass of w awaits the lookup of p next; its attempt is counted before.
LookUp(w, p, rest) ==
    /\ work' = [work EXCEPT ![w] = rest \ {p}]
    /\ current' = [current EXCEPT ![w] = p]
    /\ attempts' = [attempts EXCEPT ![p] = Bump(@)]

\* _retry_pending starts over a snapshot of the queue.
StartPass(w, queue) ==
    IF queue = {}
    THEN UNCHANGED <<attempts, pc, work, current, found, resolved>>
    ELSE \E p \in queue :
            /\ LookUp(w, p, queue)
            /\ pc' = [pc EXCEPT ![w] = "enriching"]
            /\ UNCHANGED <<found, resolved>>

\* One more poll interval for every queued pair.
CountInterval(queue) ==
    intervals' = [p \in Pairs |-> IF p \in queue /\ intervals[p] < MaxAttempts
                                  THEN intervals[p] + 1 ELSE intervals[p]]
-----------------------------------------------------------------------------
\* run_forever: one scan_once, in which the factories announced batch.
PollCycle(batch) ==
    /\ mode = "polling"
    /\ pc["poller"] = "waiting"
    /\ \E new \in Registered(batch) :
        /\ Enqueue(new)
        /\ CountInterval(pending \cup new)
        /\ IF RegisterRaises(batch)
           THEN CycleFails("poller") /\ UNCHANGED attempts
           ELSE StartPass("poller", pending \cup new)
    /\ UNCHANGED <<mode, store, reports, gaveUp, outcome, restarts>>

\* scan_once raises in _scan_new_blocks (the RPC endpoints fail): the cycle is
\* over before it reaches _retry_pending, and no attempt is counted.
PollFails ==
    /\ mode = "polling"
    /\ pc["poller"] = "waiting"
    /\ CountInterval(pending)
    /\ UNCHANGED <<queueVars, passVars, reports, gaveUp, outcome, restarts>>

\* run_forever_ws: a subscription message announces pair p.
Message(p) ==
    /\ mode = "websocket"
    /\ pc["listener"] = "waiting"
    /\ \E new \in Registered({p}) :
        /\ Enqueue(new)
        /\ IF RegisterRaises({p})
           THEN CycleFails("listener") /\ UNCHANGED attempts
           ELSE StartPass("listener", pending \cup new)
    /\ UNCHANGED <<mode, store, history>>

\* retry_loop: the sleep is over.
RetryTick ==
    /\ mode = "websocket"
    /\ pc["retrier"] = "waiting"
    /\ StartPass("retrier", pending)
    /\ CountInterval(pending)
    /\ UNCHANGED <<mode, store, seen, pending, reports, gaveUp, outcome, restarts>>

\* Mutants of Proceed: what the end of a pass pops from the queue is not what
\* the pass resolved, but everything; only what was given up; only what was
\* found.
ProceedPopping(w, hits, done, popped) ==
    \/ \E q \in work[w] :
        /\ LookUp(w, q, work[w])
        /\ found' = [found EXCEPT ![w] = hits]
        /\ resolved' = [resolved EXCEPT ![w] = done]
        /\ UNCHANGED <<pc, pending, reports, outcome>>
    \/ /\ work[w] = {}
       /\ pending' = pending \ popped
       /\ Report(w, hits)
       /\ Settle(w, hits, done)
       /\ LeavePass(w, IF hits = {} THEN "waiting" ELSE "callback")
       /\ UNCHANGED attempts
ProceedClearing(w, hits, done) == ProceedPopping(w, hits, done, pending)
ProceedKeepingFound(w, hits, done) == ProceedPopping(w, hits, done, done \ hits)
ProceedKeepingGivenUp(w, hits, done) == ProceedPopping(w, hits, done, hits)

\* After the outcome of one lookup: go on with the next candidate of the
\* snapshot, or pop what was resolved and hand over what was found.
Proceed(w, hits, done) ==
    \/ \E q \in work[w] :
        /\ LookUp(w, q, work[w])
        /\ found' = [found EXCEPT ![w] = hits]
        /\ resolved' = [resolved EXCEPT ![w] = done]
        /\ UNCHANGED <<pc, pending, reports, outcome>>
    \/ /\ work[w] = {}
       /\ pending' = pending \ done
       /\ Report(w, hits)
       /\ Settle(w, hits, done)
       /\ LeavePass(w, IF hits = {} THEN "waiting" ELSE "callback")
       /\ UNCHANGED attempts

\* _try_enrich returned a TokenInfo. With a store, mark_qualified is called
\* with arguments it does not take and the pass is abandoned.
Qualify(w) ==
    /\ pc[w] = "enriching"
    /\ IF store = "attached"
       THEN CycleFails(w) /\ UNCHANGED <<pending, attempts, reports, outcome>>
       ELSE Proceed(w, found[w] \cup {current[w]}, resolved[w] \cup {current[w]})
    /\ UNCHANGED <<mode, store, seen, gaveUp, intervals, restarts>>

\* Mutant of GiveUp: any failed lookup is final.
GiveUpAtOnce(w) ==
    /\ pc[w] = "enriching"
    /\ gaveUp' = gaveUp \cup {current[w]}
    /\ Proceed(w, found[w], resolved[w] \cup {current[w]})
    /\ UNCHANGED <<mode, store, seen, intervals, restarts>>

\* _try_enrich returned None for the last time.
GiveUp(w) ==
    /\ pc[w] = "enriching"
    /\ attempts[current[w]] >= MaxAttempts
    /\ gaveUp' = gaveUp \cup {current[w]}
    /\ Proceed(w, found[w], resolved[w] \cup {current[w]})
    /\ UNCHANGED <<mode, store, seen, intervals, restarts>>

\* _try_enrich returned None and attempts remain. With a store, mark_pending
\* raises as it does in _process_new_events.
KeepPending(w) ==
    /\ pc[w] = "enriching"
    /\ attempts[current[w]] < MaxAttempts
    /\ IF store = "attached"
       THEN CycleFails(w) /\ UNCHANGED <<pending, attempts, reports, outcome>>
       ELSE Proceed(w, found[w], resolved[w])
    /\ UNCHANGED <<mode, store, seen, gaveUp, intervals, restarts>>

\* on_tokens_found returns to the coroutine that awaited it.
CallbackReturns(w) ==
    /\ pc[w] = "callback"
    /\ LeavePass(w, "waiting")
    /\ UNCHANGED <<queueVars, history>>

\* on_tokens_found raises.
CallbackRaises(w) ==
    /\ pc[w] = "callback"
    /\ CycleFails(w)
    /\ UNCHANGED <<queueVars, history>>

\* The socket closes, or could not be opened: process_subscriptions ends,
\* and with it run_forever_ws. Nothing in the module connects again.
Disconnect ==
    /\ mode = "websocket"
    /\ pc["listener"] = "waiting"
    /\ EndListening
    /\ UNCHANGED <<queueVars, history>>

\* The process is killed or stopped, and started again. Everything but the
\* store is lost, and the store holds no row of seen_pairs: every INSERT goes
\* through mark_pending, whose calls raise.
Restart ==
    /\ restarts < MaxRestarts
    /\ restarts' = restarts + 1
    /\ seen' = {}
    /\ pending' = {}
    /\ attempts' = [p \in Pairs |-> 0]
    /\ pc' = [w \in Workers |-> "waiting"]
    /\ work' = [w \in Workers |-> {}]
    /\ current' = [w \in Workers |-> NoPair]
    /\ found' = [w \in Workers |-> {}]
    /\ resolved' = [w \in Workers |-> {}]
    /\ reports' = [p \in Pairs |-> {}]
    /\ gaveUp' = {}
    /\ outcome' = [p \in Pairs |-> [w \in Workers |-> "none"]]
    /\ intervals' = [p \in Pairs |-> 0]
    /\ UNCHANGED <<mode, store>>

-----------------------------------------------------------------------------
Step(w) ==
    \/ Qualify(w)
    \/ GiveUp(w)
    \/ KeepPending(w)
    \/ CallbackReturns(w)
    \/ CallbackRaises(w)

Next ==
    \/ \E batch \in SUBSET Pairs : PollCycle(batch)
    \/ PollFails
    \/ \E p \in Pairs : Message(p)
    \/ RetryTick
    \/ \E w \in Workers : Step(w)
    \/ Disconnect
    \/ Restart

Spec == Init /\ [][Next]_vars

\* Timers fire, a queue with candidates is eventually reached by a cycle (the
\* RPC endpoints do not fail for ever), and every awaited lookup and callback
\* ends: the HTTP clients have timeouts and asyncio resumes what is ready.
\* Nothing obliges a factory to announce a pair, the socket to close or the
\* process to restart.
Fairness ==
    /\ WF_vars(pending # {} /\ \E batch \in SUBSET Pairs : PollCycle(batch))
    /\ WF_vars(RetryTick)
    /\ \A w \in Workers : WF_vars(Step(w))

FairSpec == Spec /\ Fairness

-----------------------------------------------------------------------------
Outcomes == [Pairs -> [Workers -> {"none", "reported", "given_up", "again"}]]

\* Every variable has its type.
TypeOK ==
    /\ mode \in {"polling", "websocket"}
    /\ store \in {"none", "attached"}
    /\ seen \subseteq Pairs
    /\ pending \subseteq Pairs
    /\ attempts \in [Pairs -> 0..AttemptCap]
    /\ pc \in [Workers -> {"waiting", "enriching", "callback", "ended"}]
    /\ work \in [Workers -> SUBSET Pairs]
    /\ current \in [Workers -> Pairs \cup {NoPair}]
    /\ found \in [Workers -> SUBSET Pairs]
    /\ resolved \in [Workers -> SUBSET Pairs]
    /\ reports \in [Pairs -> SUBSET Workers]
    /\ gaveUp \subseteq Pairs
    /\ outcome \in Outcomes
    /\ intervals \in [Pairs -> 0..MaxAttempts]
    /\ restarts \in 0..MaxRestarts

\* A pair the scraper has marked as seen, and will therefore never queue
\* again, is accounted for: it is still queued, was handed to
\* on_tokens_found, or was logged as given up. It holds across exceptions and
\* cancellations because _retry_pending pops only at the end of a pass.
NoSilentLoss ==
    seen \subseteq pending \cup gaveUp \cup {p \in Pairs : reports[p] # {}}

\* A coroutine that reported a pair has no way to report it again: the pair
\* is neither queued nor left in a snapshot or a result list of that
\* coroutine. Two coroutines, hence at most two reports of one pair.
OneReportPerWorker ==
    \A p \in Pairs : \A w \in reports[p] :
        p \notin pending /\ p \notin Held(w) \cup found[w]

\* pending_max_attempts is exceeded by at most one lookup of the other
\* coroutine: the pass that reaches the limit pops the pair when it ends. With a
\* store a pair that qualifies is abandoned and looked up for ever.
AttemptsBounded ==
    store = "none" => \A p \in Pairs : attempts[p] <= MaxAttempts + (IF mode = "polling" THEN 0 ELSE 1)

\* A pair is settled by one pass of one coroutine, as reported or as given up:
\* it is handed to on_tokens_found once at most, and not when it was logged as
\* given up ("what happens after we found a new pair is identical" in both
\* modes, scraper.py:189-191).
SettledOnce ==
    \A p \in Pairs :
        /\ \A w \in Workers : outcome[p][w] # "again"
        /\ \A v, w \in Workers : outcome[p][v] # "none" /\ outcome[p][w] # "none" => v = w
        /\ reports[p] # {} => p \notin gaveUp

\* True of the single poller, through failed cycles, raising callbacks, pairs
\* announced again and abandoned passes; not of two coroutines.
SettledOnceByPoller == mode = "polling" => SettledOnce

\* A pair is given up only in the last of the MaxAttempts poll intervals that
\* make its retry window (README.md:19-20), however many cycles failed. In
\* websocket mode every message spends an attempt, and the window is shorter.
GivesUpAfterWindow ==
    mode = "polling" => \A p \in gaveUp : intervals[p] = MaxAttempts

\* Without a store every queued pair is settled sooner or later, unless the
\* listener ends and takes the retry loop with it.
EventuallySettled ==
    \A p \in Pairs :
        p \in pending /\ store = "none" ~> (p \notin pending \/ \E w \in Workers : pc[w] = "ended")

\* The inductive invariant behind NoSilentLoss and OneReportPerWorker: what is
\* queued, held or reported was seen; a coroutine that awaits a lookup awaits
\* it for a pair; what a pass has resolved was found or given up.
Awaiting == \A w \in Workers : pc[w] = "enriching" => current[w] \in Pairs

AllSeen ==
    /\ pending \subseteq seen
    /\ \A w \in Workers : Held(w) \subseteq seen
    /\ \A p \in Pairs : reports[p] # {} => p \in seen

PassInv ==
    \A w \in Workers : /\ found[w] \subseteq resolved[w]
                       /\ resolved[w] \subseteq gaveUp \cup found[w]

QueueInv == TypeOK /\ Awaiting /\ AllSeen /\ PassInv /\ NoSilentLoss /\ OneReportPerWorker

\* What the other properties need besides. The coroutines of the other mode do
\* nothing; a coroutine outside a pass has no locals, and one inside has each
\* pair of its snapshot still to look up, under way, or settled. A pair that
\* was popped is left to one coroutine at most.
Runs(w) == IF mode = "polling" THEN w = "poller" ELSE w # "poller"

PassShape ==
    \A w \in Workers :
        /\ pc[w] = "enriching" => /\ current[w] \notin work[w] \cup resolved[w]
                                 /\ work[w] \cap resolved[w] = {}
        /\ pc[w] # "enriching" => /\ work[w] = {} /\ current[w] = NoPair
                                 /\ found[w] = {} /\ resolved[w] = {}
        /\ ~Runs(w) => pc[w] \in {"waiting", "ended"}
        /\ pc[w] = "ended" => \A v \in Workers : pc[v] = "ended"

OneHolder ==
    \A p \in Pairs \ pending : \A v, w \in Workers :
        p \in Held(v) /\ p \in Held(w) => v = w

\* A pair that was never seen has no history, and with a store none is found.
HistoryInv ==
    /\ gaveUp \subseteq seen
    /\ \A p \in Pairs \ seen : attempts[p] = 0
    /\ \A p \in Pairs : \A w \in reports[p] : Runs(w)
    /\ store = "attached" => /\ \A p \in Pairs : reports[p] = {}
                            /\ \A w \in Workers : found[w] = {}

\* What the poller has given up it does not find, and only what it is about to
\* pop is both given up and queued.
PollerInv ==
    mode = "polling" =>
        /\ \A p \in gaveUp : reports[p] = {}
        /\ gaveUp \cap found["poller"] = {}
        /\ store = "none" => /\ gaveUp \cap (work["poller"] \cup {current["poller"]}) = {}
                             /\ gaveUp \cap pending \subseteq resolved["poller"]

\* Who has looked a pair up for the last time is about to pop it, and only the
\* other coroutine may have it in an older snapshot.
Limit == MaxAttempts + (IF mode = "polling" THEN 0 ELSE 1)
Settling(w, p) == p \in resolved[w] \cup {current[w]}

AttemptsInv ==
    store = "none" =>
        \A p \in Pairs :
            /\ attempts[p] <= Limit
            /\ attempts[p] >= MaxAttempts /\ p \in pending =>
                  \E w \in Workers : Settling(w, p) \/ pc[w] = "ended"
            /\ attempts[p] >= Limit =>
                  \A w \in Workers : Runs(w) =>
                      /\ p \notin work[w]
                      /\ p \in pending => Settling(w, p) \/ pc[w] = "ended"

\* Every attempt of the poller was preceded by a poll interval of its own, that
\* of a pair in its snapshot too.
WindowInv ==
    mode = "polling" =>
        \A p \in Pairs :
            /\ attempts[p] <= intervals[p] \/ intervals[p] = MaxAttempts
            /\ p \in work["poller"] => attempts[p] < intervals[p] \/ intervals[p] = MaxAttempts
            /\ p \in gaveUp => intervals[p] = MaxAttempts

\* What a coroutine has settled was seen, is out of the queue and out of its
\* own snapshot, and so is settled neither again nor in another way.
OutcomeInv ==
    \A p \in Pairs : \A w \in Workers :
        /\ outcome[p][w] # "again"
        /\ outcome[p][w] # "none" => Runs(w) /\ p \in seen \ (pending \cup Held(w))

SettleInv ==
    PassShape /\ OneHolder /\ HistoryInv /\ PollerInv /\ AttemptsInv /\ WindowInv /\ OutcomeInv

-----------------------------------------------------------------------------
\* The coroutines are the hands of PairLedger, and a pass claims what it has
\* still to settle or to pop.
Ledger == INSTANCE PairLedger WITH
    Hands <- Workers, known <- seen, open <- pending, claim <- [w \in Workers |-> Held(w)]

\* The queue implements the ledger: whatever is announced again, raised,
\* cancelled or retried, a coroutine settles a pair once, one way, and only a
\* pair it took into a pass while it was queued. A pair that both coroutines of
\* websocket mode took may be settled by both: the ledger shows both outcomes.
ImplementsLedger == Ledger!LedgerSpec
=============================================================================
