------------------------- MODULE TokenScraperProofs -------------------------
(***************************************************************************)
(* Proofs about TokenScraper, for every set of pairs, both modes, with and *)
(* without a store, and any number of restarts.                            *)
(***************************************************************************)
EXTENDS TokenScraper, TLAPS

\* A step of the scraper leaves every variable in its type.
LEMMA TypeStep == ASSUME TypeOK, Awaiting, [Next]_vars PROVE TypeOK'
<1> USE AttemptsAssumption, PairAssumption, RestartAssumption DEF TypeOK
<1>1. ASSUME NEW batch \in SUBSET Pairs, PollCycle(batch) PROVE TypeOK'
  <2>1. "poller" \in Workers
    BY DEF Workers
  <2>2. PICK new \in Registered(batch) :
          /\ Enqueue(new)
          /\ CountInterval(pending \cup new)
          /\ IF RegisterRaises(batch)
             THEN CycleFails("poller") /\ UNCHANGED attempts
             ELSE StartPass("poller", pending \cup new)
    BY <1>1 DEF PollCycle
  <2>3. new \subseteq Pairs
    BY DEF Registered
  <2> QED
    BY <1>1, <2>1, <2>2, <2>3
    DEF PollCycle, Enqueue, CountInterval, CycleFails, LeavePass, StartPass,
        LookUp, Bump, AttemptCap
<1>2. CASE PollFails
  BY <1>2 DEF PollFails, CountInterval, queueVars, passVars
<1>3. ASSUME NEW p \in Pairs, Message(p) PROVE TypeOK'
  <2>1. "listener" \in Workers
    BY DEF Workers
  <2>2. PICK new \in Registered({p}) :
          /\ Enqueue(new)
          /\ IF RegisterRaises({p})
             THEN CycleFails("listener") /\ UNCHANGED attempts
             ELSE StartPass("listener", pending \cup new)
    BY <1>3 DEF Message
  <2>3. new \subseteq Pairs
    BY DEF Registered
  <2> QED
    BY <1>3, <2>1, <2>2, <2>3
    DEF Message, Enqueue, CycleFails, EndListening, StartPass,
        LookUp, Bump, AttemptCap, history
<1>4. CASE RetryTick
  <2>1. "retrier" \in Workers
    BY DEF Workers
  <2> QED
    BY <1>4, <2>1 DEF RetryTick, StartPass, CountInterval, LookUp, Bump, AttemptCap
<1>5. ASSUME NEW w \in Workers, NEW hits \in SUBSET Pairs, NEW done \in SUBSET Pairs,
             Proceed(w, hits, done)
      PROVE  /\ pending' \subseteq Pairs
             /\ attempts' \in [Pairs -> 0..AttemptCap]
             /\ pc' \in [Workers -> {"waiting", "enriching", "callback", "ended"}]
             /\ work' \in [Workers -> SUBSET Pairs]
             /\ current' \in [Workers -> Pairs \cup {NoPair}]
             /\ found' \in [Workers -> SUBSET Pairs]
             /\ resolved' \in [Workers -> SUBSET Pairs]
             /\ reports' \in [Pairs -> SUBSET Workers]
             /\ outcome' \in Outcomes
  <2>1. outcome' \in Outcomes
    <3>1. ASSUME Settle(w, hits, done) PROVE outcome' \in Outcomes
      <4>1. outcome' = [p \in Pairs |->
                IF p \in done
                THEN [outcome[p] EXCEPT ![w] = IF outcome[p][w] # "none" THEN "again"
                          ELSE IF p \in hits THEN "reported" ELSE "given_up"]
                ELSE outcome[p]]
        BY <3>1 DEF Settle
      <4>2. \A p \in Pairs : outcome[p] \in [Workers -> {"none", "reported", "given_up", "again"}]
        BY DEF Outcomes
      <4> QED
        BY <4>1, <4>2 DEF Outcomes
    <3> QED
      BY <1>5, <3>1 DEF Proceed
  <2> QED
    BY <1>5, <2>1 DEF Proceed, LookUp, Report, LeavePass, Bump, AttemptCap
<1>6. ASSUME NEW w \in Workers, CycleFails(w)
      PROVE  /\ pc' \in [Workers -> {"waiting", "enriching", "callback", "ended"}]
             /\ work' \in [Workers -> SUBSET Pairs]
             /\ current' \in [Workers -> Pairs \cup {NoPair}]
             /\ found' \in [Workers -> SUBSET Pairs]
             /\ resolved' \in [Workers -> SUBSET Pairs]
  BY <1>6 DEF CycleFails, EndListening, LeavePass
<1>7. ASSUME NEW w \in Workers, Step(w) PROVE TypeOK'
  <2> DEFINE hits == found[w] \cup {current[w]}
             done == resolved[w] \cup {current[w]}
  <2>1. pc[w] = "enriching" => hits \in SUBSET Pairs /\ done \in SUBSET Pairs
    BY DEF Awaiting
  <2>2. found[w] \in SUBSET Pairs /\ resolved[w] \in SUBSET Pairs
    OBVIOUS
  <2> HIDE DEF hits, done
  <2>3. CASE Qualify(w)
    <3>1. /\ pc[w] = "enriching"
          /\ \/ CycleFails(w) /\ UNCHANGED <<pending, attempts, reports, outcome>>
             \/ Proceed(w, hits, done)
      BY <2>3 DEF Qualify, hits, done
    <3> QED
      BY <2>1, <2>3, <3>1, <1>5, <1>6 DEF Qualify
  <2>4. CASE GiveUp(w)
    <3>1. pc[w] = "enriching" /\ Proceed(w, found[w], done)
      BY <2>4 DEF GiveUp, done
    <3> QED
      BY <2>1, <2>2, <2>4, <3>1, <1>5 DEF GiveUp, Awaiting
  <2>5. CASE KeepPending(w)
    BY <2>2, <2>5, <1>5, <1>6 DEF KeepPending
  <2>6. CASE CallbackReturns(w)
    BY <2>6 DEF CallbackReturns, LeavePass, queueVars, history
  <2>7. CASE CallbackRaises(w)
    BY <2>7, <1>6 DEF CallbackRaises, queueVars, history
  <2> QED
    BY <1>7, <2>3, <2>4, <2>5, <2>6, <2>7 DEF Step
<1>8. CASE Disconnect
  BY <1>8 DEF Disconnect, EndListening, queueVars, history
<1>9. CASE Restart
  BY <1>9 DEF Restart, AttemptCap, Outcomes
<1>10. CASE UNCHANGED vars
  BY <1>10 DEF vars
<1> QED
  BY <1>1, <1>2, <1>3, <1>4, <1>7, <1>8, <1>9, <1>10 DEF Next

\* The initial state satisfies the inductive invariant.
LEMMA QueueInit == Init => QueueInv
BY AttemptsAssumption, RestartAssumption, PairAssumption
DEF Init, QueueInv, TypeOK, Awaiting, AllSeen, PassInv, NoSilentLoss,
    OneReportPerWorker, Held, AttemptCap, Outcomes

\* The part of the inductive invariant that relates queue, passes and history.
BookInv == Awaiting /\ AllSeen /\ PassInv /\ NoSilentLoss /\ OneReportPerWorker

\* A pass that starts over a part of the seen pairs keeps the books.
LEMMA StartStep ==
    ASSUME QueueInv, NEW w \in Workers, NEW new \in SUBSET Pairs,
           new \cap seen = {}, seen' = seen \cup new, pending' = pending \cup new,
           StartPass(w, pending \cup new), UNCHANGED <<reports, gaveUp>>
    PROVE  BookInv'
<1> USE PairAssumption
    DEF QueueInv, TypeOK, Awaiting, AllSeen, PassInv, NoSilentLoss,
        OneReportPerWorker, Held, StartPass, LookUp
<1>1. CASE pending \cup new = {}
  BY <1>1 DEF BookInv
<1>2. ASSUME NEW p \in pending \cup new, LookUp(w, p, pending \cup new),
             pc' = [pc EXCEPT ![w] = "enriching"], UNCHANGED <<found, resolved>>
      PROVE  BookInv'
  <2>1. /\ current' = [current EXCEPT ![w] = p]
        /\ work' = [work EXCEPT ![w] = (pending \cup new) \ {p}]
    BY <1>2
  <2>2. Awaiting' /\ AllSeen' /\ PassInv'
    BY <1>2, <2>1
  <2>3. NoSilentLoss'
    OBVIOUS
  <2>4. OneReportPerWorker'
    BY <1>2, <2>1
  <2> QED
    BY <2>2, <2>3, <2>4 DEF BookInv
<1> QED
  BY <1>1, <1>2

\* An exception, handled or fatal, keeps the books: nothing was popped.
LEMMA FailStep ==
    ASSUME QueueInv, NEW w \in Workers, NEW new \in SUBSET Pairs,
           new \cap seen = {}, seen' = seen \cup new, pending' = pending \cup new,
           CycleFails(w), UNCHANGED <<reports, gaveUp>>
    PROVE  BookInv'
BY PairAssumption
DEF QueueInv, TypeOK, Awaiting, AllSeen, PassInv, NoSilentLoss, OneReportPerWorker,
    Held, CycleFails, EndListening, LeavePass, BookInv

\* Going on after a lookup keeps the books, when what is to be popped was
\* found or given up and what is to be reported was not reported before.
LEMMA ProceedStep ==
    ASSUME QueueInv, NEW w \in Workers, pc[w] = "enriching",
           NEW hits \in SUBSET Pairs, NEW done \in SUBSET Pairs,
           hits \subseteq found[w] \cup {current[w]},
           done \subseteq resolved[w] \cup {current[w]},
           hits \subseteq done, done \subseteq gaveUp' \cup hits,
           gaveUp \subseteq gaveUp',
           Proceed(w, hits, done), UNCHANGED seen
    PROVE  BookInv'
<1> USE PairAssumption
    DEF QueueInv, TypeOK, Awaiting, AllSeen, PassInv, NoSilentLoss,
        OneReportPerWorker, Held
<1>1. hits \cup done \subseteq Held(w) /\ Held(w) \subseteq seen
  OBVIOUS
<1>2. ASSUME NEW q \in work[w], LookUp(w, q, work[w]),
             found' = [found EXCEPT ![w] = hits],
             resolved' = [resolved EXCEPT ![w] = done],
             UNCHANGED <<pc, pending, reports>>
      PROVE  BookInv'
  <2>1. /\ current' = [current EXCEPT ![w] = q]
        /\ work' = [work EXCEPT ![w] = work[w] \ {q}]
    BY <1>2 DEF LookUp
  <2>2. Awaiting' /\ AllSeen'
    BY <1>1, <1>2, <2>1
  <2>3. PassInv' /\ NoSilentLoss'
    BY <1>2
  <2>4. OneReportPerWorker'
    BY <1>1, <1>2, <2>1
  <2> QED
    BY <2>2, <2>3, <2>4 DEF BookInv
<1>3. ASSUME pending' = pending \ done, Report(w, hits),
             LeavePass(w, IF hits = {} THEN "waiting" ELSE "callback")
      PROVE  BookInv'
  <2>1. Awaiting' /\ AllSeen' /\ PassInv'
    BY <1>1, <1>3 DEF Report, LeavePass
  <2>2. NoSilentLoss'
    BY <1>1, <1>3 DEF Report
  <2>3. OneReportPerWorker'
    BY <1>1, <1>3 DEF Report, LeavePass
  <2> QED
    BY <2>1, <2>2, <2>3 DEF BookInv
<1> QED
  BY <1>2, <1>3 DEF Proceed

\* Every step of the scraper preserves the inductive invariant.
LEMMA QueueStep == QueueInv /\ [Next]_vars => QueueInv'
<1> SUFFICES ASSUME QueueInv, [Next]_vars PROVE QueueInv'
  OBVIOUS
<1>1. TypeOK'
  BY TypeStep DEF QueueInv
<1> SUFFICES BookInv'
  BY <1>1 DEF QueueInv, BookInv
<1>2. ASSUME NEW batch \in SUBSET Pairs, PollCycle(batch) PROVE BookInv'
  <2>1. "poller" \in Workers
    BY DEF Workers
  <2>2. PICK new \in Registered(batch) :
          /\ Enqueue(new)
          /\ IF RegisterRaises(batch)
             THEN CycleFails("poller") /\ UNCHANGED attempts
             ELSE StartPass("poller", pending \cup new)
    BY <1>2 DEF PollCycle
  <2>3. new \in SUBSET Pairs /\ new \cap seen = {}
    BY DEF Registered
  <2>4. UNCHANGED <<reports, gaveUp>>
    BY <1>2 DEF PollCycle
  <2> QED
    BY <2>1, <2>2, <2>3, <2>4, StartStep, FailStep DEF Enqueue
<1>3. ASSUME NEW p \in Pairs, Message(p) PROVE BookInv'
  <2>1. "listener" \in Workers
    BY DEF Workers
  <2>2. PICK new \in Registered({p}) :
          /\ Enqueue(new)
          /\ IF RegisterRaises({p})
             THEN CycleFails("listener") /\ UNCHANGED attempts
             ELSE StartPass("listener", pending \cup new)
    BY <1>3 DEF Message
  <2>3. new \in SUBSET Pairs /\ new \cap seen = {}
    BY DEF Registered
  <2>4. UNCHANGED <<reports, gaveUp>>
    BY <1>3 DEF Message, history
  <2> QED
    BY <2>1, <2>2, <2>3, <2>4, StartStep, FailStep DEF Enqueue
<1>4. CASE RetryTick
  <2>1. "retrier" \in Workers
    BY DEF Workers
  <2>2. /\ StartPass("retrier", pending \cup {})
        /\ seen' = seen \cup {}
        /\ pending' = pending \cup {}
        /\ UNCHANGED <<reports, gaveUp>>
    BY <1>4 DEF RetryTick
  <2>3. {} \in SUBSET Pairs /\ {} \cap seen = {}
    OBVIOUS
  <2> QED
    BY <2>1, <2>2, <2>3, StartStep
<1>5. ASSUME NEW w \in Workers, CycleFails(w), UNCHANGED <<seen, pending, reports, gaveUp>>
      PROVE  BookInv'
  <2>1. seen' = seen \cup {} /\ pending' = pending \cup {}
    BY <1>5
  <2>2. {} \in SUBSET Pairs /\ {} \cap seen = {}
    OBVIOUS
  <2> QED
    BY <1>5, <2>1, <2>2, FailStep
<1>6. ASSUME NEW w \in Workers, Step(w) PROVE BookInv'
  <2> DEFINE hits == found[w] \cup {current[w]}
             done == resolved[w] \cup {current[w]}
  <2>1. pc[w] = "enriching" =>
          /\ found[w] \in SUBSET Pairs /\ hits \in SUBSET Pairs
          /\ resolved[w] \in SUBSET Pairs /\ done \in SUBSET Pairs
          /\ found[w] \subseteq resolved[w]
          /\ resolved[w] \subseteq gaveUp \cup found[w]
    BY DEF QueueInv, TypeOK, Awaiting, PassInv
  <2>2. CASE Qualify(w)
    <3>1. CASE store = "attached"
      <4>1. CycleFails(w) /\ UNCHANGED <<seen, pending, reports, gaveUp>>
        BY <2>2, <3>1 DEF Qualify
      <4> QED
        BY <1>5, <4>1
    <3>2. CASE store # "attached"
      <4>1. Proceed(w, hits, done) /\ pc[w] = "enriching" /\ UNCHANGED <<seen, gaveUp>>
        BY <2>2, <3>2 DEF Qualify
      <4>2. hits \subseteq done /\ done \subseteq gaveUp' \cup hits
        BY <2>1, <4>1
      <4> QED
        BY <2>1, <4>1, <4>2, ProceedStep
    <3> QED
      BY <3>1, <3>2
  <2>3. CASE GiveUp(w)
    <3>1. /\ Proceed(w, found[w], done) /\ pc[w] = "enriching"
          /\ UNCHANGED seen /\ gaveUp' = gaveUp \cup {current[w]}
      BY <2>3 DEF GiveUp
    <3>2. found[w] \subseteq done /\ done \subseteq gaveUp' \cup found[w]
      BY <2>1, <3>1
    <3> QED
      BY <2>1, <3>1, <3>2, ProceedStep
  <2>4. CASE KeepPending(w)
    <3>1. CASE store = "attached"
      <4>1. CycleFails(w) /\ UNCHANGED <<seen, pending, reports, gaveUp>>
        BY <2>4, <3>1 DEF KeepPending
      <4> QED
        BY <1>5, <4>1
    <3>2. CASE store # "attached"
      <4>1. /\ Proceed(w, found[w], resolved[w]) /\ pc[w] = "enriching"
            /\ UNCHANGED <<seen, gaveUp>>
        BY <2>4, <3>2 DEF KeepPending
      <4> QED
        BY <2>1, <4>1, ProceedStep
    <3> QED
      BY <3>1, <3>2
  <2>5. CASE CallbackReturns(w)
    BY <2>5, PairAssumption
    DEF CallbackReturns, LeavePass, queueVars, history, QueueInv, BookInv, TypeOK,
        Awaiting, AllSeen, PassInv, NoSilentLoss, OneReportPerWorker, Held
  <2>6. CASE CallbackRaises(w)
    <3>1. CycleFails(w) /\ UNCHANGED <<seen, pending, reports, gaveUp>>
      BY <2>6 DEF CallbackRaises, queueVars, history
    <3> QED
      BY <1>5, <3>1
  <2> QED
    BY <1>6, <2>2, <2>3, <2>4, <2>5, <2>6 DEF Step
<1>7. CASE Disconnect
  <2>1. /\ "listener" \in Workers
        /\ CycleFails("listener")
        /\ UNCHANGED <<seen, pending, reports, gaveUp>>
    BY <1>7 DEF Disconnect, Workers, CycleFails, queueVars, history
  <2> QED
    BY <1>5, <2>1
<1>8. CASE Restart
  BY <1>8, PairAssumption
  DEF Restart, BookInv, Awaiting, AllSeen, PassInv, NoSilentLoss,
      OneReportPerWorker, Held
<1>9. CASE PollFails \/ UNCHANGED vars
  <2>1. UNCHANGED <<seen, pending, pc, work, current, found, resolved, reports, gaveUp>>
    BY <1>9 DEF PollFails, queueVars, passVars, vars
  <2> QED
    BY <2>1
    DEF QueueInv, BookInv, Awaiting, AllSeen, PassInv, NoSilentLoss,
        OneReportPerWorker, Held
<1> QED
  BY <1>2, <1>3, <1>4, <1>6, <1>7, <1>8, <1>9 DEF Next

\* The inductive invariant holds in every reachable state.
THEOREM QueueInvariance == Spec => []QueueInv
<1>1. Init => QueueInv
  BY QueueInit
<1>2. QueueInv /\ [Next]_vars => QueueInv'
  BY QueueStep
<1> QED
  BY <1>1, <1>2, PTL DEF Spec

\* The variables of the scraper keep their types.
THEOREM TypeCorrect == Spec => []TypeOK
<1>1. QueueInv => TypeOK
  BY DEF QueueInv
<1> QED
  BY <1>1, QueueInvariance, PTL

\* No pair that was marked as seen drops out of the books: whatever raises,
\* whoever is cancelled and however passes interleave, it is queued, given up
\* or was handed to on_tokens_found (scraper.py:186-249).
THEOREM NothingLost == Spec => []NoSilentLoss
<1>1. QueueInv => NoSilentLoss
  BY DEF QueueInv
<1> QED
  BY <1>1, QueueInvariance, PTL

\* A coroutine never hands the same pair to on_tokens_found twice: once it has,
\* the pair is out of the queue and out of that coroutine's snapshot.
THEOREM ReportedOncePerWorker == Spec => []OneReportPerWorker
<1>1. QueueInv => OneReportPerWorker
  BY DEF QueueInv
<1> QED
  BY <1>1, QueueInvariance, PTL

-----------------------------------------------------------------------------
(* What the other invariants need of a step, action by action.             *)

\* A coroutine begins a pass over the queue and what was announced.
Starts(w, new) ==
    /\ Runs(w) /\ pc[w] = "waiting"
    /\ new \in SUBSET (Pairs \ seen)
    /\ seen' = seen \cup new /\ pending' = pending \cup new
    /\ StartPass(w, pending \cup new)
    /\ mode = "polling" => CountInterval(pending \cup new)
    /\ UNCHANGED <<mode, store, reports, gaveUp, outcome>>

\* A coroutine forgets its locals, or all do.
Leaves(w, new) ==
    /\ new \in SUBSET (Pairs \ seen)
    /\ seen' = seen \cup new /\ pending' = pending \cup new
    /\ \/ LeavePass(w, "waiting") /\ pc[w] # "ended" /\ (store = "none" => pc[w] # "enriching")
       \/ EndListening /\ mode = "websocket"
    /\ intervals' = intervals \/ CountInterval(pending \cup new)
    /\ UNCHANGED <<mode, store, attempts, reports, gaveUp, outcome>>

\* A lookup ends with what is found and what is resolved so far.
Finds(w, hits, done) ==
    /\ hits = found[w] \cup {current[w]} /\ done = resolved[w] \cup {current[w]}
    /\ store # "attached" /\ gaveUp' = gaveUp

GivesUp(w, hits, done) ==
    /\ hits = found[w] /\ done = resolved[w] \cup {current[w]}
    /\ attempts[current[w]] >= MaxAttempts /\ gaveUp' = gaveUp \cup {current[w]}

Keeps(w, hits, done) ==
    /\ hits = found[w] /\ done = resolved[w]
    /\ attempts[current[w]] < MaxAttempts /\ store # "attached" /\ gaveUp' = gaveUp

Ends(w, hits, done) ==
    /\ pc[w] = "enriching"
    /\ Finds(w, hits, done) \/ GivesUp(w, hits, done) \/ Keeps(w, hits, done)
    /\ Proceed(w, hits, done)
    /\ UNCHANGED <<mode, store, seen, intervals>>

\* Nothing changes but, perhaps, the count of intervals.
Idles ==
    /\ intervals' = intervals \/ CountInterval(pending)
    /\ UNCHANGED <<mode, store, seen, pending, attempts, pc, work, current, found, resolved,
                   reports, gaveUp, outcome>>

\* Every step of the scraper is of one of these kinds.
Kinds ==
    \/ \E w \in Workers : \E new \in SUBSET Pairs : Starts(w, new) \/ Leaves(w, new)
    \/ \E w \in Workers : \E hits, done \in SUBSET Pairs : Ends(w, hits, done)
    \/ Idles \/ Restart

\* The classification of the actions, the premise of the lemmas below.
LEMMA StepKinds == ASSUME QueueInv, PassShape, [Next]_vars PROVE Kinds
<1>1. TypeOK /\ Awaiting /\ mode \in {"polling", "websocket"} /\ store \in {"none", "attached"}
    BY DEF QueueInv, TypeOK
<1>2. ASSUME NEW batch \in SUBSET Pairs, PollCycle(batch) PROVE Kinds
    <2>1. "poller" \in Workers /\ mode = "polling" /\ pc["poller"] = "waiting"
          /\ UNCHANGED <<mode, store, reports, gaveUp, outcome>>
        BY <1>2 DEF Workers, PollCycle
    <2>2. PICK new \in Registered(batch) :
            /\ Enqueue(new)
            /\ CountInterval(pending \cup new)
            /\ IF RegisterRaises(batch)
               THEN CycleFails("poller") /\ UNCHANGED attempts
               ELSE StartPass("poller", pending \cup new)
        BY <1>2 DEF PollCycle
    <2>3. new \in SUBSET Pairs /\ new \in SUBSET (Pairs \ seen)
        BY DEF Registered
    <2>4. CASE RegisterRaises(batch)
        <3>1. Leaves("poller", new)
            BY <2>1, <2>2, <2>3, <2>4 DEF Leaves, CycleFails, Enqueue
        <3> QED
            BY <2>1, <2>3, <3>1 DEF Kinds
    <2>5. CASE ~RegisterRaises(batch)
        <3>1. Starts("poller", new)
            BY <2>1, <2>2, <2>3, <2>5 DEF Starts, Enqueue, Runs
        <3> QED
            BY <2>1, <2>3, <3>1 DEF Kinds
    <2> QED
        BY <2>4, <2>5
<1>3. ASSUME NEW p \in Pairs, Message(p) PROVE Kinds
    <2>1. "listener" \in Workers /\ mode = "websocket" /\ pc["listener"] = "waiting"
          /\ UNCHANGED <<mode, store, reports, gaveUp, outcome, intervals>>
        BY <1>3 DEF Workers, Message, history
    <2>2. PICK new \in Registered({p}) :
            /\ Enqueue(new)
            /\ IF RegisterRaises({p})
               THEN CycleFails("listener") /\ UNCHANGED attempts
               ELSE StartPass("listener", pending \cup new)
        BY <1>3 DEF Message
    <2>3. new \in SUBSET Pairs /\ new \in SUBSET (Pairs \ seen)
        BY DEF Registered
    <2>4. CASE RegisterRaises({p})
        <3>1. Leaves("listener", new)
            BY <2>1, <2>2, <2>3, <2>4 DEF Leaves, CycleFails, Enqueue
        <3> QED
            BY <2>1, <2>3, <3>1 DEF Kinds
    <2>5. CASE ~RegisterRaises({p})
        <3>1. Starts("listener", new)
            BY <2>1, <2>2, <2>3, <2>5 DEF Starts, Enqueue, Runs
        <3> QED
            BY <2>1, <2>3, <3>1 DEF Kinds
    <2> QED
        BY <2>4, <2>5
<1>4. CASE RetryTick
    <2>1. "retrier" \in Workers /\ mode = "websocket" /\ pc["retrier"] = "waiting"
          /\ {} \in SUBSET Pairs /\ {} \in SUBSET (Pairs \ seen)
          /\ seen' = seen \cup {} /\ pending' = pending \cup {}
          /\ StartPass("retrier", pending \cup {})
          /\ UNCHANGED <<mode, store, reports, gaveUp, outcome>>
        BY <1>4 DEF Workers, RetryTick
    <2>2. Starts("retrier", {})
        BY <2>1 DEF Starts, Runs
    <2> QED
        BY <2>1, <2>2 DEF Kinds
<1>5. ASSUME NEW w \in Workers, CycleFails(w), store = "none" => pc[w] # "enriching",
             pc[w] # "waiting", pc[w] # "ended",
             UNCHANGED <<mode, store, seen, pending, attempts, reports, gaveUp, outcome, intervals>>
      PROVE  Kinds
    <2>1. w = "listener" => mode = "websocket"
        BY <1>1, <1>5 DEF PassShape, Runs
    <2>2. {} \in SUBSET Pairs /\ {} \in SUBSET (Pairs \ seen)
          /\ seen' = seen \cup {} /\ pending' = pending \cup {}
        BY <1>5
    <2>3. Leaves(w, {})
        BY <1>5, <2>1, <2>2 DEF Leaves, CycleFails
    <2> QED
        BY <2>2, <2>3 DEF Kinds
<1>6. ASSUME NEW w \in Workers, Step(w) PROVE Kinds
    <2> DEFINE hits == found[w] \cup {current[w]}
               done == resolved[w] \cup {current[w]}
    <2>1. found[w] \in SUBSET Pairs /\ resolved[w] \in SUBSET Pairs
          /\ (pc[w] = "enriching" => hits \in SUBSET Pairs /\ done \in SUBSET Pairs)
        BY <1>1 DEF TypeOK, Awaiting
    <2> HIDE DEF hits, done
    <2>2. CASE Qualify(w)
        <3>1. CASE store = "attached"
            BY <1>5, <2>2, <3>1 DEF Qualify
        <3>2. CASE store # "attached"
            <4>1. Proceed(w, hits, done) /\ pc[w] = "enriching"
                  /\ UNCHANGED <<mode, store, seen, intervals, gaveUp>>
                BY <2>2, <3>2 DEF Qualify, hits, done
            <4>2. Ends(w, hits, done)
                BY <3>2, <4>1 DEF Ends, Finds, hits, done
            <4> QED
                BY <2>1, <4>1, <4>2 DEF Kinds
        <3> QED
            BY <3>1, <3>2
    <2>3. CASE GiveUp(w)
        <3>1. Proceed(w, found[w], done) /\ pc[w] = "enriching"
              /\ UNCHANGED <<mode, store, seen, intervals>>
            BY <2>3 DEF GiveUp, done
        <3>2. Ends(w, found[w], done)
            BY <2>3, <3>1 DEF GiveUp, Ends, GivesUp, done
        <3> QED
            BY <2>1, <3>1, <3>2 DEF Kinds
    <2>4. CASE KeepPending(w)
        <3>1. CASE store = "attached"
            BY <1>5, <2>4, <3>1 DEF KeepPending
        <3>2. CASE store # "attached"
            <4>1. Ends(w, found[w], resolved[w])
                BY <2>4, <3>2 DEF KeepPending, Ends, Keeps
            <4> QED
                BY <2>1, <4>1 DEF Kinds
        <3> QED
            BY <3>1, <3>2
    <2>5. CASE CallbackReturns(w)
        <3>1. {} \in SUBSET Pairs /\ {} \in SUBSET (Pairs \ seen)
              /\ seen' = seen \cup {} /\ pending' = pending \cup {}
              /\ LeavePass(w, "waiting") /\ pc[w] # "enriching" /\ pc[w] # "ended"
              /\ intervals' = intervals
              /\ UNCHANGED <<mode, store, attempts, reports, gaveUp, outcome>>
            BY <2>5 DEF CallbackReturns, queueVars, history
        <3>2. Leaves(w, {})
            BY <3>1 DEF Leaves
        <3> QED
            BY <3>1, <3>2 DEF Kinds
    <2>6. CASE CallbackRaises(w)
        BY <1>5, <2>6 DEF CallbackRaises, queueVars, history
    <2> QED
        BY <1>6, <2>2, <2>3, <2>4, <2>5, <2>6 DEF Step
<1>7. CASE Disconnect
    <2>1. {} \in SUBSET Pairs /\ {} \in SUBSET (Pairs \ seen) /\ "listener" \in Workers
          /\ seen' = seen \cup {} /\ pending' = pending \cup {}
          /\ EndListening /\ mode = "websocket" /\ intervals' = intervals
          /\ UNCHANGED <<mode, store, attempts, reports, gaveUp, outcome>>
        BY <1>7 DEF Disconnect, queueVars, history, Workers
    <2>2. Leaves("listener", {})
        BY <2>1 DEF Leaves
    <2> QED
        BY <2>1, <2>2 DEF Kinds
<1>8. CASE PollFails \/ UNCHANGED vars
    BY <1>8 DEF PollFails, queueVars, passVars, vars, Idles, Kinds
<1>9. CASE Restart
    BY <1>9 DEF Kinds
<1> QED
    BY <1>2, <1>3, <1>4, <1>6, <1>7, <1>8, <1>9 DEF Next

\* What a pass that starts over a queue that is not empty assigns.
FirstLookUp(w, p, queue) ==
    /\ p \in queue
    /\ attempts' = [attempts EXCEPT ![p] = Bump(@)]
    /\ pc' = [pc EXCEPT ![w] = "enriching"]
    /\ work' = [work EXCEPT ![w] = queue \ {p}]
    /\ current' = [current EXCEPT ![w] = p]
    /\ UNCHANGED <<found, resolved>>

\* A pass that starts does nothing on an empty queue, or awaits a lookup.
LEMMA StartFacts ==
    ASSUME QueueInv, NEW w \in Workers, NEW new \in SUBSET Pairs, Starts(w, new)
    PROVE  \/ /\ pending \cup new = {}
              /\ UNCHANGED <<attempts, pc, work, current, found, resolved>>
           \/ \E p \in pending \cup new : p \in Pairs /\ FirstLookUp(w, p, pending \cup new)
BY DEF QueueInv, TypeOK, Starts, StartPass, LookUp, FirstLookUp

\* What the end of a lookup assigns: either the next lookup, or the end of the
\* pass.
NextLookUp(w, q, hits, done) ==
    /\ q \in work[w]
    /\ attempts' = [attempts EXCEPT ![q] = Bump(@)]
    /\ work' = [work EXCEPT ![w] = work[w] \ {q}]
    /\ current' = [current EXCEPT ![w] = q]
    /\ found' = [found EXCEPT ![w] = hits]
    /\ resolved' = [resolved EXCEPT ![w] = done]
    /\ UNCHANGED <<pc, pending, reports, outcome>>

LastLookUp(w, hits, done) ==
    /\ work[w] = {}
    /\ pending' = pending \ done
    /\ reports' = [p \in Pairs |-> IF p \in hits THEN reports[p] \cup {w} ELSE reports[p]]
    /\ Settle(w, hits, done)
    /\ pc' = [pc EXCEPT ![w] = IF hits = {} THEN "waiting" ELSE "callback"]
    /\ work' = [work EXCEPT ![w] = {}]
    /\ current' = [current EXCEPT ![w] = NoPair]
    /\ found' = [found EXCEPT ![w] = {}]
    /\ resolved' = [resolved EXCEPT ![w] = {}]
    /\ UNCHANGED attempts

\* After a lookup the pass goes on or ends.
LEMMA EndFacts ==
    ASSUME QueueInv, NEW w \in Workers, NEW hits \in SUBSET Pairs, NEW done \in SUBSET Pairs,
           Ends(w, hits, done)
    PROVE  \/ \E q \in work[w] : q \in Pairs /\ NextLookUp(w, q, hits, done)
           \/ LastLookUp(w, hits, done)
BY DEF QueueInv, TypeOK, Ends, Proceed, LookUp, Report, LeavePass, NextLookUp, LastLookUp

\* What a coroutine that forgets its locals assigns.
LEMMA LeaveFacts ==
    ASSUME QueueInv, NEW w \in Workers, NEW new \in SUBSET Pairs, Leaves(w, new)
    PROVE  \/ /\ pc' = [pc EXCEPT ![w] = "waiting"]
              /\ work' = [work EXCEPT ![w] = {}]
              /\ current' = [current EXCEPT ![w] = NoPair]
              /\ found' = [found EXCEPT ![w] = {}]
              /\ resolved' = [resolved EXCEPT ![w] = {}]
              /\ pc[w] # "ended" /\ (store = "none" => pc[w] # "enriching")
           \/ /\ mode = "websocket"
              /\ \A v \in Workers : /\ pc'[v] = "ended" /\ work'[v] = {} /\ current'[v] = NoPair
                                     /\ found'[v] = {} /\ resolved'[v] = {}
BY DEF Leaves, LeavePass, EndListening

\* Coroutines keep the shape of a pass.
LEMMA ShapeStep ==
    ASSUME QueueInv, SettleInv, Kinds
    PROVE  PassShape'
<1> USE PairAssumption
<1>1. TypeOK /\ Awaiting /\ PassShape
    BY DEF QueueInv, SettleInv
<1>2. ASSUME NEW w \in Workers, NEW new \in SUBSET Pairs, Starts(w, new) PROVE PassShape'
    <2>1. Runs(w) /\ pc[w] = "waiting" /\ UNCHANGED mode
        BY <1>2 DEF Starts
    <2>2. resolved[w] = {}
        BY <1>1, <2>1 DEF PassShape
    <2>3. CASE UNCHANGED <<attempts, pc, work, current, found, resolved>>
        BY <1>1, <2>1, <2>3 DEF PassShape, Runs
    <2>4. ASSUME NEW p \in Pairs, FirstLookUp(w, p, pending \cup new) PROVE PassShape'
        BY <1>1, <2>1, <2>2, <2>4 DEF FirstLookUp, PassShape, Runs, TypeOK
    <2> QED
        BY <1>2, <2>3, <2>4, StartFacts
<1>3. ASSUME NEW w \in Workers, NEW new \in SUBSET Pairs, Leaves(w, new) PROVE PassShape'
    <2>1. UNCHANGED mode
        BY <1>3 DEF Leaves
    <2> QED
        BY <1>1, <1>3, <2>1, LeaveFacts DEF PassShape, Runs, TypeOK
<1>4. ASSUME NEW w \in Workers, NEW hits \in SUBSET Pairs, NEW done \in SUBSET Pairs,
             Ends(w, hits, done)
      PROVE  PassShape'
    <2>1. pc[w] = "enriching" /\ Runs(w) /\ UNCHANGED mode
        BY <1>1, <1>4 DEF Ends, PassShape
    <2>2. done \subseteq resolved[w] \cup {current[w]} /\ done \cap work[w] = {}
        BY <1>1, <1>4, <2>1 DEF Ends, Finds, GivesUp, Keeps, PassShape
    <2>3. ASSUME NEW q \in Pairs, NextLookUp(w, q, hits, done) PROVE PassShape'
        BY <1>1, <2>1, <2>2, <2>3 DEF NextLookUp, PassShape, Runs, TypeOK
    <2>4. CASE LastLookUp(w, hits, done)
        BY <1>1, <2>1, <2>4 DEF LastLookUp, PassShape, Runs, TypeOK
    <2> QED
        BY <1>4, <2>3, <2>4, EndFacts
<1>5. CASE Idles
    BY <1>1, <1>5 DEF Idles, PassShape, Runs
<1>6. CASE Restart
    BY <1>6 DEF Restart, PassShape
<1> QED
    BY <1>2, <1>3, <1>4, <1>5, <1>6 DEF Kinds

\* Only the other coroutine of the mode can still hold what a pass pops.
LEMMA HolderStep ==
    ASSUME QueueInv, SettleInv, Kinds
    PROVE  OneHolder'
<1> USE PairAssumption
<1>1. TypeOK /\ Awaiting /\ PassShape /\ OneHolder /\ PassInv
    BY DEF QueueInv, SettleInv
<1>2. \A v \in Workers : pc[v] # "enriching" => Held(v) = {}
    BY <1>1 DEF PassShape, Held
<1>3. \A v, w \in Workers : v # w /\ pc[v] = "enriching" /\ pc[w] = "enriching" =>
            \A u \in Workers : u = v \/ u = w \/ pc[u] # "enriching"
    BY <1>1 DEF PassShape, Runs, Workers
<1>4. ASSUME NEW w \in Workers, NEW new \in SUBSET Pairs, Starts(w, new) PROVE OneHolder'
    <2>1. pc[w] = "waiting" /\ pending' = pending \cup new
        BY <1>4 DEF Starts
    <2>2. CASE UNCHANGED <<attempts, pc, work, current, found, resolved>>
        BY <1>1, <2>1, <2>2 DEF OneHolder, Held
    <2>3. ASSUME NEW p \in pending \cup new, p \in Pairs, FirstLookUp(w, p, pending \cup new)
          PROVE  OneHolder'
        <3>1. Held(w)' \subseteq pending'
            BY <1>1, <2>1, <2>3 DEF FirstLookUp, Held, PassShape, TypeOK
        <3>2. \A v \in Workers \ {w} : Held(v)' = Held(v)
            BY <1>1, <2>3 DEF FirstLookUp, Held, TypeOK
        <3> QED
            BY <1>1, <2>1, <3>1, <3>2 DEF OneHolder
    <2> QED
        BY <1>4, <2>2, <2>3, StartFacts
<1>5. ASSUME NEW w \in Workers, NEW new \in SUBSET Pairs, Leaves(w, new) PROVE OneHolder'
    <2>1. pending' = pending \cup new
        BY <1>5 DEF Leaves
    <2>2. \A v \in Workers : Held(v)' \subseteq Held(v)
        BY <1>1, <1>5, LeaveFacts DEF Held, TypeOK
    <2> QED
        BY <1>1, <2>1, <2>2 DEF OneHolder
<1>6. ASSUME NEW w \in Workers, NEW hits \in SUBSET Pairs, NEW done \in SUBSET Pairs,
             Ends(w, hits, done)
      PROVE  OneHolder'
    <2>1. pc[w] = "enriching"
        BY <1>6 DEF Ends
    <2>2. done \subseteq resolved[w] \cup {current[w]}
        BY <1>1, <1>6 DEF Ends, Finds, GivesUp, Keeps
    <2>3. ASSUME NEW q \in work[w], q \in Pairs, NextLookUp(w, q, hits, done) PROVE OneHolder'
        <3>1. pending' = pending
            BY <2>3 DEF NextLookUp
        <3>2. \A v \in Workers : Held(v)' \subseteq Held(v)
            BY <1>1, <2>1, <2>2, <2>3 DEF NextLookUp, Held, TypeOK, Awaiting
        <3> QED
            BY <1>1, <3>1, <3>2 DEF OneHolder
    <2>4. CASE LastLookUp(w, hits, done)
        <3>1. Held(w)' = {}
            BY <1>1, <2>4 DEF LastLookUp, Held, TypeOK
        <3>2. \A v \in Workers \ {w} : Held(v)' = Held(v)
            BY <1>1, <2>4 DEF LastLookUp, Held, TypeOK
        <3>3. \A u, v \in Workers \ {w} : Held(u) # {} /\ Held(v) # {} => u = v
            BY <1>2, <1>3, <2>1
        <3> QED
            BY <3>1, <3>2, <3>3 DEF OneHolder
    <2> QED
        BY <1>6, <2>3, <2>4, EndFacts
<1>7. CASE Idles
    BY <1>1, <1>7 DEF Idles, OneHolder, Held
<1>8. CASE Restart
    BY <1>8 DEF Restart, OneHolder, Held
<1> QED
    BY <1>4, <1>5, <1>6, <1>7, <1>8 DEF Kinds

\* Only coroutines of the mode report, and only pairs that were seen.
LEMMA HistoryStep ==
    ASSUME QueueInv, SettleInv, Kinds
    PROVE  HistoryInv'
<1> USE PairAssumption
<1>1. TypeOK /\ Awaiting /\ AllSeen /\ PassShape /\ HistoryInv
    BY DEF QueueInv, SettleInv
<1>2. ASSUME NEW w \in Workers, NEW new \in SUBSET Pairs, Starts(w, new) PROVE HistoryInv'
    <2>1. seen' = seen \cup new /\ UNCHANGED <<mode, store, reports, gaveUp>>
          /\ pending \subseteq seen
        BY <1>1, <1>2 DEF Starts, AllSeen
    <2>2. CASE UNCHANGED <<attempts, pc, work, current, found, resolved>>
        BY <1>1, <2>1, <2>2 DEF HistoryInv, Runs
    <2>3. ASSUME NEW p \in pending \cup new, p \in Pairs, FirstLookUp(w, p, pending \cup new)
          PROVE  HistoryInv'
        BY <1>1, <2>1, <2>3 DEF FirstLookUp, HistoryInv, Runs, TypeOK
    <2> QED
        BY <1>2, <2>2, <2>3, StartFacts
<1>3. ASSUME NEW w \in Workers, NEW new \in SUBSET Pairs, Leaves(w, new) PROVE HistoryInv'
    <2>1. seen' = seen \cup new /\ UNCHANGED <<mode, store, attempts, reports, gaveUp>>
        BY <1>3 DEF Leaves
    <2>2. \A v \in Workers : found'[v] = {} \/ found'[v] = found[v]
        BY <1>1, <1>3, LeaveFacts DEF TypeOK
    <2> QED
        BY <1>1, <2>1, <2>2 DEF HistoryInv, Runs
<1>4. ASSUME NEW w \in Workers, NEW hits \in SUBSET Pairs, NEW done \in SUBSET Pairs,
             Ends(w, hits, done)
      PROVE  HistoryInv'
    <2>1. pc[w] = "enriching" /\ Runs(w) /\ UNCHANGED <<mode, store, seen>>
        BY <1>1, <1>4 DEF Ends, PassShape
    <2>2. /\ gaveUp' \subseteq seen
          /\ store = "attached" => hits = {}
          /\ work[w] \subseteq seen
        BY <1>1, <1>4, <2>1
        DEF Ends, Finds, GivesUp, Keeps, AllSeen, Held, Awaiting, HistoryInv, TypeOK
    <2>3. ASSUME NEW q \in work[w], q \in Pairs, NextLookUp(w, q, hits, done) PROVE HistoryInv'
        BY <1>1, <2>1, <2>2, <2>3 DEF NextLookUp, HistoryInv, Runs, TypeOK
    <2>4. CASE LastLookUp(w, hits, done)
        BY <1>1, <2>1, <2>2, <2>4 DEF LastLookUp, HistoryInv, Runs, TypeOK
    <2> QED
        BY <1>4, <2>3, <2>4, EndFacts
<1>5. CASE Idles
    BY <1>1, <1>5 DEF Idles, HistoryInv, Runs
<1>6. CASE Restart
    BY <1>6 DEF Restart, HistoryInv
<1> QED
    BY <1>2, <1>3, <1>4, <1>5, <1>6 DEF Kinds

\* The poller never finds what it gave up: it was out of its snapshot, and is
\* out of the queue before the next one.
LEMMA PollerStep ==
    ASSUME QueueInv, SettleInv, Kinds
    PROVE  PollerInv'
<1> USE PairAssumption
<1>1. TypeOK /\ Awaiting /\ AllSeen /\ PassInv /\ PassShape /\ HistoryInv /\ PollerInv
      /\ OneReportPerWorker /\ "poller" \in Workers
    BY DEF QueueInv, SettleInv, Workers
<1> SUFFICES ASSUME mode' = "polling" PROVE PollerInv'
    BY DEF PollerInv
<1>2. ASSUME NEW w \in Workers, NEW new \in SUBSET Pairs, Starts(w, new) PROVE PollerInv'
    <2>1. /\ seen' = seen \cup new /\ pending' = pending \cup new /\ new \cap seen = {}
          /\ UNCHANGED <<mode, store, reports, gaveUp>> /\ mode = "polling" /\ w = "poller"
          /\ pc["poller"] = "waiting"
        BY <1>2 DEF Starts, Runs
    <2>2. /\ resolved["poller"] = {} /\ found["poller"] = {} /\ gaveUp \cap new = {}
          /\ work["poller"] = {} /\ current["poller"] = NoPair
        BY <1>1, <2>1 DEF PassShape, HistoryInv
    <2>3. store = "none" => gaveUp \cap (pending \cup new) = {}
        BY <1>1, <2>1, <2>2 DEF PollerInv
    <2>4. CASE UNCHANGED <<attempts, pc, work, current, found, resolved>>
        BY <1>1, <2>1, <2>2, <2>3, <2>4 DEF PollerInv, TypeOK
    <2>5. ASSUME NEW p \in pending \cup new, p \in Pairs, FirstLookUp(w, p, pending \cup new)
          PROVE  PollerInv'
        <3>1. /\ work'["poller"] \cup {current'["poller"]} \subseteq pending \cup new
              /\ found'["poller"] = {} /\ resolved'["poller"] = {}
            BY <1>1, <2>1, <2>2, <2>5 DEF FirstLookUp, TypeOK
        <3> QED
            BY <1>1, <2>1, <2>3, <3>1 DEF PollerInv
    <2> QED
        BY <1>2, <2>4, <2>5, StartFacts
<1>3. ASSUME NEW w \in Workers, NEW new \in SUBSET Pairs, Leaves(w, new) PROVE PollerInv'
    <2>1. /\ seen' = seen \cup new /\ pending' = pending \cup new /\ new \cap seen = {}
          /\ UNCHANGED <<mode, store, reports, gaveUp>> /\ mode = "polling"
        BY <1>3 DEF Leaves
    <2>2. gaveUp \cap new = {}
        BY <1>1, <2>1 DEF HistoryInv
    <2>3. \/ UNCHANGED <<work["poller"], current["poller"], found["poller"], resolved["poller"]>>
          \/ /\ store # "none"
             /\ found'["poller"] = {}
        <3>1. /\ work' = [work EXCEPT ![w] = {}]
              /\ current' = [current EXCEPT ![w] = NoPair]
              /\ found' = [found EXCEPT ![w] = {}]
              /\ resolved' = [resolved EXCEPT ![w] = {}]
              /\ store = "none" => pc[w] # "enriching"
            BY <1>3, <2>1, LeaveFacts
        <3>2. CASE w # "poller"
            BY <1>1, <3>1, <3>2 DEF TypeOK
        <3>3. CASE w = "poller" /\ store = "none"
            <4>1. /\ work["poller"] = {} /\ current["poller"] = NoPair
                  /\ found["poller"] = {} /\ resolved["poller"] = {}
                BY <1>1, <3>1, <3>3 DEF PassShape
            <4> QED
                BY <1>1, <3>1, <3>3, <4>1 DEF TypeOK
        <3>4. CASE w = "poller" /\ store # "none"
            BY <1>1, <3>1, <3>4 DEF TypeOK
        <3> QED
            BY <3>2, <3>3, <3>4
    <2> QED
        BY <1>1, <2>1, <2>2, <2>3 DEF PollerInv
<1>4. ASSUME NEW w \in Workers, NEW hits \in SUBSET Pairs, NEW done \in SUBSET Pairs,
             Ends(w, hits, done)
      PROVE  PollerInv'
    <2>1. /\ pc["poller"] = "enriching" /\ w = "poller" /\ mode = "polling"
          /\ UNCHANGED <<mode, store, seen>>
        BY <1>1, <1>4 DEF Ends, PassShape, Runs
    <2> DEFINE c == current["poller"]
    <2>2. /\ c \in Pairs /\ c \notin work["poller"] \cup resolved["poller"]
          /\ c \notin found["poller"] /\ c \in Held("poller")
          /\ found["poller"] \subseteq resolved["poller"]
        BY <1>1, <2>1 DEF Awaiting, PassShape, PassInv, Held
    <2>3. reports[c] = {}
        BY <1>1, <2>1, <2>2 DEF OneReportPerWorker, HistoryInv, Runs, TypeOK
    <2>4. /\ \A p \in gaveUp' : reports[p] = {}
          /\ gaveUp' \cap hits = {}
          /\ store = "none" => /\ gaveUp' \cap work["poller"] = {}
                              /\ gaveUp' \cap pending \subseteq done
        <3>1. CASE Finds(w, hits, done)
            BY <1>1, <2>1, <2>2, <3>1 DEF Finds, PollerInv, TypeOK
        <3>2. CASE GivesUp(w, hits, done)
            BY <1>1, <2>1, <2>2, <2>3, <3>2 DEF GivesUp, PollerInv
        <3>3. CASE Keeps(w, hits, done)
            BY <1>1, <2>1, <2>2, <3>3 DEF Keeps, PollerInv
        <3> QED
            BY <1>4, <3>1, <3>2, <3>3 DEF Ends
    <2> HIDE DEF c
    <2>5. ASSUME NEW q \in work[w], q \in Pairs, NextLookUp(w, q, hits, done) PROVE PollerInv'
        <3>1. /\ work'["poller"] \cup {current'["poller"]} \subseteq work["poller"]
              /\ found'["poller"] = hits /\ resolved'["poller"] = done
              /\ UNCHANGED <<pending, reports>>
            BY <1>1, <2>1, <2>5 DEF NextLookUp, TypeOK
        <3> QED
            BY <2>1, <2>4, <3>1 DEF PollerInv
    <2>6. CASE LastLookUp(w, hits, done)
        <3>1. /\ work'["poller"] = {} /\ current'["poller"] = NoPair
              /\ found'["poller"] = {} /\ resolved'["poller"] = {}
              /\ pending' = pending \ done
            BY <1>1, <2>1, <2>6 DEF LastLookUp, TypeOK
        <3>2. gaveUp' \subseteq Pairs
            BY <1>1, <1>4, <2>1 DEF Ends, Finds, GivesUp, Keeps, TypeOK, Awaiting
        <3>3. \A p \in gaveUp' : reports'[p] = {}
            BY <2>4, <2>6, <3>2 DEF LastLookUp
        <3> QED
            BY <2>1, <2>4, <3>1, <3>2, <3>3 DEF PollerInv
    <2> QED
        BY <1>4, <2>5, <2>6, EndFacts
<1>5. CASE Idles
    BY <1>1, <1>5 DEF Idles, PollerInv
<1>6. CASE Restart
    BY <1>6 DEF Restart, PollerInv, Workers
<1> QED
    BY <1>2, <1>3, <1>4, <1>5, <1>6 DEF Kinds

\* An attempt of the poller never gets ahead of the poll intervals.
LEMMA WindowStep ==
    ASSUME QueueInv, SettleInv, Kinds
    PROVE  WindowInv'
<1> USE PairAssumption, AttemptsAssumption
<1>1. TypeOK /\ Awaiting /\ PassShape /\ WindowInv /\ "poller" \in Workers
    BY DEF QueueInv, SettleInv, Workers
<1> SUFFICES ASSUME mode' = "polling" PROVE WindowInv'
    BY DEF WindowInv
<1>2. \A p \in Pairs : attempts[p] \in Nat /\ intervals[p] \in 0..MaxAttempts
    BY <1>1 DEF TypeOK, AttemptCap
<1>3. ASSUME NEW queue \in SUBSET Pairs, CountInterval(queue)
      PROVE  \A p \in Pairs :
                /\ intervals'[p] = MaxAttempts \/ intervals'[p] >= intervals[p]
                /\ intervals[p] = MaxAttempts => intervals'[p] = MaxAttempts
                /\ p \in queue => intervals'[p] = MaxAttempts \/ intervals'[p] = intervals[p] + 1
    BY <1>2, <1>3 DEF CountInterval
<1>4. ASSUME NEW w \in Workers, NEW new \in SUBSET Pairs, Starts(w, new) PROVE WindowInv'
    <2> DEFINE queue == pending \cup new
    <2>1. /\ mode = "polling" /\ w = "poller" /\ UNCHANGED <<mode, gaveUp>>
          /\ CountInterval(queue) /\ queue \in SUBSET Pairs /\ gaveUp \subseteq Pairs
        BY <1>1, <1>4 DEF Starts, Runs, TypeOK
    <2>2. \A p \in Pairs :
                /\ intervals'[p] = MaxAttempts \/ intervals'[p] >= intervals[p]
                /\ intervals[p] = MaxAttempts => intervals'[p] = MaxAttempts
                /\ p \in queue => intervals'[p] = MaxAttempts \/ intervals'[p] = intervals[p] + 1
        BY <1>3, <2>1
    <2>3. \A p \in Pairs : intervals'[p] \in Nat
        BY <1>2, <2>1 DEF CountInterval
    <2>4. CASE queue = {} /\ UNCHANGED <<attempts, pc, work, current, found, resolved>>
        BY <1>1, <1>2, <2>1, <2>2, <2>3, <2>4 DEF WindowInv
    <2>5. ASSUME NEW p \in queue, p \in Pairs, FirstLookUp(w, p, queue) PROVE WindowInv'
        <3>1. \A r \in Pairs : /\ attempts'[r] \in Nat
                               /\ attempts'[r] = attempts[r] \/ (r = p /\ attempts'[r] = attempts[r] + 1)
            BY <1>1, <1>2, <2>5 DEF FirstLookUp, Bump, TypeOK
        <3>2. work'["poller"] = queue \ {p}
            BY <1>1, <2>1, <2>5 DEF FirstLookUp, TypeOK
        <3>3. \A r \in Pairs : attempts[r] <= intervals[r] \/ intervals[r] = MaxAttempts
            BY <1>1, <2>1 DEF WindowInv
        <3>4. \A r \in Pairs : attempts'[r] <= intervals'[r] \/ intervals'[r] = MaxAttempts
            BY <1>2, <2>2, <2>3, <2>5, <3>1, <3>3
        <3>5. \A r \in Pairs : r \in work'["poller"] =>
                    attempts'[r] < intervals'[r] \/ intervals'[r] = MaxAttempts
            BY <1>2, <2>2, <2>3, <2>5, <3>1, <3>2, <3>3
        <3>6. \A r \in Pairs : r \in gaveUp' => intervals'[r] = MaxAttempts
            BY <1>1, <2>1, <2>2 DEF WindowInv
        <3> QED
            BY <3>4, <3>5, <3>6 DEF WindowInv
    <2> QED
        BY <1>4, <2>4, <2>5, StartFacts
<1>5. ASSUME NEW w \in Workers, NEW new \in SUBSET Pairs, Leaves(w, new) PROVE WindowInv'
    <2>1. /\ mode = "polling" /\ UNCHANGED <<mode, gaveUp, attempts>>
          /\ intervals' = intervals \/ CountInterval(pending \cup new)
          /\ pending \cup new \in SUBSET Pairs
        BY <1>1, <1>5 DEF Leaves, TypeOK
    <2>2. \A p \in Pairs :
                /\ intervals'[p] = MaxAttempts \/ intervals'[p] >= intervals[p]
                /\ intervals[p] = MaxAttempts => intervals'[p] = MaxAttempts
        BY <1>2, <1>3, <2>1
    <2>3. \A p \in Pairs : intervals'[p] \in Nat
        BY <1>2, <2>1 DEF CountInterval
    <2>4. work'["poller"] \subseteq work["poller"]
        BY <1>1, <1>5, <2>1, LeaveFacts DEF TypeOK
    <2> QED
        BY <1>1, <1>2, <2>1, <2>2, <2>3, <2>4 DEF WindowInv
<1>6. ASSUME NEW w \in Workers, NEW hits \in SUBSET Pairs, NEW done \in SUBSET Pairs,
             Ends(w, hits, done)
      PROVE  WindowInv'
    <2>1. /\ pc["poller"] = "enriching" /\ w = "poller" /\ mode = "polling"
          /\ UNCHANGED <<mode, intervals>> /\ current[w] \in Pairs
        BY <1>1, <1>6 DEF Ends, PassShape, Runs, Awaiting
    <2>2. \A p \in Pairs : p \in gaveUp' => intervals[p] = MaxAttempts
        <3>1. attempts[current[w]] >= MaxAttempts => intervals[current[w]] = MaxAttempts
            BY <1>1, <1>2, <2>1 DEF WindowInv
        <3> QED
            BY <1>1, <1>6, <2>1, <3>1 DEF Ends, Finds, GivesUp, Keeps, WindowInv
    <2>3. ASSUME NEW q \in work[w], q \in Pairs, NextLookUp(w, q, hits, done) PROVE WindowInv'
        <3>1. \A r \in Pairs : attempts'[r] = attempts[r] \/ (r = q /\ attempts'[r] = attempts[r] + 1)
            BY <1>1, <1>2, <2>3 DEF NextLookUp, Bump, TypeOK
        <3>2. /\ work'["poller"] = work["poller"] \ {q}
              /\ \A r \in Pairs \ {q} : attempts'[r] = attempts[r]
            BY <1>1, <2>1, <2>3 DEF NextLookUp, TypeOK
        <3>3. \A r \in Pairs : attempts'[r] <= intervals[r] \/ intervals[r] = MaxAttempts
            BY <1>1, <1>2, <2>1, <2>3, <3>1 DEF WindowInv
        <3> QED
            BY <1>1, <2>1, <2>2, <3>2, <3>3 DEF WindowInv
    <2>4. CASE LastLookUp(w, hits, done)
        <3>1. work'["poller"] = {} /\ UNCHANGED attempts
            BY <1>1, <2>1, <2>4 DEF LastLookUp, TypeOK
        <3> QED
            BY <1>1, <2>1, <2>2, <3>1 DEF WindowInv
    <2> QED
        BY <1>6, <2>3, <2>4, EndFacts
<1>7. CASE Idles
    <2>1. pending \in SUBSET Pairs
        BY <1>1 DEF TypeOK
    <2>2. \A p \in Pairs :
                /\ intervals'[p] = MaxAttempts \/ intervals'[p] >= intervals[p]
                /\ intervals[p] = MaxAttempts => intervals'[p] = MaxAttempts
        BY <1>2, <1>3, <1>7, <2>1 DEF Idles
    <2>3. \A p \in Pairs : intervals'[p] \in Nat
        BY <1>2, <1>7 DEF Idles, CountInterval
    <2> QED
        BY <1>1, <1>2, <1>7, <2>2, <2>3 DEF Idles, WindowInv
<1>8. CASE Restart
    BY <1>8 DEF Restart, WindowInv, Workers
<1> QED
    BY <1>4, <1>5, <1>6, <1>7, <1>8 DEF Kinds

\* The coroutine of a pair that reached the limit is in a pass, in which the
\* pair is not looked up again.
LEMMA SettlingFacts ==
    ASSUME QueueInv, PassShape, NEW w \in Workers, NEW p \in Pairs, Settling(w, p)
    PROVE  /\ pc[w] = "enriching" /\ Runs(w) /\ p \in Held(w) /\ p \notin work[w]
BY PairAssumption DEF QueueInv, TypeOK, PassShape, Settling, Held

\* A pair at the limit is looked up again by the other coroutine at most once.
LEMMA AttemptsStep ==
    ASSUME QueueInv, SettleInv, Kinds
    PROVE  AttemptsInv'
<1> USE PairAssumption, AttemptsAssumption
<1>1. TypeOK /\ Awaiting /\ AllSeen /\ PassShape /\ OneHolder /\ HistoryInv /\ AttemptsInv
    BY DEF QueueInv, SettleInv
<1> SUFFICES ASSUME store' = "none" PROVE AttemptsInv'
    BY DEF AttemptsInv
<1>2. /\ \A p \in Pairs : attempts[p] \in Nat
      /\ Limit \in Nat /\ Limit >= MaxAttempts /\ MaxAttempts >= 1
      /\ mode = "polling" => Limit = MaxAttempts
      /\ mode # "polling" => Limit = MaxAttempts + 1
    BY <1>1 DEF TypeOK, AttemptCap, Limit
<1>3. ASSUME NEW w \in Workers, NEW new \in SUBSET Pairs, Starts(w, new) PROVE AttemptsInv'
    <2> DEFINE queue == pending \cup new
    <2>1. /\ Runs(w) /\ pc[w] = "waiting" /\ new \cap seen = {} /\ pending' = queue
          /\ UNCHANGED <<mode, store>> /\ store = "none"
        BY <1>3 DEF Starts
    <2>2. /\ resolved[w] = {} /\ current[w] = NoPair /\ work[w] = {}
          /\ \A v \in Workers : pc[v] # "ended"
          /\ \A p \in Pairs : ~Settling(w, p)
        BY <1>1, <2>1 DEF PassShape, Settling
    <2>3. \A p \in new : p \in Pairs /\ attempts[p] = 0
        BY <1>1, <2>1 DEF HistoryInv
    <2>4. \A p \in queue : p \in Pairs /\ attempts[p] < Limit
        BY <1>1, <1>2, <2>1, <2>2, <2>3 DEF AttemptsInv, TypeOK
    <2>5. Limit' = Limit
        BY <2>1 DEF Limit
    <2>6. CASE queue = {} /\ UNCHANGED <<attempts, pc, work, current, found, resolved>>
        BY <1>1, <1>2, <2>1, <2>5, <2>6 DEF AttemptsInv, Settling, Runs
    <2>7. ASSUME NEW p \in queue, p \in Pairs, FirstLookUp(w, p, queue) PROVE AttemptsInv'
        <3>1. /\ \A r \in Pairs \ {p} : attempts'[r] = attempts[r]
              /\ attempts'[p] = attempts[p] + 1
            BY <1>1, <1>2, <2>4, <2>7 DEF FirstLookUp, Bump, TypeOK, AttemptCap
        <3>2. /\ \A v \in Workers \ {w} : /\ pc'[v] = pc[v] /\ work'[v] = work[v]
                                         /\ \A r \in Pairs : Settling(v, r)' = Settling(v, r)
              /\ pc'[w] = "enriching" /\ work'[w] = queue \ {p} /\ Settling(w, p)'
            BY <1>1, <2>7 DEF FirstLookUp, Settling, TypeOK
        <3>3. \A r \in Pairs : attempts'[r] <= Limit'
            BY <1>1, <1>2, <2>1, <2>4, <2>5, <2>7, <3>1 DEF AttemptsInv
        <3>4. ASSUME NEW r \in Pairs, attempts'[r] >= MaxAttempts, r \in pending'
              PROVE  \E v \in Workers : Settling(v, r)' \/ pc'[v] = "ended"
            <4>1. CASE r = p
                BY <3>2, <4>1
            <4>2. CASE r # p
                <5>1. r \in pending /\ attempts[r] >= MaxAttempts
                    BY <1>2, <2>1, <2>3, <3>1, <3>4, <4>2
                <5>2. PICK v \in Workers : Settling(v, r)
                    BY <1>1, <2>1, <2>2, <5>1 DEF AttemptsInv
                <5> QED
                    BY <2>2, <3>2, <5>2
            <4> QED
                BY <4>1, <4>2
        <3>5. ASSUME NEW r \in Pairs, attempts'[r] >= Limit', NEW v \in Workers, Runs(v)
              PROVE  /\ r \notin work'[v]
                     /\ r \in pending' => Settling(v, r)' \/ pc'[v] = "ended"
            <4>1. CASE r # p
                <5>1. attempts[r] >= Limit /\ r \notin queue
                    BY <1>2, <2>4, <2>5, <3>1, <3>5, <4>1
                <5>2. r \notin work[v]
                    BY <1>1, <2>1, <3>5, <5>1 DEF AttemptsInv
                <5> QED
                    BY <2>1, <3>2, <5>1, <5>2
            <4>2. CASE r = p /\ v = w
                BY <3>2, <4>2
            <4>3. CASE r = p /\ v # w
                <5>1. mode # "polling" /\ attempts[p] = MaxAttempts
                    BY <1>2, <2>1, <2>4, <2>5, <3>1, <3>5, <4>3 DEF Runs
                <5>2. p \in pending
                    BY <1>2, <2>3, <2>7, <5>1
                <5>3. PICK u \in Workers : Settling(u, p)
                    BY <1>1, <1>2, <2>1, <2>2, <2>7, <5>1, <5>2 DEF AttemptsInv
                <5>4. Runs(u) /\ u # w
                    BY <1>1, <2>2, <2>7, <5>3, SettlingFacts
                <5>5. u = v
                    BY <2>1, <3>5, <4>3, <5>1, <5>4 DEF Runs, Workers
                <5>6. p \notin work[v]
                    BY <1>1, <2>7, <5>3, <5>5, SettlingFacts
                <5> QED
                    BY <3>2, <4>3, <5>3, <5>5, <5>6
            <4> QED
                BY <4>1, <4>2, <4>3
        <3>6. \A v : Runs(v)' = Runs(v)
            BY <2>1 DEF Runs
        <3> QED
            BY <3>3, <3>4, <3>5, <3>6 DEF AttemptsInv
    <2> QED
        BY <1>3, <2>6, <2>7, StartFacts
<1>4. ASSUME NEW w \in Workers, NEW new \in SUBSET Pairs, Leaves(w, new) PROVE AttemptsInv'
    <2>1. /\ new \cap seen = {} /\ pending' = pending \cup new
          /\ UNCHANGED <<mode, store, attempts>> /\ store = "none"
        BY <1>4 DEF Leaves
    <2>2. \A p \in new : p \in Pairs /\ attempts[p] = 0
        BY <1>1, <2>1 DEF HistoryInv
    <2>3. Limit' = Limit
        BY <2>1 DEF Limit
    <2>4. \A v \in Workers :
            /\ work'[v] \subseteq work[v]
            /\ pc[v] = "ended" => pc'[v] = "ended"
            /\ \A p \in Pairs : Settling(v, p) => Settling(v, p)' \/ pc'[v] = "ended"
        <3>1. CASE \A v \in Workers : /\ pc'[v] = "ended" /\ work'[v] = {}
            BY <3>1
        <3>2. CASE /\ pc' = [pc EXCEPT ![w] = "waiting"]
                   /\ work' = [work EXCEPT ![w] = {}]
                   /\ current' = [current EXCEPT ![w] = NoPair]
                   /\ resolved' = [resolved EXCEPT ![w] = {}]
                   /\ pc[w] # "ended" /\ pc[w] # "enriching"
            <4>1. \A p \in Pairs : ~Settling(w, p)
                BY <1>1, <3>2, SettlingFacts
            <4>2. \A v \in Workers \ {w} : /\ pc'[v] = pc[v] /\ work'[v] = work[v]
                                         /\ current'[v] = current[v] /\ resolved'[v] = resolved[v]
                BY <1>1, <3>2 DEF TypeOK
            <4>3. work'[w] = {}
                BY <1>1, <3>2 DEF TypeOK
            <4> QED
                BY <3>2, <4>1, <4>2, <4>3 DEF Settling
        <3> QED
            BY <1>4, <2>1, <3>1, <3>2, LeaveFacts
    <2>5. \A v : Runs(v)' = Runs(v)
        BY <2>1 DEF Runs
    <2>6. \A p \in Pairs : attempts'[p] >= MaxAttempts /\ p \in pending' =>
              \E v \in Workers : Settling(v, p)' \/ pc'[v] = "ended"
        BY <1>1, <1>2, <2>1, <2>2, <2>4 DEF AttemptsInv
    <2>7. \A p \in Pairs : attempts'[p] >= Limit' =>
              \A v \in Workers : Runs(v)' =>
                  /\ p \notin work'[v]
                  /\ p \in pending' => Settling(v, p)' \/ pc'[v] = "ended"
        BY <1>1, <1>2, <2>1, <2>2, <2>3, <2>4, <2>5 DEF AttemptsInv
    <2> QED
        BY <1>1, <2>1, <2>3, <2>6, <2>7 DEF AttemptsInv
<1>5. ASSUME NEW w \in Workers, NEW hits \in SUBSET Pairs, NEW done \in SUBSET Pairs,
             Ends(w, hits, done)
      PROVE  AttemptsInv'
    <2> DEFINE c == current[w]
    <2>1. /\ pc[w] = "enriching" /\ Runs(w) /\ c \in Pairs
          /\ UNCHANGED <<mode, store, seen>> /\ store = "none"
        BY <1>1, <1>5 DEF Ends, PassShape, Awaiting
    <2>2. /\ \A v \in Workers : pc[v] # "ended"
          /\ c \notin work[w] /\ work[w] \cap resolved[w] = {}
        BY <1>1, <2>1 DEF PassShape
    <2>3. \A r \in Pairs : Settling(w, r) /\ attempts[r] >= MaxAttempts => r \in done
        BY <1>1, <1>2, <1>5, <2>1 DEF Ends, Finds, GivesUp, Keeps, Settling
    <2>4. Limit' = Limit /\ (\A v : Runs(v)' = Runs(v))
        BY <2>1 DEF Limit, Runs
    <2> HIDE DEF c
    <2>5. ASSUME NEW q \in work[w], q \in Pairs, NextLookUp(w, q, hits, done) PROVE AttemptsInv'
        <3>1. attempts[q] < Limit
            BY <1>1, <1>2, <2>1, <2>5 DEF AttemptsInv
        <3>2. /\ \A r \in Pairs \ {q} : attempts'[r] = attempts[r]
              /\ attempts'[q] = attempts[q] + 1
            BY <1>1, <1>2, <2>5, <3>1 DEF NextLookUp, Bump, TypeOK, AttemptCap
        <3>3. /\ \A v \in Workers \ {w} : /\ pc'[v] = pc[v] /\ work'[v] = work[v]
                                         /\ \A r \in Pairs : Settling(v, r)' = Settling(v, r)
              /\ pc'[w] = "enriching" /\ work'[w] = work[w] \ {q} /\ Settling(w, q)'
              /\ \A r \in done : Settling(w, r)'
              /\ pending' = pending
            BY <1>1, <2>1, <2>5 DEF NextLookUp, Settling, TypeOK
        <3>4. \A r \in Pairs : attempts'[r] <= Limit'
            BY <1>1, <1>2, <2>1, <2>4, <3>1, <3>2 DEF AttemptsInv
        <3>5. ASSUME NEW r \in Pairs, attempts'[r] >= MaxAttempts, r \in pending'
              PROVE  \E v \in Workers : Settling(v, r)' \/ pc'[v] = "ended"
            <4>1. CASE r = q
                BY <3>3, <4>1
            <4>2. CASE r # q
                <5>1. r \in pending /\ attempts[r] >= MaxAttempts
                    BY <3>2, <3>3, <3>5, <4>2
                <5>2. PICK v \in Workers : Settling(v, r)
                    BY <1>1, <2>1, <2>2, <5>1 DEF AttemptsInv
                <5>3. v = w => r \in done
                    BY <2>3, <5>1, <5>2
                <5> QED
                    BY <3>3, <5>2, <5>3
            <4> QED
                BY <4>1, <4>2
        <3>6. ASSUME NEW r \in Pairs, attempts'[r] >= Limit', NEW v \in Workers, Runs(v)
              PROVE  /\ r \notin work'[v]
                     /\ r \in pending' => Settling(v, r)' \/ pc'[v] = "ended"
            <4>1. CASE r # q
                <5>1. attempts[r] >= Limit
                    BY <2>4, <3>2, <3>6, <4>1
                <5>2. r \notin work[v] /\ (r \in pending => Settling(v, r))
                    BY <1>1, <2>1, <2>2, <3>6, <5>1 DEF AttemptsInv
                <5>3. v = w /\ r \in pending => r \in done
                    BY <1>2, <2>3, <5>1, <5>2
                <5> QED
                    BY <3>3, <5>2, <5>3
            <4>2. CASE r = q /\ v = w
                BY <3>3, <4>2
            <4>3. CASE r = q /\ v # w
                <5>1. mode # "polling" /\ attempts[q] = MaxAttempts
                    BY <1>2, <2>1, <2>4, <3>1, <3>2, <3>6, <4>3 DEF Runs
                <5>2. q \in Held(w) /\ ~Settling(w, q)
                    BY <2>2, <2>5 DEF Held, Settling, c
                <5>3. CASE q \in pending
                    <6>1. PICK u \in Workers : Settling(u, q)
                        BY <1>1, <1>2, <2>1, <2>2, <2>5, <5>1, <5>3 DEF AttemptsInv
                    <6>2. Runs(u) /\ u # w /\ q \notin work[u]
                        BY <1>1, <2>5, <5>2, <6>1, SettlingFacts
                    <6>3. u = v
                        BY <2>1, <3>6, <4>3, <5>1, <6>2 DEF Runs, Workers
                    <6> QED
                        BY <3>3, <4>3, <6>1, <6>2, <6>3
                <5>4. CASE q \notin pending
                    <6>1. q \notin Held(v)
                        BY <1>1, <2>5, <4>3, <5>2, <5>4 DEF OneHolder
                    <6> QED
                        BY <3>3, <4>3, <5>4, <6>1 DEF Held
                <5> QED
                    BY <5>3, <5>4
            <4> QED
                BY <4>1, <4>2, <4>3
        <3> QED
            BY <2>4, <3>4, <3>5, <3>6 DEF AttemptsInv
    <2>6. CASE LastLookUp(w, hits, done)
        <3>1. /\ \A v \in Workers \ {w} : /\ pc'[v] = pc[v] /\ work'[v] = work[v]
                                         /\ \A r \in Pairs : Settling(v, r)' = Settling(v, r)
              /\ work'[w] = {} /\ pending' = pending \ done /\ attempts' = attempts
            BY <1>1, <2>1, <2>6 DEF LastLookUp, Settling, TypeOK
        <3>2. ASSUME NEW r \in Pairs, attempts[r] >= MaxAttempts, r \in pending'
              PROVE  \E v \in Workers : Settling(v, r)' \/ pc'[v] = "ended"
            <4>1. PICK v \in Workers : Settling(v, r)
                BY <1>1, <2>1, <2>2, <3>1, <3>2 DEF AttemptsInv
            <4> QED
                BY <2>3, <3>1, <3>2, <4>1
        <3>3. ASSUME NEW r \in Pairs, attempts[r] >= Limit, NEW v \in Workers, Runs(v)
              PROVE  r \notin work'[v] /\ r \notin pending'
            <4>1. r \notin work[v] /\ (r \in pending => Settling(w, r))
                BY <1>1, <2>1, <2>2, <3>3 DEF AttemptsInv
            <4> QED
                BY <1>2, <2>3, <3>1, <3>3, <4>1
        <3> QED
            BY <1>1, <2>1, <2>4, <3>1, <3>2, <3>3 DEF AttemptsInv
    <2> QED
        BY <1>5, <2>5, <2>6, EndFacts
<1>6. CASE Idles
    BY <1>1, <1>6 DEF Idles, AttemptsInv, Settling, Runs, Limit
<1>7. CASE Restart
    BY <1>2, <1>7 DEF Restart, AttemptsInv, Limit
<1> QED
    BY <1>3, <1>4, <1>5, <1>6, <1>7 DEF Kinds

\* What a pass settles it had neither settled before nor can settle again: it
\* was held, and it is popped.
LEMMA OutcomeStep ==
    ASSUME QueueInv, SettleInv, Kinds
    PROVE  OutcomeInv'
<1> USE PairAssumption
<1>1. TypeOK /\ Awaiting /\ AllSeen /\ PassShape /\ OutcomeInv
    BY DEF QueueInv, SettleInv
<1>2. ASSUME NEW w \in Workers, NEW new \in SUBSET Pairs, Starts(w, new) PROVE OutcomeInv'
    <2>1. /\ seen' = seen \cup new /\ pending' = pending \cup new /\ new \cap seen = {}
          /\ UNCHANGED <<mode, outcome>>
        BY <1>2 DEF Starts
    <2>2. \A v \in Workers : Held(v)' \subseteq Held(v) \cup pending'
        <3>1. CASE UNCHANGED <<attempts, pc, work, current, found, resolved>>
            BY <3>1 DEF Held
        <3>2. ASSUME NEW p \in pending \cup new, p \in Pairs, FirstLookUp(w, p, pending \cup new)
              PROVE  \A v \in Workers : Held(v)' \subseteq Held(v) \cup pending'
            BY <1>1, <2>1, <3>2 DEF FirstLookUp, Held, TypeOK
        <3> QED
            BY <1>2, <3>1, <3>2, StartFacts
    <2> QED
        BY <1>1, <2>1, <2>2 DEF OutcomeInv, Runs
<1>3. ASSUME NEW w \in Workers, NEW new \in SUBSET Pairs, Leaves(w, new) PROVE OutcomeInv'
    <2>1. /\ seen' = seen \cup new /\ pending' = pending \cup new /\ new \cap seen = {}
          /\ UNCHANGED <<mode, outcome>>
        BY <1>3 DEF Leaves
    <2>2. \A v \in Workers : Held(v)' \subseteq Held(v)
        BY <1>1, <1>3, LeaveFacts DEF Held, TypeOK
    <2> QED
        BY <1>1, <2>1, <2>2 DEF OutcomeInv, Runs
<1>4. ASSUME NEW w \in Workers, NEW hits \in SUBSET Pairs, NEW done \in SUBSET Pairs,
             Ends(w, hits, done)
      PROVE  OutcomeInv'
    <2>1. pc[w] = "enriching" /\ Runs(w) /\ UNCHANGED <<mode, seen>>
        BY <1>1, <1>4 DEF Ends, PassShape
    <2>2. done \subseteq resolved[w] \cup {current[w]} /\ done \subseteq Held(w)
          /\ done \subseteq seen
        BY <1>1, <1>4, <2>1 DEF Ends, Finds, GivesUp, Keeps, Held, Awaiting, AllSeen
    <2>3. ASSUME NEW q \in work[w], q \in Pairs, NextLookUp(w, q, hits, done) PROVE OutcomeInv'
        <3>1. \A v \in Workers : Held(v)' \subseteq Held(v)
            BY <1>1, <2>1, <2>2, <2>3 DEF NextLookUp, Held, TypeOK, Awaiting
        <3> QED
            BY <1>1, <2>1, <2>3, <3>1 DEF NextLookUp, OutcomeInv, Runs
    <2>4. CASE LastLookUp(w, hits, done)
        <3>1. Held(w)' = {} /\ \A v \in Workers \ {w} : Held(v)' = Held(v)
            BY <1>1, <2>4 DEF LastLookUp, Held, TypeOK
        <3>2. pending' = pending \ done
            BY <2>4 DEF LastLookUp
        <3>3. \A p \in Pairs : \A v \in Workers :
                outcome'[p][v] = outcome[p][v] \/ (v = w /\ p \in done)
            BY <1>1, <2>4 DEF LastLookUp, Settle, TypeOK, Outcomes
        <3>4. \A p \in done : outcome[p][w] = "none"
            BY <1>1, <2>2 DEF OutcomeInv
        <3>5. \A p \in done : outcome'[p][w] \in {"reported", "given_up"}
            BY <1>1, <2>4, <3>4 DEF LastLookUp, Settle, TypeOK, Outcomes
        <3> QED
            BY <1>1, <2>1, <2>2, <3>1, <3>2, <3>3, <3>5 DEF OutcomeInv, Runs
    <2> QED
        BY <1>4, <2>3, <2>4, EndFacts
<1>5. CASE Idles
    BY <1>1, <1>5 DEF Idles, OutcomeInv, Runs, Held
<1>6. CASE Restart
    BY <1>6 DEF Restart, OutcomeInv
<1> QED
    BY <1>2, <1>3, <1>4, <1>5, <1>6 DEF Kinds

\* The initial state satisfies the second inductive invariant.
LEMMA SettleInit == Init => SettleInv
BY AttemptsAssumption, PairAssumption
DEF Init, SettleInv, PassShape, OneHolder, HistoryInv, PollerInv, AttemptsInv, WindowInv,
    OutcomeInv, Held, Limit, Workers

\* Every step preserves it, with the first.
LEMMA SettleStep == QueueInv /\ SettleInv /\ [Next]_vars => SettleInv'
<1> SUFFICES ASSUME QueueInv, SettleInv, [Next]_vars PROVE SettleInv'
    OBVIOUS
<1>1. Kinds
    BY StepKinds DEF SettleInv
<1> QED
    BY <1>1, ShapeStep, HolderStep, HistoryStep, PollerStep, AttemptsStep, WindowStep, OutcomeStep
    DEF SettleInv

\* Both inductive invariants hold in every reachable state.
THEOREM SettleInvariance == Spec => [](QueueInv /\ SettleInv)
<1>1. Init => QueueInv /\ SettleInv
    BY QueueInit, SettleInit
<1>2. QueueInv /\ SettleInv /\ [Next]_vars => (QueueInv /\ SettleInv)'
    BY QueueStep, SettleStep
<1> QED
    BY <1>1, <1>2, PTL DEF Spec

\* The single poller settles a pair in one pass and one way: it hands it to
\* on_tokens_found once at most, and not when it gave it up (scraper.py:207-249).
THEOREM PollerSettlesOnce == Spec => []SettledOnceByPoller
<1>1. QueueInv /\ SettleInv => SettledOnceByPoller
    <2> SUFFICES ASSUME QueueInv, SettleInv, mode = "polling", NEW p \in Pairs
                 PROVE  /\ \A w \in Workers : outcome[p][w] # "again"
                        /\ \A v, w \in Workers :
                              outcome[p][v] # "none" /\ outcome[p][w] # "none" => v = w
                        /\ reports[p] # {} => p \notin gaveUp
        BY DEF SettledOnceByPoller, SettledOnce
    <2>1. \A w \in Workers : outcome[p][w] # "again" /\ (outcome[p][w] # "none" => w = "poller")
        BY DEF SettleInv, OutcomeInv, Runs
    <2>2. reports[p] # {} => p \notin gaveUp
        BY DEF SettleInv, PollerInv
    <2> QED
        BY <2>1, <2>2
<1> QED
    BY <1>1, SettleInvariance, PTL

\* In polling mode a pair is given up only in the last of its MaxAttempts poll
\* intervals, however many cycles failed before (README.md:19-20).
THEOREM WindowIsKept == Spec => []GivesUpAfterWindow
<1>1. QueueInv /\ SettleInv => GivesUpAfterWindow
    BY DEF QueueInv, TypeOK, SettleInv, WindowInv, GivesUpAfterWindow
<1> QED
    BY <1>1, SettleInvariance, PTL

\* Without a store a pair is looked up at most pending_max_attempts times by
\* the poller, and once more at most by two coroutines (scraper.py:216-235).
THEOREM LookupsBounded == Spec => []AttemptsBounded
<1>1. SettleInv => AttemptsBounded
    BY DEF SettleInv, AttemptsInv, AttemptsBounded, Limit
<1> QED
    BY <1>1, SettleInvariance, PTL

-----------------------------------------------------------------------------
(* The queue implements the ledger of PairLedger.                          *)

\* A step that settles nothing is a Take of the ledger: a hand claims only what
\* is open after the step.
LEMMA TakeStep ==
    ASSUME QueueInv, QueueInv', NEW new \in SUBSET Pairs, new \cap seen = {},
           seen' = seen \cup new, pending' = pending \cup new, UNCHANGED outcome,
           \A v \in Workers : Held(v)' \subseteq Held(v) \cup pending'
    PROVE  Ledger!LedgerNext
<1> DEFINE claims == [v \in Workers |-> Held(v)]
<1>1. claims' \in [Workers -> SUBSET Pairs]
    BY DEF QueueInv, TypeOK, AllSeen
<1>2. \A v \in Workers : claims'[v] \subseteq claims[v] \cup pending'
    OBVIOUS
<1>3. Ledger!Take(new)
    BY <1>1, <1>2 DEF Ledger!Take
<1> QED
    BY <1>3 DEF Ledger!LedgerNext

\* The end of a pass settles claims of its coroutine, none for the second time.
LEMMA SettlesClaims ==
    ASSUME QueueInv, SettleInv, NEW w \in Workers,
           NEW hits \in SUBSET Pairs, NEW done \in SUBSET Pairs,
           Ends(w, hits, done), LastLookUp(w, hits, done)
    PROVE  Ledger!LedgerNext
<1> USE PairAssumption
<1> DEFINE claims == [v \in Workers |-> Held(v)]
           R == hits
           G == done \ hits
<1>1. TypeOK /\ PassInv /\ Awaiting /\ OutcomeInv
    BY DEF QueueInv, SettleInv
<1>2. hits \subseteq done /\ done \subseteq Held(w)
    BY <1>1 DEF Ends, Finds, GivesUp, Keeps, Held, PassInv, Awaiting
<1>3. R \cap G = {} /\ R \cup G = done /\ R \in SUBSET Pairs /\ G \in SUBSET Pairs
    BY <1>2
<1>4. \A p \in done : outcome[p][w] = "none"
    BY <1>1, <1>2 DEF OutcomeInv
<1>5. Held(w)' = {} /\ \A v \in Workers \ {w} : Held(v)' = Held(v)
    BY <1>1 DEF LastLookUp, Held, TypeOK
<1>6. claims' = [claims EXCEPT ![w] = {}]
    BY <1>5
<1>7. outcome' = [p \in Pairs |->
           IF p \in R THEN [outcome[p] EXCEPT ![w] = "reported"]
           ELSE IF p \in G THEN [outcome[p] EXCEPT ![w] = "given_up"]
           ELSE outcome[p]]
    <2> DEFINE told(p) == IF p \in done
                          THEN [outcome[p] EXCEPT ![w] = IF @ # "none" THEN "again"
                                    ELSE IF p \in hits THEN "reported" ELSE "given_up"]
                          ELSE outcome[p]
               meant(p) == IF p \in R THEN [outcome[p] EXCEPT ![w] = "reported"]
                           ELSE IF p \in G THEN [outcome[p] EXCEPT ![w] = "given_up"]
                           ELSE outcome[p]
    <2>1. outcome' = [p \in Pairs |-> told(p)]
        BY DEF LastLookUp, Settle
    <2>2. \A p \in Pairs : told(p) = meant(p)
        BY <1>2, <1>3, <1>4
    <2> HIDE DEF told, meant
    <2>3. outcome' = [p \in Pairs |-> meant(p)]
        BY <2>1, <2>2
    <2> QED
        BY <2>3 DEF meant
<1>8. pending' = pending \ (R \cup G) /\ UNCHANGED seen
    BY <1>3 DEF LastLookUp, Ends
<1>9. R \cup G \subseteq claims[w]
    BY <1>2, <1>3
<1>10. \A p \in R \cup G : outcome[p][w] = "none"
    BY <1>3, <1>4
<1>11. Ledger!SettleClaims(w, R, G)
    <2> HIDE DEF claims, R, G
    <2> QED
        BY <1>3, <1>6, <1>7, <1>8, <1>9, <1>10 DEF Ledger!SettleClaims, claims
<1> QED
    BY <1>3, <1>11 DEF Ledger!LedgerNext

\* Every kind of step maps to a step of the ledger, or to a stutter.
LEMMA LedgerStep ==
    ASSUME QueueInv, SettleInv, QueueInv', Kinds
    PROVE  Ledger!LedgerNext
<1> USE PairAssumption
<1>1. TypeOK /\ Awaiting
    BY DEF QueueInv
<1>2. ASSUME NEW w \in Workers, NEW new \in SUBSET Pairs, Starts(w, new)
      PROVE  Ledger!LedgerNext
    <2>1. /\ new \cap seen = {} /\ seen' = seen \cup new /\ pending' = pending \cup new
          /\ UNCHANGED outcome
        BY <1>2 DEF Starts
    <2>2. \A v \in Workers : Held(v)' \subseteq Held(v) \cup pending'
        <3>1. CASE UNCHANGED <<attempts, pc, work, current, found, resolved>>
            BY <3>1 DEF Held
        <3>2. ASSUME NEW p \in pending \cup new, p \in Pairs, FirstLookUp(w, p, pending \cup new)
              PROVE  \A v \in Workers : Held(v)' \subseteq Held(v) \cup pending'
            BY <1>1, <2>1, <3>2 DEF FirstLookUp, Held, TypeOK
        <3> QED
            BY <1>2, <3>1, <3>2, StartFacts
    <2> QED
        BY <2>1, <2>2, TakeStep
<1>3. ASSUME NEW w \in Workers, NEW new \in SUBSET Pairs, Leaves(w, new)
      PROVE  Ledger!LedgerNext
    <2>1. /\ new \cap seen = {} /\ seen' = seen \cup new /\ pending' = pending \cup new
          /\ UNCHANGED outcome
        BY <1>3 DEF Leaves
    <2>2. \A v \in Workers : Held(v)' \subseteq Held(v) \cup pending'
        BY <1>1, <1>3, LeaveFacts DEF Held, TypeOK
    <2> QED
        BY <2>1, <2>2, TakeStep
<1>4. ASSUME NEW w \in Workers, NEW hits \in SUBSET Pairs, NEW done \in SUBSET Pairs,
             Ends(w, hits, done)
      PROVE  Ledger!LedgerNext
    <2>1. ASSUME NEW q \in work[w], q \in Pairs, NextLookUp(w, q, hits, done)
          PROVE  Ledger!LedgerNext
        <3>1. pc[w] = "enriching" /\ done \subseteq resolved[w] \cup {current[w]}
            BY <1>4 DEF Ends, Finds, GivesUp, Keeps
        <3>2. \A v \in Workers : Held(v)' \subseteq Held(v) \cup pending'
            BY <1>1, <2>1, <3>1 DEF NextLookUp, Held, TypeOK, Awaiting
        <3>3. /\ {} \in SUBSET Pairs /\ {} \cap seen = {} /\ seen' = seen \cup {}
              /\ pending' = pending \cup {} /\ UNCHANGED outcome
            BY <1>4, <2>1 DEF Ends, NextLookUp
        <3> QED
            BY <3>2, <3>3, TakeStep
    <2> QED
        BY <1>4, <2>1, SettlesClaims, EndFacts
<1>5. CASE Idles
    <2>1. /\ {} \in SUBSET Pairs /\ {} \cap seen = {} /\ seen' = seen \cup {}
          /\ pending' = pending \cup {} /\ UNCHANGED outcome
        BY <1>5 DEF Idles
    <2>2. \A v \in Workers : Held(v)' \subseteq Held(v) \cup pending'
        BY <1>5 DEF Idles, Held
    <2> QED
        BY <2>1, <2>2, TakeStep
<1>6. CASE Restart
    <2>1. \A v \in Workers : Held(v)' = {}
        BY <1>6 DEF Restart, Held
    <2> QED
        BY <1>6, <2>1 DEF Ledger!LedgerNext, Ledger!Forget, Restart
<1> QED
    BY <1>2, <1>3, <1>4, <1>5, <1>6 DEF Kinds

\* Whatever is announced again, raised, cancelled or restarted, and however two
\* coroutines interleave, a pair is queued once, a coroutine settles only what
\* it took while it was queued, and no coroutine settles a pair twice. That two
\* coroutines may settle one pair stays visible in the ledger.
THEOREM LedgerImplemented == Spec => ImplementsLedger
<1>1. Init => Ledger!LedgerInit
    BY PairAssumption DEF Init, Ledger!LedgerInit, Held
<1>2. QueueInv /\ SettleInv /\ QueueInv' /\ [Next]_vars
        => [Ledger!LedgerNext]_(Ledger!ledgerVars)
    <2> SUFFICES ASSUME QueueInv, SettleInv, QueueInv', [Next]_vars
                 PROVE  Ledger!LedgerNext
        OBVIOUS
    <2>1. Kinds
        BY StepKinds DEF SettleInv
    <2> QED
        BY <2>1, LedgerStep
<1> QED
    BY <1>1, <1>2, SettleInvariance, PTL DEF Spec, ImplementsLedger, Ledger!LedgerSpec
=============================================================================
