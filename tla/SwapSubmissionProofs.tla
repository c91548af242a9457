------------------------ MODULE SwapSubmissionProofs ------------------------
(***************************************************************************)
(* What the shared pool keeps, for every number of callers, endpoints,     *)
(* tries and ticks, and what a confirmation is worth.                      *)
(***************************************************************************)
EXTENDS SwapSubmission, WellFoundedInduction, TLAPS

\* The endpoint a call is at: the first of its list.
LEMMA CurrentIsFirst ==
    ASSUME NEW c \in Callers, todo[c] \subseteq Endpoints, todo[c] # {}
    PROVE  Current(c) \in todo[c] /\ \A e \in todo[c] : Current(c) <= e
<1>1. todo[c] \subseteq Nat
    BY EndpointAssumption DEF Endpoints
<1>2. PICK x \in todo[c] : \A y \in todo[c] : ~(<<y, x>> \in OpToRel(<, Nat))
    BY <1>1, NatLessThanWellFounded, WFMin
<1>3. \A y \in todo[c] : x <= y
    <2> SUFFICES ASSUME NEW y \in todo[c] PROVE x <= y
        OBVIOUS
    <2>1. x \in Nat /\ y \in Nat
        BY <1>1
    <2>2. y < x => <<y, x>> \in OpToRel(<, Nat)
        BY <2>1 DEF OpToRel
    <2>3. ~(<<y, x>> \in OpToRel(<, Nat))
        BY <1>2
    <2>4. ~(y < x)
        BY <2>2, <2>3, Zenon
    <2> QED
        BY <2>1, <2>4
<1> QED
    BY <1>2, <1>3 DEF Current, Min

LEMMA AvailableSome == AvailableStates \subseteq Endpoints /\ AvailableStates # {}
<1>1. 1 \in Endpoints
    BY EndpointAssumption DEF Endpoints
<1> QED
    BY <1>1 DEF AvailableStates

\* A step changes what it says of one call only, and of one endpoint only.
LEMMA OtherCallsKeep ==
    ASSUME NEW c \in Callers, NEW b \in Callers, CallOK(b),
           pc'[b] = pc[b], todo'[b] = todo[b], result'[b] = result[b],
           tried'[b] = tried[b], skipped'[b] = skipped[b]
    PROVE  CallOK(b)'
BY DEF CallOK, Endpoints

LEMMA PoolInitial == PoolInit => PoolInv
<1> SUFFICES ASSUME PoolInit PROVE PoolInv
    OBVIOUS
<1>1. PoolTypeOK
    BY EndpointAssumption, PoolAssumption, TimeAssumption DEF PoolInit, PoolTypeOK
<1>2. \A c \in Callers : CallOK(c)
    BY DEF PoolInit, CallOK
<1>3. \A e \in Endpoints : BreakerOK(e)
    BY PoolAssumption DEF PoolInit, BreakerOK
<1> QED
    BY <1>1, <1>2, <1>3 DEF PoolInv

-----------------------------------------------------------------------------
\* What an answer does to a breaker.
LEMMA SuccessKeeps ==
    ASSUME PoolInv, NEW x \in Endpoints, RecordSuccess(x), clock' = clock
    PROVE  /\ failures' \in [Endpoints -> 0..DisableAfter]
           /\ lastFailure' \in [Endpoints -> 0..MaxTime + 1]
           /\ disabledUntil' \in [Endpoints -> 0..(MaxTime + DisableTicks + 1)]
           /\ \A e \in Endpoints : BreakerOK(e)'
<1>1. 0 \in 0..DisableAfter /\ 0 \in 0..MaxTime + 1 /\ 0 \in 0..(MaxTime + DisableTicks + 1)
    BY PoolAssumption, TimeAssumption
<1>2. /\ failures' \in [Endpoints -> 0..DisableAfter]
      /\ lastFailure' \in [Endpoints -> 0..MaxTime + 1]
      /\ disabledUntil' \in [Endpoints -> 0..(MaxTime + DisableTicks + 1)]
    BY <1>1 DEF PoolInv, PoolTypeOK, RecordSuccess
<1>3. ASSUME NEW e \in Endpoints PROVE BreakerOK(e)'
    <2>1. clock \in Nat /\ BreakerOK(e)
        BY TimeAssumption DEF PoolInv, PoolTypeOK
    <2>2. CASE e = x
        <3>1. lastFailure'[e] = 0 /\ disabledUntil'[e] = 0 /\ failures'[e] = 0
            BY <2>2 DEF PoolInv, PoolTypeOK, RecordSuccess
        <3> QED
            BY <2>1, <3>1, PoolAssumption DEF BreakerOK
    <2>3. CASE e # x
        <3>1. /\ lastFailure'[e] = lastFailure[e] /\ disabledUntil'[e] = disabledUntil[e]
              /\ failures'[e] = failures[e]
            BY <2>3 DEF PoolInv, PoolTypeOK, RecordSuccess
        <3> QED
            BY <2>1, <3>1 DEF BreakerOK
    <2> QED
        BY <2>2, <2>3
<1> QED
    BY <1>2, <1>3

LEMMA FailureKeeps ==
    ASSUME PoolInv, NEW x \in Endpoints, RecordFailure(x), clock' = clock
    PROVE  /\ failures' \in [Endpoints -> 0..DisableAfter]
           /\ lastFailure' \in [Endpoints -> 0..MaxTime + 1]
           /\ disabledUntil' \in [Endpoints -> 0..(MaxTime + DisableTicks + 1)]
           /\ \A e \in Endpoints : BreakerOK(e)'
<1>1. /\ clock \in 1..(MaxTime + 1) /\ MaxTime \in Nat
      /\ DisableTicks \in Nat \ {0} /\ DisableAfter \in Nat \ {0}
      /\ failures \in [Endpoints -> 0..DisableAfter]
      /\ lastFailure \in [Endpoints -> 0..MaxTime + 1]
      /\ disabledUntil \in [Endpoints -> 0..(MaxTime + DisableTicks + 1)]
    BY PoolAssumption, TimeAssumption DEF PoolInv, PoolTypeOK
<1>2. clock \in 0..MaxTime + 1 /\ clock + DisableTicks \in 0..(MaxTime + DisableTicks + 1)
    BY <1>1
<1>3. failures' \in [Endpoints -> 0..DisableAfter]
    BY <1>1 DEF RecordFailure
<1>4. lastFailure' \in [Endpoints -> 0..MaxTime + 1]
    BY <1>1, <1>2 DEF RecordFailure
<1>5. disabledUntil' \in [Endpoints -> 0..(MaxTime + DisableTicks + 1)]
    BY <1>1, <1>2 DEF RecordFailure
<1>6. ASSUME NEW e \in Endpoints PROVE BreakerOK(e)'
    <2>1. /\ BreakerOK(e) /\ lastFailure[e] \in Nat /\ disabledUntil[e] \in Nat
          /\ failures[e] \in 0..DisableAfter
        BY <1>1 DEF PoolInv
    <2>2. CASE e = x
        <3>1. lastFailure'[e] = clock
            BY <1>1, <2>2 DEF RecordFailure
        <3>2. \/ failures[e] + 1 >= DisableAfter /\ disabledUntil'[e] = clock + DisableTicks
              \/ failures[e] + 1 < DisableAfter /\ disabledUntil'[e] = disabledUntil[e]
            BY <1>1, <2>1, <2>2 DEF RecordFailure
        <3>3. failures[e] + 1 < DisableAfter => failures'[e] # DisableAfter
            BY <1>1, <2>1, <2>2 DEF RecordFailure
        <3> QED
            BY <1>1, <2>1, <3>1, <3>2, <3>3 DEF BreakerOK
    <2>3. CASE e # x
        <3>1. /\ lastFailure'[e] = lastFailure[e] /\ disabledUntil'[e] = disabledUntil[e]
              /\ failures'[e] = failures[e]
            BY <1>1, <2>3 DEF RecordFailure
        <3> QED
            BY <2>1, <3>1 DEF BreakerOK
    <2> QED
        BY <2>2, <2>3
<1> QED
    BY <1>3, <1>4, <1>5, <1>6

-----------------------------------------------------------------------------
\* A call begins with the endpoints that are available, or with all of them.
LEMMA BeginKeeps == ASSUME PoolInv, NEW c \in Callers, Begin(c) PROVE PoolInv'
<1>1. /\ GoOn(c, AvailableStates, 0) /\ AvailableStates \subseteq Endpoints
      /\ AvailableStates # {} /\ 0 \in 0..(MaxRetries - 1)
      /\ clock' = clock /\ UNCHANGED endpointVars
      /\ tried' = [tried EXCEPT ![c] = {}]
      /\ skipped' = [skipped EXCEPT ![c] = Endpoints \ AvailableStates]
    BY AvailableSome, PoolAssumption DEF Begin
<1> DEFINE A == AvailableStates
<1>2. /\ todo' = [todo EXCEPT ![c] = A] /\ try' = [try EXCEPT ![c] = 0]
      /\ pc' = [pc EXCEPT ![c] = "trying"] /\ result' = [result EXCEPT ![c] = "none"]
    BY <1>1 DEF GoOn
<1>3. /\ A \subseteq Endpoints /\ A # {}
      /\ skipped' = [skipped EXCEPT ![c] = Endpoints \ A]
    BY <1>1
<1> HIDE DEF A
<1>4. PoolTypeOK'
    BY <1>1, <1>2, <1>3 DEF PoolInv, PoolTypeOK, endpointVars, Endpoints
<1>5. ASSUME NEW b \in Callers PROVE CallOK(b)'
    <2>1. CASE b = c
        BY <1>1, <1>2, <1>3, <2>1 DEF PoolInv, PoolTypeOK, CallOK, Endpoints
    <2>2. CASE b # c
        BY <1>1, <1>2, <2>2, OtherCallsKeep DEF PoolInv, PoolTypeOK
    <2> QED
        BY <2>1, <2>2
<1>6. ASSUME NEW e \in Endpoints PROVE BreakerOK(e)'
    BY <1>1 DEF PoolInv, BreakerOK, endpointVars
<1> QED
    BY <1>4, <1>5, <1>6 DEF PoolInv, Endpoints

LEMMA AnswersKeeps == ASSUME PoolInv, NEW c \in Callers, Answers(c) PROVE PoolInv'
<1>1. /\ pc[c] = "trying" /\ todo[c] \subseteq Endpoints /\ todo[c] # {}
      /\ pc' = [pc EXCEPT ![c] = "idle"] /\ result' = [result EXCEPT ![c] = "returned"]
      /\ clock' = clock /\ todo' = todo /\ try' = try /\ tried' = tried /\ skipped' = skipped
      /\ RecordSuccess(Current(c))
    BY DEF Answers, PoolInv, PoolTypeOK, CallOK
<1>2. Current(c) \in Endpoints
    BY <1>1, CurrentIsFirst
<1>3. /\ failures' \in [Endpoints -> 0..DisableAfter]
      /\ lastFailure' \in [Endpoints -> 0..MaxTime + 1]
      /\ disabledUntil' \in [Endpoints -> 0..(MaxTime + DisableTicks + 1)]
      /\ \A e \in Endpoints : BreakerOK(e)'
    BY <1>1, <1>2, SuccessKeeps
<1>4. PoolTypeOK'
    BY <1>1, <1>3 DEF PoolInv, PoolTypeOK, Endpoints
<1>5. ASSUME NEW b \in Callers PROVE CallOK(b)'
    <2>1. CASE b = c
        BY <1>1, <2>1 DEF PoolInv, PoolTypeOK, CallOK
    <2>2. CASE b # c
        BY <1>1, <2>2, OtherCallsKeep DEF PoolInv, PoolTypeOK
    <2> QED
        BY <2>1, <2>2
<1> QED
    BY <1>3, <1>4, <1>5 DEF PoolInv, Endpoints

\* What every failing try has in common: the endpoint it failed at is tried,
\* whatever is left of the list.
LEMMA FailedKeeps ==
    ASSUME PoolInv, NEW c \in Callers, Failed(c),
           NEW rest \in {todo[c], todo[c] \ {Current(c)}},
           NEW place \in {"idle", "trying", "backoff"}, NEW end \in {"none", "raised"},
           place = "idle" <=> end = "raised",
           place = "trying" => rest # {}, end = "raised" => rest = {},
           todo' = [todo EXCEPT ![c] = rest],
           pc' = [pc EXCEPT ![c] = place],
           result' = [result EXCEPT ![c] = end],
           try' \in [Callers -> 0..(MaxRetries - 1)]
    PROVE  PoolInv'
<1>1. /\ pc[c] = "trying" /\ todo[c] \subseteq Endpoints /\ todo[c] # {}
      /\ tried[c] \cup skipped[c] \cup todo[c] = Endpoints /\ skipped[c] # Endpoints
      /\ RecordFailure(Current(c)) /\ clock' = clock /\ skipped' = skipped
      /\ tried' = [tried EXCEPT ![c] = @ \cup {Current(c)}]
    BY DEF Failed, PoolInv, PoolTypeOK, CallOK
<1>2. Current(c) \in todo[c] /\ Current(c) \in Endpoints
    BY <1>1, CurrentIsFirst
<1>3. /\ failures' \in [Endpoints -> 0..DisableAfter]
      /\ lastFailure' \in [Endpoints -> 0..MaxTime + 1]
      /\ disabledUntil' \in [Endpoints -> 0..(MaxTime + DisableTicks + 1)]
      /\ \A e \in Endpoints : BreakerOK(e)'
    BY <1>1, <1>2, FailureKeeps
<1>4. PICK x \in Endpoints : x = Current(c)
    BY <1>2
<1>5. rest \subseteq Endpoints /\ rest \in {todo[c], todo[c] \ {x}}
      /\ tried' = [tried EXCEPT ![c] = @ \cup {x}] /\ x \in todo[c]
    BY <1>1, <1>2, <1>4
<1>6. PoolTypeOK'
    <2>1. /\ pc' \in [Callers -> {"idle", "trying", "backoff"}]
          /\ result' \in [Callers -> {"none", "returned", "raised"}]
        BY DEF PoolInv, PoolTypeOK
    <2>2. todo' \in [Callers -> SUBSET Endpoints] /\ tried' \in [Callers -> SUBSET Endpoints]
        BY <1>5 DEF PoolInv, PoolTypeOK
    <2> QED
        BY <1>1, <1>3, <2>1, <2>2 DEF PoolInv, PoolTypeOK, Endpoints
<1>7. ASSUME NEW b \in Callers PROVE CallOK(b)'
    <2>1. CASE b = c
        <3>1. /\ pc'[b] = place /\ result'[b] = end /\ todo'[b] = rest
              /\ tried'[b] = tried[c] \cup {x} /\ skipped'[b] = skipped[c]
            BY <1>1, <1>5, <2>1 DEF PoolInv, PoolTypeOK
        <3>2. tried'[b] \cup skipped'[b] \cup todo'[b] = Endpoints
            BY <1>1, <1>5, <3>1
        <3> QED
            BY <1>1, <3>1, <3>2 DEF CallOK, Endpoints
    <2>2. CASE b # c
        BY <1>1, <2>2, OtherCallsKeep DEF PoolInv, PoolTypeOK
    <2> QED
        BY <2>1, <2>2
<1> QED
    BY <1>3, <1>6, <1>7 DEF PoolInv, Endpoints

LEMMA BackOffStep ==
    ASSUME PoolInv, NEW c \in Callers, Failed(c), BackOff(c), UNCHANGED result
    PROVE  PoolInv'
<1>1. pc[c] = "trying" /\ result[c] = "none" /\ result \in [Callers -> {"none", "returned", "raised"}]
    BY DEF Failed, PoolInv, PoolTypeOK, CallOK
<1>2. result' = [result EXCEPT ![c] = "none"]
    BY <1>1
<1>3. pc' = [pc EXCEPT ![c] = "backoff"]
    BY DEF BackOff
<1>4. try \in [Callers -> 0..(MaxRetries - 1)] /\ todo \in [Callers -> SUBSET Endpoints]
    BY DEF PoolInv, PoolTypeOK
<1>5. try[c] \in 0..(MaxRetries - 1) /\ MaxRetries \in Nat \ {0}
    BY <1>4, PoolAssumption
<1>6. CASE try[c] + 1 < MaxRetries
    <2>1. try' = [try EXCEPT ![c] = @ + 1] /\ todo' = [todo EXCEPT ![c] = todo[c]]
        BY <1>4, <1>6 DEF BackOff
    <2>2. try' \in [Callers -> 0..(MaxRetries - 1)]
        BY <1>4, <1>5, <1>6, <2>1
    <2> QED
        BY <1>2, <1>3, <2>1, <2>2, FailedKeeps
<1>7. CASE ~(try[c] + 1 < MaxRetries)
    <2>1. try' = [try EXCEPT ![c] = 0] /\ todo' = [todo EXCEPT ![c] = todo[c] \ {Current(c)}]
        BY <1>7 DEF BackOff
    <2>2. try' \in [Callers -> 0..(MaxRetries - 1)]
        BY <1>4, <1>5, <2>1
    <2> QED
        BY <1>2, <1>3, <2>1, <2>2, FailedKeeps
<1> QED
    BY <1>6, <1>7

LEMMA RaisesKeeps == ASSUME PoolInv, NEW c \in Callers, Raises(c) PROVE PoolInv'
<1>1. CASE try[c] = 0
    BY <1>1, BackOffStep DEF Raises
<1>2. CASE try[c] # 0
    <2>1. Failed(c) /\ GoOn(c, todo[c] \ {Current(c)}, 0)
        BY <1>2 DEF Raises
    <2>2. PICK rest \in {todo[c], todo[c] \ {Current(c)}} : rest = todo[c] \ {Current(c)}
        OBVIOUS
    <2>3. GoOn(c, rest, 0)
        BY <2>1, <2>2
    <2>4. todo' = [todo EXCEPT ![c] = rest] /\ try' = [try EXCEPT ![c] = 0]
        BY <2>3 DEF GoOn
    <2>5. try' \in [Callers -> 0..(MaxRetries - 1)]
        BY <2>4, PoolAssumption DEF PoolInv, PoolTypeOK
    <2>6. CASE rest = {}
        <3>1. pc' = [pc EXCEPT ![c] = "idle"] /\ result' = [result EXCEPT ![c] = "raised"]
            BY <2>3, <2>6 DEF GoOn
        <3> QED
            BY <2>1, <2>4, <2>5, <2>6, <3>1, FailedKeeps
    <2>7. CASE rest # {}
        <3>1. pc' = [pc EXCEPT ![c] = "trying"] /\ result' = [result EXCEPT ![c] = "none"]
            BY <2>3, <2>7 DEF GoOn
        <3> QED
            BY <2>1, <2>4, <2>5, <2>7, <3>1, FailedKeeps
    <2> QED
        BY <2>6, <2>7
<1> QED
    BY <1>1, <1>2

\* The call wakes: it goes on with its list, or raises if that is empty.
LEMMA ResumeKeeps == ASSUME PoolInv, NEW c \in Callers, Resume(c) PROVE PoolInv'
<1>1. /\ pc[c] = "backoff" /\ GoOn(c, todo[c], try[c])
      /\ clock' = clock /\ tried' = tried /\ skipped' = skipped
      /\ failures' = failures /\ lastFailure' = lastFailure /\ disabledUntil' = disabledUntil
    BY DEF Resume, endpointVars
<1>2. todo \in [Callers -> SUBSET Endpoints] /\ try \in [Callers -> 0..(MaxRetries - 1)]
    BY DEF PoolInv, PoolTypeOK
<1>3. todo' = todo /\ try' = try
    BY <1>1, <1>2 DEF GoOn
<1>4. \/ /\ todo[c] = {} /\ pc' = [pc EXCEPT ![c] = "idle"]
         /\ result' = [result EXCEPT ![c] = "raised"]
      \/ /\ todo[c] # {} /\ pc' = [pc EXCEPT ![c] = "trying"]
         /\ result' = [result EXCEPT ![c] = "none"]
    BY <1>1 DEF GoOn
<1>5. PoolTypeOK'
    BY <1>1, <1>3, <1>4 DEF PoolInv, PoolTypeOK, Endpoints
<1>6. ASSUME NEW b \in Callers PROVE CallOK(b)'
    <2>1. CASE b = c
        BY <1>1, <1>3, <1>4, <2>1 DEF PoolInv, PoolTypeOK, CallOK, Endpoints
    <2>2. CASE b # c
        BY <1>1, <1>3, <1>4, <2>2, OtherCallsKeep DEF PoolInv, PoolTypeOK
    <2> QED
        BY <2>1, <2>2
<1>7. ASSUME NEW e \in Endpoints PROVE BreakerOK(e)'
    BY <1>1 DEF PoolInv, BreakerOK
<1> QED
    BY <1>5, <1>6, <1>7 DEF PoolInv, Endpoints

LEMMA TickKeeps == ASSUME PoolInv, Tick PROVE PoolInv'
<1>1. /\ clock < MaxTime /\ clock' = clock + 1 /\ clock \in 1..(MaxTime + 1) /\ MaxTime \in Nat
      /\ UNCHANGED <<failures, lastFailure, disabledUntil, pc, todo, try, result, tried, skipped>>
    BY TimeAssumption DEF Tick, endpointVars, callVars, PoolInv, PoolTypeOK
<1>2. PoolTypeOK'
    BY <1>1 DEF PoolInv, PoolTypeOK, Endpoints
<1>3. \A c \in Callers : CallOK(c)'
    BY <1>1 DEF PoolInv, CallOK, Endpoints
<1>4. ASSUME NEW e \in Endpoints PROVE BreakerOK(e)'
    <2>1. lastFailure[e] \in Nat
        BY <1>1 DEF PoolInv, PoolTypeOK
    <2> QED
        BY <1>1, <2>1 DEF PoolInv, BreakerOK
<1> QED
    BY <1>2, <1>3, <1>4 DEF PoolInv, Endpoints

-----------------------------------------------------------------------------
\* Whatever the trader and the readers do, they do to the pool by its actions.
PoolStep ==
    \/ Tick
    \/ \E c \in Callers : Begin(c) \/ Answers(c) \/ RateLimited(c) \/ Raises(c) \/ Resume(c)

LEMMA EveryStepIsThePools == [Next]_vars => PoolStep \/ UNCHANGED poolVars
<1>1. (Send \/ Wait \/ Accepted \/ Rejected \/ ReceiptArrives \/ TimesOut \/ WaitFails
         \/ TraderResumes) => PoolStep
    BY TraderAssumption
    DEF Send, Wait, Accepted, Rejected, ReceiptArrives, TimesOut, WaitFails, TraderResumes,
        PoolStep
<1>2. Decide => UNCHANGED poolVars
    BY DEF Decide
<1>3. ASSUME NEW c \in Readers, Begin(c) \/ Read(c) PROVE PoolStep
    BY <1>3 DEF Readers, Read, PoolStep
<1> QED
    BY <1>1, <1>2, <1>3 DEF Next, Trade, vars, PoolStep

LEMMA PoolStepKeeps == ASSUME PoolInv, PoolStep \/ UNCHANGED poolVars PROVE PoolInv'
<1>1. CASE Tick
    BY <1>1, TickKeeps
<1>2. ASSUME NEW c \in Callers, Begin(c) \/ Answers(c) \/ RateLimited(c) \/ Raises(c) \/ Resume(c)
      PROVE  PoolInv'
    <2>1. CASE RateLimited(c)
        BY <2>1, BackOffStep DEF RateLimited
    <2> QED
        BY <1>2, <2>1, BeginKeeps, AnswersKeeps, RaisesKeeps, ResumeKeeps
<1>3. CASE UNCHANGED poolVars
    <2>1. UNCHANGED <<clock, failures, lastFailure, disabledUntil, pc, todo, try, result, tried, skipped>>
        BY <1>3 DEF poolVars, endpointVars, callVars
    <2> QED
        BY <2>1 DEF PoolInv, PoolTypeOK, CallOK, BreakerOK, Endpoints
<1> QED
    BY <1>1, <1>2, <1>3 DEF PoolStep

LEMMA PoolInvariant == Spec => []PoolInv
<1>1. Init => PoolInv
    BY PoolInitial DEF Init
<1>2. PoolInv /\ [Next]_vars => PoolInv'
    BY EveryStepIsThePools, PoolStepKeeps
<1> QED
    BY <1>1, <1>2, PTL DEF Spec

-----------------------------------------------------------------------------
\* A call raises ChainConnectionError (rpc_pool.py:121) only after it has tried
\* something, and has tried or was told to skip every endpoint.
THEOREM RaisesWhenExhausted == Spec => []RaisedMeansExhausted
<1>1. PoolInv => RaisedMeansExhausted
    BY DEF PoolInv, PoolTypeOK, CallOK, RaisedMeansExhausted
<1> QED
    BY <1>1, PoolInvariant, PTL

\* Endpoints are used in the order of their priority (rpc_pool.py:94), whatever
\* the calls beside it make of the breakers.
THEOREM PriorityKept == Spec => []PriorityRespected
<1>1. PoolInv => PriorityRespected
    <2> SUFFICES ASSUME PoolInv, NEW c \in Callers, pc[c] = "trying",
                        NEW e \in 1..(Current(c) - 1)
                 PROVE  e \in tried[c] \cup skipped[c]
        BY DEF PriorityRespected
    <2>1. /\ todo[c] \subseteq Endpoints /\ todo[c] # {}
          /\ tried[c] \cup skipped[c] \cup todo[c] = Endpoints
        BY DEF PoolInv, PoolTypeOK, CallOK
    <2>2. Current(c) \in Endpoints /\ \A x \in todo[c] : Current(c) <= x
        BY <2>1, CurrentIsFirst
    <2>3. e \in Endpoints /\ e \notin todo[c]
        BY <2>1, <2>2, EndpointAssumption DEF Endpoints
    <2> QED
        BY <2>1, <2>3
<1> QED
    BY <1>1, PoolInvariant, PTL

\* A breaker is open only while its endpoint's last answer is a recent failure
\* (rpc_pool.py:134): no answer is overridden by what failed before it.
THEOREM BreakersJustified == Spec => []OpenOnlyWhileFailing
<1>1. PoolInv => OpenOnlyWhileFailing
    <2> SUFFICES ASSUME PoolInv, NEW e \in Endpoints, ~IsAvailable(e)
                 PROVE  lastFailure[e] # 0 /\ clock < lastFailure[e] + DisableTicks
        BY DEF OpenOnlyWhileFailing
    <2>1. /\ clock \in Nat \ {0} /\ disabledUntil[e] \in Nat /\ lastFailure[e] \in Nat
          /\ BreakerOK(e)
        BY TimeAssumption, PoolAssumption DEF PoolInv, PoolTypeOK
    <2>2. clock < disabledUntil[e]
        BY <2>1 DEF IsAvailable
    <2> QED
        BY <2>1, <2>2, PoolAssumption DEF BreakerOK
<1> QED
    BY <1>1, PoolInvariant, PTL

\* An endpoint that fails again and again is disabled until its time is over
\* (rpc_pool.py:77-82), whichever calls its failures belong to.
THEOREM FailingIsDisabled == Spec => []DisabledAfterFailures
<1>1. PoolInv => DisabledAfterFailures
    <2> SUFFICES ASSUME PoolInv, NEW e \in Endpoints, failures[e] = DisableAfter,
                        clock < lastFailure[e] + DisableTicks
                 PROVE  ~IsAvailable(e)
        BY DEF DisabledAfterFailures
    <2>1. /\ clock \in Nat /\ disabledUntil[e] \in Nat
          /\ disabledUntil[e] = lastFailure[e] + DisableTicks
        BY TimeAssumption, PoolAssumption DEF PoolInv, PoolTypeOK, BreakerOK
    <2> QED
        BY <2>1 DEF IsAvailable
<1> QED
    BY <1>1, PoolInvariant, PTL

\* Every variable of the trader and of the pool has its type.
THEOREM SwapTypeCorrect == Spec => []TypeOK
<1> DEFINE TraderOK == /\ tx \in {"none", "pending", "confirmed", "reverted", "dropped"}
                       /\ phase \in {"ready", "sending", "sent", "unsent", "waiting"}
                       /\ outcome \in {"none", "pending", "confirmed", "connection_error"}
<1>1. Init => TraderOK
    BY DEF Init
<1>2. TraderOK /\ [Next]_vars => TraderOK'
    <2> SUFFICES ASSUME TraderOK, [Next]_vars PROVE TraderOK'
        OBVIOUS
    <2>1. CASE Send \/ Wait \/ Decide \/ TimesOut
        BY <2>1 DEF Send, Wait, Decide, TimesOut
    <2>2. CASE Accepted \/ Rejected
        BY <2>2 DEF Accepted, Rejected, Ends
    <2>3. CASE ReceiptArrives \/ WaitFails
        BY <2>3 DEF ReceiptArrives, WaitFails, Ends
    <2>4. CASE TraderResumes
        BY <2>4 DEF TraderResumes, Ends
    <2>5. CASE UNCHANGED swapVars
        BY <2>5 DEF swapVars
    <2> QED
        BY <2>1, <2>2, <2>3, <2>4, <2>5 DEF Next, Trade, Read, vars
<1>3. PoolInv /\ TraderOK => TypeOK
    BY DEF PoolInv, TypeOK
<1> QED
    BY <1>1, <1>2, <1>3, PoolInvariant, PTL DEF Spec

-----------------------------------------------------------------------------
\* A step of a call takes it on, and no other call anywhere.
LEMMA CallMovesOn ==
    ASSUME PoolInv, NEW c \in Callers,
           Begin(c) \/ Answers(c) \/ RateLimited(c) \/ Raises(c) \/ Resume(c)
    PROVE  MovesOn(c) /\ \A b \in Callers \ {c} : StandsStill(b)
<1>0. /\ pc \in [Callers -> {"idle", "trying", "backoff"}]
      /\ todo \in [Callers -> SUBSET Endpoints]
      /\ try \in [Callers -> 0..(MaxRetries - 1)] /\ try[c] \in Nat
    BY PoolAssumption DEF PoolInv, PoolTypeOK
<1>1. ASSUME pc[c] = "trying"
      PROVE  todo[c] \ {Current(c)} \subseteq todo[c] /\ todo[c] \ {Current(c)} # todo[c]
    BY <1>0, <1>1, CurrentIsFirst DEF PoolInv, CallOK
<1>2. ASSUME NEW rest, NEW n, GoOn(c, rest, n)
      PROVE  /\ pc'[c] = IF rest = {} THEN "idle" ELSE "trying"
             /\ todo'[c] = rest /\ try'[c] = n
             /\ \A b \in Callers \ {c} : StandsStill(b)
    BY <1>0, <1>2 DEF GoOn, StandsStill
<1>3. CASE Begin(c)
    <2>1. pc[c] = "idle" /\ GoOn(c, AvailableStates, 0)
        BY <1>3 DEF Begin
    <2> QED
        BY <1>2, <2>1 DEF MovesOn
<1>4. CASE Answers(c)
    BY <1>0, <1>4 DEF Answers, MovesOn, StandsStill
<1>5. ASSUME pc[c] = "trying", BackOff(c)
      PROVE  MovesOn(c) /\ \A b \in Callers \ {c} : StandsStill(b)
    <2>1. \A b \in Callers \ {c} : StandsStill(b)
        BY <1>0, <1>5 DEF BackOff, StandsStill
    <2>2. CASE try[c] + 1 < MaxRetries
        BY <1>0, <1>5, <2>1, <2>2 DEF BackOff, MovesOn
    <2>3. CASE ~(try[c] + 1 < MaxRetries)
        <3>1. todo'[c] = todo[c] \ {Current(c)}
            BY <1>0, <1>5, <2>3 DEF BackOff
        <3> QED
            BY <1>1, <1>5, <2>1, <3>1 DEF MovesOn
    <2> QED
        BY <2>1, <2>2, <2>3
<1>6. CASE RateLimited(c)
    BY <1>5, <1>6 DEF RateLimited, Failed
<1>7. CASE Raises(c)
    <2>1. pc[c] = "trying" /\ (BackOff(c) \/ GoOn(c, todo[c] \ {Current(c)}, 0))
        BY <1>7 DEF Raises, Failed
    <2>2. CASE BackOff(c)
        BY <1>5, <2>1, <2>2
    <2>3. CASE GoOn(c, todo[c] \ {Current(c)}, 0)
        <3>1. /\ todo'[c] = todo[c] \ {Current(c)}
              /\ \A b \in Callers \ {c} : StandsStill(b)
            BY <1>2, <2>3
        <3> QED
            BY <1>1, <2>1, <3>1 DEF MovesOn
    <2> QED
        BY <2>1, <2>2, <2>3
<1>8. CASE Resume(c)
    <2>1. pc[c] = "backoff" /\ GoOn(c, todo[c], try[c])
        BY <1>8 DEF Resume
    <2> QED
        BY <1>2, <2>1 DEF MovesOn
<1> QED
    BY <1>3, <1>4, <1>6, <1>7, <1>8

\* A call makes a bounded number of attempts, MaxRetries at each endpoint of its
\* list and none twice, however the other calls change the breakers while it
\* sleeps (rpc_pool.py:84-121): what a step does to a call never goes back.
THEOREM CallsMoveOn == Spec => OneCallMoves
<1>1. PoolInv /\ [Next]_vars =>
        [clock' = clock =>
            \E c \in Callers : MovesOn(c) /\ \A b \in Callers \ {c} : StandsStill(b)]_poolVars
    <2> SUFFICES ASSUME PoolInv, [Next]_vars, ~(UNCHANGED poolVars), clock' = clock
                 PROVE  \E c \in Callers : MovesOn(c) /\ \A b \in Callers \ {c} : StandsStill(b)
        OBVIOUS
    <2>1. PoolStep
        BY EveryStepIsThePools
    <2>2. ~Tick
        BY DEF Tick, PoolInv, PoolTypeOK
    <2>3. PICK c \in Callers :
            Begin(c) \/ Answers(c) \/ RateLimited(c) \/ Raises(c) \/ Resume(c)
        BY <2>1, <2>2 DEF PoolStep
    <2> QED
        BY <2>3, CallMovesOn
<1> QED
    BY <1>1, PoolInvariant, PTL DEF Spec, OneCallMoves
=============================================================================
