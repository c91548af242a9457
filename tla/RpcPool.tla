------------------------------- MODULE RpcPool -------------------------------
(***************************************************************************)
(* The pool of RPC endpoints of utils/rpc_pool.py, shared by every call of *)
(* an adapter: calls in priority order, retries, failover to the next      *)
(* endpoint, and a circuit breaker per endpoint.                           *)
(*                                                                         *)
(* Several coroutines are inside call() at once. Each works on the list of *)
(* endpoints it found available when it began, while all of them write the *)
(* same endpoint states. A call is suspended in fn and in its backoffs;    *)
(* what it records after fn is one step with the answer.                   *)
(***************************************************************************)
EXTENDS Integers, FiniteSets, FiniteSetsExt

CONSTANTS
    Callers,        \* coroutines that use the pool
    NumEndpoints,   \* endpoints, numbered by priority
    MaxRetries,     \* max_retries_per_call
    DisableAfter,   \* disable_after_failures
    DisableTicks,   \* disable_duration_seconds, in ticks
    MaxTime         \* bound: ticks of the clock

ASSUME EndpointAssumption == NumEndpoints \in Nat \ {0}
ASSUME PoolAssumption ==
    MaxRetries \in Nat \ {0} /\ DisableAfter \in Nat \ {0} /\ DisableTicks \in Nat \ {0}
ASSUME TimeAssumption == MaxTime \in Nat

Endpoints == 1..NumEndpoints
NoEndpoint == 0

VARIABLES
    clock,          \* time.time()
    failures,       \* consecutive_failures, counted up to DisableAfter
    lastFailure,    \* last_failure_at
    disabledUntil,  \* disabled_until, 0 for None
    pc,             \* where each call is suspended
    todo,           \* endpoints of its list it has not done with
    try             \* local_try

VARIABLES           \* history, per call
    result,         \* how the last call of a coroutine ended
    tried,          \* endpoints that failed it
    skipped         \* endpoints that were not on its list

endpointVars == <<failures, lastFailure, disabledUntil>>
callVars == <<pc, todo, try, result, tried, skipped>>
poolVars == <<clock, endpointVars, callVars>>

PoolInit ==
    /\ clock = 1
    /\ failures = [e \in Endpoints |-> 0]
    /\ lastFailure = [e \in Endpoints |-> 0]
    /\ disabledUntil = [e \in Endpoints |-> 0]
    /\ pc = [c \in Callers |-> "idle"]
    /\ todo = [c \in Callers |-> {}]
    /\ try = [c \in Callers |-> 0]
    /\ result = [c \in Callers |-> "none"]
    /\ tried = [c \in Callers |-> {}]
    /\ skipped = [c \in Callers |-> {}]

-----------------------------------------------------------------------------
IsAvailable(e) == clock >= disabledUntil[e]

\* Mutant of AvailableStates: no fallback to the full list.
AvailableOnly == {e \in Endpoints : IsAvailable(e)}

\* With every endpoint disabled the full list is used.
AvailableStates ==
    LET available == {e \in Endpoints : IsAvailable(e)}
    IN  IF available = {} THEN Endpoints ELSE available

\* Mutant of Current: the last of the list.
CurrentLast(c) == Max(todo[c])

\* The endpoint a call is at: its list is in the order of priority.
Current(c) == Min(todo[c])

\* Mutant of RecordSuccess: the breaker stays as it is.
RecordSuccessCount(e) ==
    /\ failures' = [failures EXCEPT ![e] = 0]
    /\ lastFailure' = [lastFailure EXCEPT ![e] = 0]
    /\ UNCHANGED disabledUntil

\* _record_success. (The code does not reset last_failure_at, which nobody
\* reads; here 0 says that the last answer was not a failure.)
RecordSuccess(e) ==
    /\ failures' = [failures EXCEPT ![e] = 0]
    /\ lastFailure' = [lastFailure EXCEPT ![e] = 0]
    /\ disabledUntil' = [disabledUntil EXCEPT ![e] = 0]

\* Mutant of RecordFailure: the endpoint is disabled in the past.
RecordFailureBackwards(e) ==
    /\ failures' = [failures EXCEPT ![e] = IF @ < DisableAfter THEN @ + 1 ELSE @]
    /\ lastFailure' = [lastFailure EXCEPT ![e] = clock]
    /\ disabledUntil' = [disabledUntil EXCEPT ![e] =
                            IF failures[e] + 1 >= DisableAfter THEN -DisableTicks ELSE @]

\* _record_failure.
RecordFailure(e) ==
    /\ failures' = [failures EXCEPT ![e] = IF @ < DisableAfter THEN @ + 1 ELSE @]
    /\ lastFailure' = [lastFailure EXCEPT ![e] = clock]
    /\ disabledUntil' = [disabledUntil EXCEPT ![e] =
                            IF failures[e] + 1 >= DisableAfter THEN clock + DisableTicks ELSE @]

\* The call goes on with the n-th try of the first of rest, or raises.
GoOn(c, rest, n) ==
    /\ todo' = [todo EXCEPT ![c] = rest]
    /\ try' = [try EXCEPT ![c] = n]
    /\ IF rest = {}
       THEN /\ pc' = [pc EXCEPT ![c] = "idle"]
            /\ result' = [result EXCEPT ![c] = "raised"]
       ELSE /\ pc' = [pc EXCEPT ![c] = "trying"]
            /\ result' = [result EXCEPT ![c] = "none"]

Begin(c) ==
    /\ pc[c] = "idle"
    /\ GoOn(c, AvailableStates, 0)
    /\ tried' = [tried EXCEPT ![c] = {}]
    /\ skipped' = [skipped EXCEPT ![c] = Endpoints \ AvailableStates]
    /\ UNCHANGED <<clock, endpointVars>>

\* fn returns.
Answers(c) ==
    /\ pc[c] = "trying"
    /\ RecordSuccess(Current(c))
    /\ pc' = [pc EXCEPT ![c] = "idle"]
    /\ result' = [result EXCEPT ![c] = "returned"]
    /\ UNCHANGED <<clock, todo, try, tried, skipped>>

\* Mutant of BackOff: the try is not counted.
BackOffForEver(c) ==
    /\ pc' = [pc EXCEPT ![c] = "backoff"]
    /\ UNCHANGED <<todo, try>>

\* The call sleeps, after which local_try is one more or, after the last try,
\* the next endpoint's turn has come.
BackOff(c) ==
    /\ pc' = [pc EXCEPT ![c] = "backoff"]
    /\ IF try[c] + 1 < MaxRetries
       THEN try' = [try EXCEPT ![c] = @ + 1] /\ UNCHANGED todo
       ELSE /\ todo' = [todo EXCEPT ![c] = @ \ {Current(c)}]
            /\ try' = [try EXCEPT ![c] = 0]

Failed(c) ==
    /\ pc[c] = "trying"
    /\ RecordFailure(Current(c))
    /\ tried' = [tried EXCEPT ![c] = @ \cup {Current(c)}]
    /\ UNCHANGED <<clock, skipped>>

\* fn raises RPCRateLimitError.
RateLimited(c) ==
    /\ Failed(c)
    /\ BackOff(c)
    /\ UNCHANGED result

\* fn raises anything else, an error of the endpoint or one of the request
\* (insufficient funds, a revert): one quick retry, then the next endpoint.
Raises(c) ==
    /\ Failed(c)
    /\ IF try[c] = 0
       THEN BackOff(c) /\ UNCHANGED result
       ELSE GoOn(c, todo[c] \ {Current(c)}, 0)

\* The sleep is over.
Resume(c) ==
    /\ pc[c] = "backoff"
    /\ GoOn(c, todo[c], try[c])
    /\ UNCHANGED <<clock, endpointVars, tried, skipped>>

Tick ==
    /\ clock < MaxTime
    /\ clock' = clock + 1
    /\ UNCHANGED <<endpointVars, callVars>>

-----------------------------------------------------------------------------
\* Every variable of the pool has its type.
PoolTypeOK ==
    /\ clock \in 1..(MaxTime + 1)
    /\ failures \in [Endpoints -> 0..DisableAfter]
    /\ lastFailure \in [Endpoints -> 0..MaxTime + 1]
    /\ disabledUntil \in [Endpoints -> 0..(MaxTime + DisableTicks + 1)]
    /\ pc \in [Callers -> {"idle", "trying", "backoff"}]
    /\ todo \in [Callers -> SUBSET Endpoints]
    /\ try \in [Callers -> 0..(MaxRetries - 1)]
    /\ result \in [Callers -> {"none", "returned", "raised"}]
    /\ tried \in [Callers -> SUBSET Endpoints]
    /\ skipped \in [Callers -> SUBSET Endpoints]

\* ChainConnectionError means that something was tried, and that every
\* endpoint either failed this call or was disabled when it began.
RaisedMeansExhausted ==
    \A c \in Callers :
        result[c] = "raised" => tried[c] # {} /\ tried[c] \cup skipped[c] = Endpoints

\* An endpoint is used only after every one before it has failed this call or
\* was disabled when it began, however the other calls change the breakers.
PriorityRespected ==
    \A c \in Callers :
        pc[c] = "trying" => 1..(Current(c) - 1) \subseteq tried[c] \cup skipped[c]

\* A breaker is open only while the endpoint's last answer, to whichever call,
\* is a failure less than the disable duration ago: an answer closes it, even
\* when the calls that opened it are still under way.
OpenOnlyWhileFailing ==
    \A e \in Endpoints :
        ~IsAvailable(e) => lastFailure[e] # 0 /\ clock < lastFailure[e] + DisableTicks

\* The other half: an endpoint that has failed DisableAfter times without an
\* answer, whichever calls those were, is disabled for the whole duration from
\* the last of them ("temporarily disabled after repeated failures",
\* rpc_pool.py:40-42).
DisabledAfterFailures ==
    \A e \in Endpoints :
        failures[e] = DisableAfter /\ clock < lastFailure[e] + DisableTicks => ~IsAvailable(e)

\* The inductive invariant behind the four: an open call has failed at, was
\* told to skip, or still has to do each endpoint, and has something to do
\* unless it sleeps; a breaker is open as long as its failures ask, and no longer.
CallOK(c) ==
    /\ pc[c] # "idle" => result[c] = "none"
    /\ pc[c] = "trying" => todo[c] # {}
    /\ result[c] = "raised" => todo[c] = {}
    /\ pc[c] # "idle" \/ result[c] = "raised" =>
          tried[c] \cup skipped[c] \cup todo[c] = Endpoints /\ skipped[c] # Endpoints

BreakerOK(e) ==
    /\ lastFailure[e] <= clock
    /\ disabledUntil[e] # 0 =>
          lastFailure[e] # 0 /\ disabledUntil[e] <= lastFailure[e] + DisableTicks
    /\ failures[e] = DisableAfter => disabledUntil[e] = lastFailure[e] + DisableTicks

PoolInv ==
    /\ PoolTypeOK
    /\ \A c \in Callers : CallOK(c)
    /\ \A e \in Endpoints : BreakerOK(e)

\* What EveryCallEnds rests on: a step of the pool begins a call or takes one
\* open call to its end, to fewer endpoints, to a further try or out of its
\* sleep; no other call moves, whatever it finds in the breakers later. So fn is
\* called MaxRetries times at an endpoint at most, and a call never starts over.
MovesOn(c) ==
    \/ pc[c] = "idle"
    \/ pc'[c] = "idle"
    \/ todo'[c] \subseteq todo[c] /\ todo'[c] # todo[c]
    \/ todo'[c] = todo[c] /\ try'[c] > try[c]
    \/ todo'[c] = todo[c] /\ try'[c] = try[c] /\ pc[c] = "backoff" /\ pc'[c] = "trying"

StandsStill(c) == pc'[c] = pc[c] /\ todo'[c] = todo[c] /\ try'[c] = try[c]

OneCallMoves ==
    [][clock' = clock =>
          \E c \in Callers : MovesOn(c) /\ \A b \in Callers \ {c} : StandsStill(b)]_poolVars

\* A call returns or raises.
EveryCallEnds == \A c \in Callers : pc[c] # "idle" ~> pc[c] = "idle"
=============================================================================
