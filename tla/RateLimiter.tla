---------------------------- MODULE RateLimiter ----------------------------
(***************************************************************************)
(* The rolling-window limiter, twice in the code: RateLimiter.acquire of   *)
(* utils/rate_limiter.py, before every request to DexScreener and          *)
(* GeckoTerminal, and the same inlined in TelegramNotifier.send, which     *)
(* does not evict after it has slept.                                      *)
(*                                                                         *)
(* The lock is held across the sleep, so at most one caller is between the *)
(* first reading of the clock and the append; the others wait for the      *)
(* lock. A caller that does not sleep runs without a suspension and is one *)
(* step. The deque is the tail of calls, the history of all appends, from  *)
(* head on.                                                                *)
(***************************************************************************)
EXTENDS Integers, Sequences, FiniteSets

CONSTANTS
    MaxCalls,   \* max_calls, MAX_MSGS_PER_MINUTE
    Period,     \* period_seconds, in ticks
    Latency,    \* least ticks by which the clock passes the end of a sleep
    MaxClock    \* bound: ticks of the clock

ASSUME LimitAssumption == MaxCalls \in Nat \ {0} /\ Period \in Nat \ {0}
\* Two readings of time.monotonic() around an await differ. On a clock too
\* coarse for that, a call that finds the oldest one exactly Period old is let
\* through beside it, and so are all the others of that tick.
ASSUME ClockAssumption == Latency \in Nat \ {0} /\ MaxClock \in Nat

VARIABLES
    kind,       \* "limiter" or "notifier", which of the two this is
    clock,      \* time.monotonic()
    calls,      \* when each call was let through
    head,       \* index of the oldest call in the deque
    pc,         \* "open", or "asleep" while a caller sleeps with the lock
    wake        \* when its sleep is over

vars == <<kind, clock, calls, head, pc, wake>>

Init ==
    /\ kind \in {"limiter", "notifier"}
    /\ clock = 0
    /\ calls = <<>>
    /\ head = 1
    /\ pc = "open"
    /\ wake = 0

\* Mutant of Evicted: what is exactly Period old is popped, and one tick more.
EvictedEarly(h) ==
    /\ h \in head..(Len(calls) + 1)
    /\ \A i \in head..(h - 1) : clock - calls[i] >= Period - 1
    /\ h <= Len(calls) => clock - calls[h] < Period - 1

\* The while loop pops from the left what is older than Period, up to h.
Evicted(h) ==
    /\ h \in head..(Len(calls) + 1)
    /\ \A i \in head..(h - 1) : clock - calls[i] > Period
    /\ h <= Len(calls) => clock - calls[h] <= Period

\* The deque from h on has max_calls calls.
Full(h) == Len(calls) - h + 1 >= MaxCalls

LetThrough == calls' = Append(calls, clock)

\* Fewer than max_calls within the window. (Bound: the same as Sleep's.)
Acquire ==
    /\ pc = "open"
    /\ clock + Period + Latency <= MaxClock
    /\ \E h \in 1..(Len(calls) + 1) :
        /\ Evicted(h)
        /\ ~Full(h)
        /\ head' = h
    /\ LetThrough
    /\ UNCHANGED <<kind, clock, pc, wake>>

\* Mutant of WakeTime: the newest call is waited for.
WakeTimeNewest(h) == calls[Len(calls)] + Period

\* sleep_for counts from the oldest call in the deque.
WakeTime(h) == calls[h] + Period

\* The deque is full: the caller sleeps with the lock, for no time at all if
\* the oldest call is exactly Period old. (Bound: it wakes before MaxClock.)
Sleep ==
    /\ pc = "open"
    /\ clock + Period + Latency <= MaxClock
    /\ \E h \in 1..Len(calls) :
        /\ Evicted(h)
        /\ Full(h)
        /\ head' = h
        /\ wake' = WakeTime(h)
    /\ pc' = "asleep"
    /\ UNCHANGED <<kind, clock, calls>>

\* The limiter evicts again after its sleep, the notifier does not.
WakeUp ==
    /\ pc = "asleep"
    /\ clock >= wake + Latency
    /\ \/ /\ kind = "limiter"
          /\ \E h \in 1..(Len(calls) + 1) : Evicted(h) /\ head' = h
       \/ kind = "notifier" /\ UNCHANGED head
    /\ LetThrough
    /\ pc' = "open"
    /\ UNCHANGED <<kind, clock, wake>>

\* The caller is cancelled in its sleep and releases the lock.
Cancel ==
    /\ pc = "asleep"
    /\ pc' = "open"
    /\ UNCHANGED <<kind, clock, calls, head, wake>>

Tick ==
    /\ clock < MaxClock
    /\ clock' = clock + 1
    /\ UNCHANGED <<kind, calls, head, pc, wake>>

Next == Acquire \/ Sleep \/ WakeUp \/ Cancel \/ Tick

Spec == Init /\ [][Next]_vars

-----------------------------------------------------------------------------
\* Every variable has its type.
TypeOK ==
    /\ kind \in {"limiter", "notifier"}
    /\ clock \in Nat
    /\ calls \in Seq(Nat)
    /\ head \in 1..(Len(calls) + 1)
    /\ pc \in {"open", "asleep"}
    /\ wake \in Nat

\* "at most max_calls within any rolling period_seconds window"
\* (rate_limiter.py:20): two calls that are max_calls apart are more than a
\* period apart, whoever made them and however long they slept.
RollingWindow ==
    \A i, j \in 1..Len(calls) : j >= i + MaxCalls => calls[j] - calls[i] > Period

\* Nobody is held back while the window has room for a call.
NoNeedlessWait ==
    pc = "asleep" /\ clock < wake =>
        Cardinality({i \in 1..Len(calls) : clock - calls[i] <= Period}) >= MaxCalls

\* The deque, which is never cleared, stays as short as the window: max_calls,
\* and one more where nothing is popped after the sleep.
DequeBounded ==
    Len(calls) - head + 1 <= IF kind = "limiter" THEN MaxCalls ELSE MaxCalls + 1

\* The inductive invariant behind RollingWindow: calls are in the order of the
\* clock, what the deque has lost is older than a period, and a sleeper waits
\* for the oldest call of a full deque.
InOrder ==
    /\ \A i, j \in 1..Len(calls) : i <= j => calls[i] <= calls[j]
    /\ \A i \in 1..Len(calls) : calls[i] <= clock

PoppedIsOld == \A i \in 1..(head - 1) : clock - calls[i] > Period

SleeperWaits ==
    pc = "asleep" => Len(calls) - head + 1 = MaxCalls /\ wake = calls[head] + Period

LimiterInv == TypeOK /\ InOrder /\ PoppedIsOld /\ SleeperWaits /\ RollingWindow
=============================================================================
