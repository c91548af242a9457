------------------------- MODULE RateLimiterProofs -------------------------
(***************************************************************************)
(* The rolling window of both limiters, for every limit and every period.  *)
(***************************************************************************)
EXTENDS RateLimiter, FiniteSetTheorems, TLAPS

\* What LetThrough makes of the history: one element longer, the old ones in
\* their places and the clock at the end.
LEMMA Appended ==
    ASSUME calls \in Seq(Nat), clock \in Nat, LetThrough
    PROVE  /\ calls' \in Seq(Nat)
           /\ Len(calls') = Len(calls) + 1
           /\ \A i \in 1..Len(calls) : calls'[i] = calls[i]
           /\ calls'[Len(calls) + 1] = clock
BY DEF LetThrough

\* Evicting leaves no more than max_calls in the deque, because the window was
\* kept so far and the last call is not in the future.
LEMMA EvictionShortens ==
    ASSUME LimiterInv, NEW h \in 1..(Len(calls) + 1), Evicted(h)
    PROVE  Len(calls) - h + 1 <= MaxCalls
<1>1. SUFFICES ASSUME h <= Len(calls) - MaxCalls PROVE FALSE
    BY LimitAssumption DEF LimiterInv, TypeOK
<1>2. h \in 1..Len(calls) /\ Len(calls) \in 1..Len(calls) /\ Len(calls) >= h + MaxCalls
    BY <1>1, LimitAssumption DEF LimiterInv, TypeOK
<1>3. calls[Len(calls)] - calls[h] > Period
    BY <1>2 DEF LimiterInv, RollingWindow
<1>4. calls[Len(calls)] <= clock
    BY <1>2 DEF LimiterInv, InOrder
<1>5. clock - calls[h] <= Period
    BY <1>2 DEF Evicted
<1>6. calls[h] \in Nat /\ calls[Len(calls)] \in Nat /\ clock \in Nat /\ Period \in Nat
    BY <1>2, LimitAssumption DEF LimiterInv, TypeOK
<1> QED
    BY <1>3, <1>4, <1>5, <1>6

\* A call that is let through when all but the last max_calls - 1 are older
\* than a period keeps the window and the order.
LEMMA WindowKept ==
    ASSUME LimiterInv, LetThrough, clock' = clock,
           \A i \in 1..Len(calls) : i <= Len(calls) + 1 - MaxCalls => clock - calls[i] > Period
    PROVE  RollingWindow' /\ InOrder'
<1>1. calls \in Seq(Nat) /\ clock \in Nat
    BY DEF LimiterInv, TypeOK
<1>2. /\ Len(calls') = Len(calls) + 1
      /\ \A i \in 1..Len(calls) : calls'[i] = calls[i]
      /\ calls'[Len(calls) + 1] = clock
    BY <1>1, Appended
<1>3. RollingWindow'
    <2>1. SUFFICES ASSUME NEW i \in 1..Len(calls'), NEW j \in 1..Len(calls'), j >= i + MaxCalls
                   PROVE  calls'[j] - calls'[i] > Period
        BY DEF RollingWindow
    <2>2. i \in 1..Len(calls) /\ calls'[i] = calls[i]
        BY <1>1, <1>2, <2>1, LimitAssumption
    <2>3. CASE j = Len(calls) + 1
        BY <1>1, <1>2, <2>1, <2>2, <2>3, LimitAssumption
    <2>4. CASE j # Len(calls) + 1
        <3>1. j \in 1..Len(calls) /\ calls'[j] = calls[j]
            BY <1>1, <1>2, <2>4
        <3> QED
            BY <2>1, <2>2, <3>1 DEF LimiterInv, RollingWindow
    <2> QED
        BY <2>3, <2>4
<1>4. InOrder'
    <2>1. \A i \in 1..Len(calls') : calls'[i] <= clock
        <3>1. SUFFICES ASSUME NEW i \in 1..Len(calls') PROVE calls'[i] <= clock
            OBVIOUS
        <3>2. CASE i = Len(calls) + 1
            BY <1>1, <1>2, <3>2
        <3>3. CASE i # Len(calls) + 1
            <4>1. i \in 1..Len(calls)
                BY <1>1, <1>2, <3>3
            <4> QED
                BY <4>1, <1>2 DEF LimiterInv, InOrder
        <3> QED
            BY <3>2, <3>3
    <2>2. \A i, j \in 1..Len(calls') : i <= j => calls'[i] <= calls'[j]
        <3>1. SUFFICES ASSUME NEW i \in 1..Len(calls'), NEW j \in 1..Len(calls'), i <= j
                       PROVE  calls'[i] <= calls'[j]
            OBVIOUS
        <3>2. CASE j = Len(calls) + 1
            BY <1>2, <2>1, <3>2
        <3>3. CASE j # Len(calls) + 1
            <4>1. i \in 1..Len(calls) /\ j \in 1..Len(calls)
                BY <1>1, <1>2, <3>1, <3>3
            <4> QED
                BY <4>1, <3>1, <1>2 DEF LimiterInv, InOrder
        <3> QED
            BY <3>2, <3>3
    <2> QED
        BY <2>1, <2>2 DEF InOrder
<1> QED
    BY <1>3, <1>4

\* After an eviction up to h everything before h is older than a period.
LEMMA EvictedIsOld ==
    ASSUME LimiterInv, NEW h \in 1..(Len(calls) + 1), Evicted(h)
    PROVE  \A i \in 1..(h - 1) : clock - calls[i] > Period
BY DEF LimiterInv, TypeOK, PoppedIsOld, Evicted

\* What was popped stays popped when a call is let through.
LEMMA PoppedKept ==
    ASSUME LimiterInv, LetThrough, clock' = clock,
           NEW h \in 1..(Len(calls) + 1), head' = h,
           \A i \in 1..(h - 1) : clock - calls[i] > Period
    PROVE  PoppedIsOld'
<1>1. calls \in Seq(Nat) /\ clock \in Nat
    BY DEF LimiterInv, TypeOK
<1>2. \A i \in 1..Len(calls) : calls'[i] = calls[i]
    BY <1>1, Appended
<1>3. SUFFICES ASSUME NEW i \in 1..(h - 1) PROVE clock - calls'[i] > Period
    BY DEF PoppedIsOld
<1>4. i \in 1..Len(calls)
    BY <1>1
<1>5. calls'[i] = calls[i]
    BY <1>2, <1>4
<1> QED
    BY <1>3, <1>5

\* A sleeper that wakes finds the oldest call of its deque older than a period.
LEMMA OldestIsOld ==
    ASSUME LimiterInv, pc = "asleep", clock >= wake + Latency
    PROVE  /\ Len(calls) - head + 1 = MaxCalls
           /\ head \in 1..Len(calls)
           /\ clock - calls[head] > Period
<1>1. /\ Len(calls) - head + 1 = MaxCalls
      /\ wake = calls[head] + Period
    BY DEF LimiterInv, SleeperWaits
<1>2. head \in 1..Len(calls)
    BY <1>1, LimitAssumption DEF LimiterInv, TypeOK
<1>3. calls[head] \in Nat /\ clock \in Nat
    BY <1>2 DEF LimiterInv, TypeOK
<1> QED
    BY <1>1, <1>2, <1>3, LimitAssumption, ClockAssumption

LEMMA LimiterInit == Init => LimiterInv /\ DequeBounded
BY LimitAssumption DEF Init, LimiterInv, TypeOK, InOrder, PoppedIsOld, SleeperWaits,
    RollingWindow, DequeBounded

\* Every step keeps the invariant and the bound on the deque.
LEMMA LimiterStep == LimiterInv /\ DequeBounded /\ [Next]_vars => (LimiterInv /\ DequeBounded)'
<1> SUFFICES ASSUME LimiterInv, DequeBounded, [Next]_vars PROVE LimiterInv' /\ DequeBounded'
    OBVIOUS
<1>t. /\ calls \in Seq(Nat) /\ clock \in Nat /\ wake \in Nat /\ kind \in {"limiter", "notifier"}
      /\ head \in 1..(Len(calls) + 1)
      /\ MaxCalls \in Nat \ {0} /\ Period \in Nat \ {0}
    BY LimitAssumption DEF LimiterInv, TypeOK
<1>1. CASE Acquire
    <2>1. PICK h \in 1..(Len(calls) + 1) : Evicted(h) /\ ~Full(h) /\ head' = h
        BY <1>1 DEF Acquire
    <2>2. LetThrough /\ clock' = clock /\ kind' = kind /\ pc' = pc /\ wake' = wake /\ pc = "open"
        BY <1>1 DEF Acquire
    <2>3. /\ calls' \in Seq(Nat) /\ Len(calls') = Len(calls) + 1
          /\ \A i \in 1..Len(calls) : calls'[i] = calls[i]
        BY <1>t, <2>2, Appended
    <2>4. \A i \in 1..(h - 1) : clock - calls[i] > Period
        BY <2>1, EvictedIsOld
    <2>5. h > Len(calls) + 1 - MaxCalls
        BY <1>t, <2>1 DEF Full
    <2>6. RollingWindow' /\ InOrder'
        <3>1. \A i \in 1..Len(calls) :
                i <= Len(calls) + 1 - MaxCalls => clock - calls[i] > Period
            BY <1>t, <2>4, <2>5
        <3> QED
            BY <2>2, <3>1, WindowKept
    <2>7. TypeOK'
        BY <1>t, <2>1, <2>2, <2>3 DEF LimiterInv, TypeOK
    <2>8. PoppedIsOld'
        BY <2>1, <2>2, <2>4, PoppedKept
    <2>9. SleeperWaits'
        BY <2>2 DEF SleeperWaits
    <2>10. DequeBounded'
        <3>1. Len(calls') - head' + 1 <= MaxCalls
            BY <1>t, <2>1, <2>3, <2>5
        <3> QED
            BY <1>t, <3>1, <2>1, <2>3 DEF DequeBounded
    <2> QED
        BY <2>6, <2>7, <2>8, <2>9, <2>10 DEF LimiterInv
<1>2. CASE Sleep
    <2>1. PICK h \in 1..Len(calls) : Evicted(h) /\ Full(h) /\ head' = h /\ wake' = WakeTime(h)
        BY <1>2 DEF Sleep
    <2>2. kind' = kind /\ clock' = clock /\ calls' = calls /\ pc' = "asleep"
        BY <1>2 DEF Sleep
    <2>3. Len(calls) - h + 1 = MaxCalls
        BY <1>t, <2>1, EvictionShortens DEF Full
    <2>4. TypeOK'
        BY <1>t, <2>1, <2>2 DEF TypeOK, WakeTime
    <2>5. PoppedIsOld'
        BY <1>t, <2>1, <2>2, EvictedIsOld DEF PoppedIsOld
    <2>6. SleeperWaits' /\ DequeBounded'
        BY <1>t, <2>1, <2>2, <2>3 DEF SleeperWaits, WakeTime, DequeBounded
    <2>7. InOrder' /\ RollingWindow'
        BY <2>2 DEF LimiterInv, InOrder, RollingWindow
    <2> QED
        BY <2>4, <2>5, <2>6, <2>7 DEF LimiterInv
<1>3. CASE WakeUp
    <2>1. LetThrough /\ clock' = clock /\ kind' = kind /\ pc' = "open" /\ wake' = wake
        BY <1>3 DEF WakeUp
    <2>2. /\ Len(calls) - head + 1 = MaxCalls
          /\ head \in 1..Len(calls)
          /\ clock - calls[head] > Period
        BY <1>3, OldestIsOld DEF WakeUp
    <2>3. /\ calls' \in Seq(Nat) /\ Len(calls') = Len(calls) + 1
          /\ \A i \in 1..Len(calls) : calls'[i] = calls[i]
        BY <1>t, <2>1, Appended
    <2>4. RollingWindow' /\ InOrder'
        <3>1. \A i \in 1..Len(calls) :
                i <= Len(calls) + 1 - MaxCalls => clock - calls[i] > Period
            BY <1>t, <2>2 DEF LimiterInv, PoppedIsOld
        <3> QED
            BY <2>1, <3>1, WindowKept
    <2>5. SleeperWaits'
        BY <2>1 DEF SleeperWaits
    <2>6. CASE kind = "limiter"
        <3>1. PICK h \in 1..(Len(calls) + 1) : Evicted(h) /\ head' = h
            BY <1>3, <2>6 DEF WakeUp
        <3>2. h # head
            <4>1. calls[head] \in Nat
                BY <1>t, <2>2
            <4> QED
                BY <1>t, <2>2, <3>1, <4>1 DEF Evicted
        <3>3. h > head
            BY <1>t, <3>1, <3>2 DEF Evicted
        <3>4. TypeOK'
            BY <1>t, <2>1, <2>3, <3>1 DEF TypeOK
        <3>5. PoppedIsOld'
            <4>1. \A i \in 1..(h - 1) : clock - calls[i] > Period
                BY <3>1, EvictedIsOld
            <4> QED
                BY <2>1, <3>1, <4>1, PoppedKept
        <3>6. DequeBounded'
            <4>1. Len(calls') - head' + 1 <= MaxCalls
                BY <1>t, <2>2, <2>3, <3>1, <3>3
            <4>2. kind' = "limiter"
                BY <2>1, <2>6
            <4> QED
                BY <4>1, <4>2 DEF DequeBounded
        <3> QED
            BY <2>4, <2>5, <3>4, <3>5, <3>6 DEF LimiterInv
    <2>7. CASE kind = "notifier"
        <3>1. head' = head
            BY <1>3, <2>7 DEF WakeUp
        <3>2. TypeOK'
            BY <1>t, <2>1, <2>3, <3>1 DEF TypeOK
        <3>3. PoppedIsOld'
            <4>1. PICK h \in 1..(Len(calls) + 1) : h = head
                BY <1>t
            <4>2. \A i \in 1..(h - 1) : clock - calls[i] > Period
                BY <4>1 DEF LimiterInv, PoppedIsOld
            <4> QED
                <5>1. head' = h
                    BY <3>1, <4>1
                <5> QED
                    BY <2>1, <5>1, <4>2, PoppedKept
        <3>4. DequeBounded'
            <4>1. Len(calls') - head' + 1 <= MaxCalls + 1
                BY <1>t, <2>2, <2>3, <3>1
            <4>2. kind' # "limiter"
                BY <2>1, <2>7
            <4> QED
                BY <4>1, <4>2 DEF DequeBounded
        <3> QED
            BY <2>4, <2>5, <3>2, <3>3, <3>4 DEF LimiterInv
    <2> QED
        BY <1>t, <2>6, <2>7
<1>4. CASE Cancel
    BY <1>4 DEF Cancel, LimiterInv, TypeOK, InOrder, PoppedIsOld, SleeperWaits, RollingWindow,
        DequeBounded
<1>5. CASE Tick
    <2>1. clock' = clock + 1 /\ UNCHANGED <<kind, calls, head, pc, wake>>
        BY <1>5 DEF Tick
    <2>2. TypeOK' /\ SleeperWaits' /\ RollingWindow' /\ DequeBounded'
        BY <1>t, <2>1 DEF LimiterInv, TypeOK, SleeperWaits, RollingWindow, DequeBounded
    <2>3. \A i \in 1..Len(calls) : calls[i] \in Nat
        BY <1>t
    <2>4. InOrder'
        BY <1>t, <2>1, <2>3 DEF LimiterInv, InOrder
    <2>5. PoppedIsOld'
        <3>1. \A i \in 1..(head - 1) : i \in 1..Len(calls)
            BY <1>t
        <3> QED
            BY <1>t, <2>1, <2>3, <3>1 DEF LimiterInv, PoppedIsOld
    <2> QED
        BY <2>2, <2>4, <2>5 DEF LimiterInv
<1>6. CASE UNCHANGED vars
    BY <1>6 DEF vars, LimiterInv, TypeOK, InOrder, PoppedIsOld, SleeperWaits, RollingWindow,
        DequeBounded
<1> QED
    BY <1>1, <1>2, <1>3, <1>4, <1>5, <1>6 DEF Next

\* Both limiters keep "at most max_calls within any rolling period_seconds
\* window" (rate_limiter.py:20) and a deque of about max_calls entries.
THEOREM LimiterInvariance == Spec => [](LimiterInv /\ DequeBounded)
BY LimiterInit, LimiterStep, PTL DEF Spec

\* No window of a period holds more than max_calls calls.
THEOREM WindowRespected == Spec => []RollingWindow
<1>1. LimiterInv /\ DequeBounded => RollingWindow
    BY DEF LimiterInv
<1> QED
    BY <1>1, LimiterInvariance, PTL

\* The deque never grows beyond the limit, or one beyond it in the notifier.
THEOREM DequeStaysShort == Spec => []DequeBounded
BY LimiterInvariance, PTL

\* Every variable of RateLimiter keeps its type.
THEOREM LimiterTypeCorrect == Spec => []TypeOK
<1>1. LimiterInv => TypeOK
    BY DEF LimiterInv
<1> QED
    BY <1>1, LimiterInvariance, PTL

\* A sleeper waits for a deque that is full of calls within the period.
LEMMA SleeperJustified == LimiterInv => NoNeedlessWait
<1> SUFFICES ASSUME LimiterInv, pc = "asleep", clock < wake
    PROVE  Cardinality({i \in 1..Len(calls) : clock - calls[i] <= Period}) >= MaxCalls
    BY DEF NoNeedlessWait
<1> DEFINE recent == {i \in 1..Len(calls) : clock - calls[i] <= Period}
<1>t. /\ clock \in Nat /\ calls \in Seq(Nat) /\ head \in 1..(Len(calls) + 1) /\ wake \in Nat
      /\ Len(calls) \in Nat /\ MaxCalls \in Nat \ {0} /\ Period \in Nat \ {0}
    BY LimitAssumption DEF LimiterInv, TypeOK
<1>1. Len(calls) - head + 1 = MaxCalls /\ wake = calls[head] + Period
    BY DEF LimiterInv, SleeperWaits
<1>2. \A i \in head..Len(calls) : i \in recent
    <2> TAKE i \in head..Len(calls)
    <2>1. head \in 1..Len(calls) /\ i \in 1..Len(calls) /\ head <= i
        BY <1>t, <1>1
    <2>2. calls[head] <= calls[i]
        BY <2>1 DEF LimiterInv, InOrder
    <2>3. calls[head] \in Nat /\ calls[i] \in Nat
        BY <1>t, <2>1
    <2> QED
        BY <1>t, <1>1, <2>1, <2>2, <2>3
<1>3. IsFiniteSet(1..Len(calls)) /\ Cardinality(head..Len(calls)) = MaxCalls
    BY <1>t, <1>1, FS_Interval
<1>4. IsFiniteSet(recent)
    BY <1>3, FS_Subset
<1>5. Cardinality(head..Len(calls)) <= Cardinality(recent)
    BY <1>2, <1>4, FS_Subset
<1>6. Cardinality(recent) \in Nat
    BY <1>4, FS_CardinalityType
<1> QED
    BY <1>t, <1>3, <1>5, <1>6

\* Nobody is held back while the window has room for a call.
THEOREM NobodyWaitsInVain == Spec => []NoNeedlessWait
BY SleeperJustified, LimiterInvariance, PTL
=============================================================================
