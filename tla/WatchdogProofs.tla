--------------------------- MODULE WatchdogProofs ---------------------------
(***************************************************************************)
(* How many bots the watchdog keeps, and when its cooldown is over, for    *)
(* every number of slots, tasks and faults.                                *)
(***************************************************************************)
EXTENDS Watchdog, FiniteSetTheorems, TLAPS

\* The live processes are finitely many, and no more than there were, or one
\* more when one is started in a free slot.
LEMMA AliveFinite == IsFiniteSet(Alive) /\ Cardinality(Alive) \in Nat
BY SlotAssumption, FS_Subset, FS_CardinalityType DEF Alive

LEMMA AliveShrinks ==
    ASSUME Alive' \subseteq Alive
    PROVE  Cardinality(Alive') \in Nat /\ Cardinality(Alive') <= Cardinality(Alive)
BY AliveFinite, FS_Subset, FS_CardinalityType

LEMMA AliveGrows ==
    ASSUME bots \in [Slots -> {"off", "starting", "running"}], NEW s \in Slots, Start(s)
    PROVE  Cardinality(Alive') \in Nat /\ Cardinality(Alive') <= Cardinality(Alive) + 1
<1>1. Alive' = Alive \cup {s}
    BY DEF Start, Alive
<1>2. Cardinality(Alive \cup {s}) \in Nat
      /\ Cardinality(Alive \cup {s}) <= Cardinality(Alive) + 1
    BY AliveFinite, FS_AddElement, FS_CardinalityType
<1> QED
    BY <1>1, <1>2

LEMMA NoBotMeansZero == NoBot => Cardinality(Alive) = 0
BY FS_EmptySet DEF NoBot

LEMMA WatchdogInit == Init => WatchdogInv
<1> SUFFICES ASSUME Init PROVE WatchdogInv
    OBVIOUS
<1>1. PICK running \in {{}} \cup {{s} : s \in Slots} :
        /\ bots = [s \in Slots |-> IF s \in running THEN "running" ELSE "off"]
        /\ tasks = [s \in Slots |-> IF s \in running THEN Tasks ELSE {}]
    BY DEF Init
<1>2. TypeOK
    <2>1. bots \in [Slots -> {"off", "starting", "running"}] /\ tasks \in [Slots -> SUBSET Tasks]
        <3>1. \A s \in Slots : bots[s] \in {"off", "running"} /\ tasks[s] \in SUBSET Tasks
            BY <1>1
        <3> QED
            BY <1>1, <3>1
    <2>2. checksSince \in 0..CooldownChecks
        BY CooldownAssumption DEF Init
    <2>3. /\ deaths \in 0..MaxDeaths /\ misreads \in 0..MaxMisreads
          /\ operatorStarts \in 0..MaxOperatorStarts /\ popenFailures \in 0..MaxPopenFailures
        BY BoundAssumption DEF Init
    <2> QED
        BY <2>1, <2>2, <2>3, Zenon DEF Init, TypeOK
<1>3. Alive \subseteq running
    BY <1>1 DEF Alive
<1>4. IsFiniteSet(running) /\ Cardinality(running) \in Nat /\ Cardinality(running) <= 1
    <2>1. CASE running = {}
        BY <2>1, FS_EmptySet
    <2>2. CASE running # {}
        <3>1. PICK s \in Slots : running = {s}
            BY <2>2
        <3> QED
            <4>1. IsFiniteSet({s}) /\ Cardinality({s}) = 1
                BY FS_Singleton
            <4> QED
                BY <3>1, <4>1
    <2> QED
        BY <2>1, <2>2
<1>5. Cardinality(Alive) <= 1
    BY <1>3, <1>4, AliveFinite, FS_Subset
<1>6. InstancesBounded
    BY <1>5, AliveFinite DEF Init, InstancesBounded
<1> QED
    BY <1>2, <1>6 DEF Init, WatchdogInv, CooldownIsOver, SeenMeansChecked, AlertedMeansNone

\* A step that leaves the watchdog alone and starts nothing keeps everything
\* but the types, which are its own to keep.
LEMMA BotStepKeeps ==
    ASSUME WatchdogInv, Alive' \subseteq Alive, UNCHANGED watchdogVars,
           UNCHANGED operatorStarts
    PROVE  (CooldownIsOver /\ SeenMeansChecked /\ InstancesBounded /\ AlertedMeansNone)'
<1>1. Cardinality(Alive') \in Nat /\ Cardinality(Alive') <= Cardinality(Alive)
    BY AliveShrinks
<1>2. pc' = pc /\ wasAlive' = wasAlive /\ restarted' = restarted /\ checksSince' = checksSince
      /\ misreads' = misreads /\ operatorStarts' = operatorStarts
    BY DEF watchdogVars
<1>3. Cardinality(Alive) \in Nat /\ misreads \in Nat /\ operatorStarts \in Nat
    BY AliveFinite, BoundAssumption DEF WatchdogInv, TypeOK
<1>4. InstancesBounded' /\ AlertedMeansNone'
    BY <1>1, <1>2, <1>3 DEF WatchdogInv, InstancesBounded, AlertedMeansNone
<1> QED
    BY <1>2, <1>4 DEF WatchdogInv, CooldownIsOver, SeenMeansChecked

LEMMA WatchdogStep == WatchdogInv /\ [Next]_vars => WatchdogInv'
<1> SUFFICES ASSUME WatchdogInv, [Next]_vars PROVE WatchdogInv'
    OBVIOUS
<1>t. TypeOK
    BY DEF WatchdogInv
<1>n. /\ Cardinality(Alive) \in Nat /\ misreads \in Nat /\ operatorStarts \in Nat
      /\ checksSince \in Int /\ CooldownChecks \in 0..2
    BY AliveFinite, BoundAssumption, CooldownAssumption DEF WatchdogInv, TypeOK
<1>1. CASE Check
    <2>1. TypeOK'
        BY <1>1, <1>t, CooldownAssumption, BoundAssumption DEF Check, TypeOK, BotIsRunning
    <2>2. /\ pc = "asleep" /\ Alive' = Alive /\ restarted' = restarted
          /\ operatorStarts' = operatorStarts
          /\ checksSince' = IF checksSince < CooldownChecks THEN checksSince + 1 ELSE checksSince
        BY <1>1 DEF Check, Alive
    <2>3. PICK alive \in BOOLEAN :
            /\ BotIsRunning(alive)
            /\ IF wasAlive /\ ~alive
               THEN pc' = "alerting" /\ UNCHANGED wasAlive
               ELSE wasAlive' = alive /\ UNCHANGED pc
        BY <1>1 DEF Check
    <2>4. misreads' >= misreads /\ misreads' \in Nat
        BY <1>n, <2>3 DEF BotIsRunning
    <2>5. InstancesBounded'
        BY <1>n, <2>2, <2>4 DEF WatchdogInv, InstancesBounded
    <2>6. AlertedMeansNone'
        <3>1. SUFFICES ASSUME pc' = "alerting"
                       PROVE  Cardinality(Alive) <= misreads' + operatorStarts
            BY <2>2 DEF AlertedMeansNone
        <3>2. alive = FALSE
            BY <2>2, <2>3, <3>1
        <3>3. CASE NoBot
            <4>1. Cardinality(Alive) = 0
                BY <3>3, NoBotMeansZero
            <4>2. misreads' = misreads
                BY <2>3, <3>3 DEF BotIsRunning, PgrepFinds
            <4> QED
                BY <1>n, <4>1, <4>2
        <3>4. CASE ~NoBot
            <4>1. misreads' = misreads + 1
                BY <2>3, <3>2, <3>4 DEF BotIsRunning, PgrepFinds
            <4> QED
                BY <1>n, <4>1 DEF WatchdogInv, InstancesBounded
        <3> QED
            BY <3>3, <3>4
    <2>7. CooldownIsOver'
        BY <1>n, <2>2, <2>3 DEF WatchdogInv, CooldownIsOver, SeenMeansChecked
    <2>8. SeenMeansChecked'
        BY <1>n, <1>t, <2>2, <2>3 DEF WatchdogInv, SeenMeansChecked, TypeOK
    <2> QED
        BY <2>1, <2>5, <2>6, <2>7, <2>8 DEF WatchdogInv
<1>2. CASE Restart
    <2>1. TypeOK'
        <3>1. bots' \in [Slots -> {"off", "starting", "running"}]
            BY <1>2, <1>t DEF Restart, Start, TypeOK
        <3>2. popenFailures' \in 0..MaxPopenFailures
            BY <1>2, <1>t, BoundAssumption DEF Restart, TypeOK
        <3>3. checksSince' \in 0..CooldownChecks
            BY <1>2, CooldownAssumption DEF Restart, BeginCooldown
        <3> QED
            BY <1>2, <1>t, <3>1, <3>2, <3>3 DEF Restart, Resume, TypeOK
    <2>2. /\ pc = "alerting" /\ pc' = "asleep" /\ wasAlive' = FALSE
          /\ misreads' = misreads /\ operatorStarts' = operatorStarts
        BY <1>2 DEF Restart, Resume
    <2>3. Cardinality(Alive') \in Nat /\ Cardinality(Alive') <= Cardinality(Alive) + 1
        <3>1. CASE UNCHANGED bots
            BY <1>n, <3>1 DEF Alive
        <3>2. CASE \E s \in Slots : Start(s)
            BY <1>t, <3>2, AliveGrows DEF TypeOK
        <3> QED
            BY <1>2, <3>1, <3>2 DEF Restart
    <2>4. InstancesBounded'
        BY <1>n, <2>2, <2>3 DEF WatchdogInv, AlertedMeansNone, InstancesBounded
    <2> QED
        BY <2>1, <2>2, <2>4 DEF WatchdogInv, CooldownIsOver, SeenMeansChecked, AlertedMeansNone
<1>3. CASE SkipRestart
    <2>1. TypeOK'
        BY <1>3, <1>t DEF SkipRestart, Resume, TypeOK
    <2>2. /\ pc' = "asleep" /\ wasAlive' = FALSE /\ Alive' = Alive
          /\ misreads' = misreads /\ operatorStarts' = operatorStarts
        BY <1>3 DEF SkipRestart, Resume, Alive
    <2> QED
        BY <2>1, <2>2 DEF WatchdogInv, InstancesBounded, CooldownIsOver, SeenMeansChecked,
            AlertedMeansNone
<1>4. ASSUME NEW s \in Slots, Started(s) PROVE WatchdogInv'
    <2>1. TypeOK'
        BY <1>4, <1>t DEF Started, TypeOK, watchdogVars
    <2>2. Alive' \subseteq Alive
        BY <1>4, <1>t DEF Started, TypeOK, Alive
    <2> QED
        BY <1>4, <2>1, <2>2, BotStepKeeps DEF Started, WatchdogInv
<1>5. ASSUME NEW s \in Slots, Goes(s) PROVE WatchdogInv'
    <2>1. TypeOK'
        BY <1>5, <1>t, BoundAssumption DEF Goes, TypeOK, watchdogVars
    <2>2. Alive' \subseteq Alive
        BY <1>5, <1>t DEF Goes, TypeOK, Alive
    <2> QED
        BY <1>5, <2>1, <2>2, BotStepKeeps DEF Goes, WatchdogInv
<1>6. ASSUME NEW s \in Slots, NEW t \in Tasks, TaskEnds(s, t) PROVE WatchdogInv'
    <2>1. TypeOK'
        BY <1>6, <1>t DEF TaskEnds, TypeOK, watchdogVars
    <2>2. Alive' \subseteq Alive
        BY <1>6 DEF TaskEnds, Alive
    <2> QED
        BY <1>6, <2>1, <2>2, BotStepKeeps DEF TaskEnds, WatchdogInv
<1>7. ASSUME NEW s \in Slots, OperatorStarts(s) PROVE WatchdogInv'
    <2>1. TypeOK'
        BY <1>7, <1>t, BoundAssumption DEF OperatorStarts, Start, TypeOK, watchdogVars
    <2>2. Cardinality(Alive') \in Nat /\ Cardinality(Alive') <= Cardinality(Alive) + 1
        BY <1>7, <1>t, AliveGrows DEF OperatorStarts, TypeOK
    <2>3. Cardinality(Alive) = 0
        BY <1>7, NoBotMeansZero DEF OperatorStarts
    <2>4. /\ operatorStarts' = operatorStarts + 1 /\ misreads' = misreads
          /\ pc' = pc /\ wasAlive' = wasAlive /\ restarted' = restarted
          /\ checksSince' = checksSince
        BY <1>7 DEF OperatorStarts, watchdogVars
    <2>5. InstancesBounded' /\ AlertedMeansNone'
        BY <1>n, <2>2, <2>3, <2>4 DEF InstancesBounded, AlertedMeansNone
    <2> QED
        BY <2>1, <2>4, <2>5 DEF WatchdogInv, CooldownIsOver, SeenMeansChecked
<1>8. CASE UNCHANGED vars
    <2>1. TypeOK'
        BY <1>8, <1>t DEF vars, watchdogVars, TypeOK
    <2> QED
        BY <1>8, <2>1, BotStepKeeps DEF vars, Alive, WatchdogInv
<1> QED
    BY <1>1, <1>2, <1>3, <1>4, <1>5, <1>6, <1>7, <1>8 DEF Next, Loop, Bots, Exits, Dies

THEOREM WatchdogInvariance == Spec => []WatchdogInv
BY WatchdogInit, WatchdogStep, PTL DEF Spec

\* After a restart of its own the watchdog never refuses another: the cooldown
\* of watchdog.py:125 can only ever be the machine's boot.
THEOREM CooldownNeverRefuses == Spec => []CooldownIsOver
<1>1. WatchdogInv => CooldownIsOver
    BY DEF WatchdogInv
<1> QED
    BY <1>1, WatchdogInvariance, PTL

\* There are never more bots than one, the failed pgreps and the operator's.
THEOREM FewInstances == Spec => []InstancesBounded
<1>1. WatchdogInv => InstancesBounded
    BY DEF WatchdogInv
<1> QED
    BY <1>1, WatchdogInvariance, PTL

\* Every variable of Watchdog keeps its type.
THEOREM WatchdogTypeCorrect == Spec => []TypeOK
<1>1. WatchdogInv => TypeOK
    BY DEF WatchdogInv
<1> QED
    BY <1>1, WatchdogInvariance, PTL

\* A death that is alerted after the first restart is never left unanswered
\* (watchdog.py:122-135): the check that saw it cannot fall into the cooldown.
THEOREM DeathsAreAnswered == Spec => DeathsAnswered
<1>1. WatchdogInv /\ [Next]_vars =>
        [pc = "alerting" /\ restarted /\ pc' = "asleep" =>
            \/ popenFailures' > popenFailures
            \/ \E s \in Slots : bots[s] = "off" /\ bots'[s] = "starting"]_vars
    <2> SUFFICES ASSUME WatchdogInv, Next, pc = "alerting", restarted, pc' = "asleep"
                 PROVE  \/ popenFailures' > popenFailures
                        \/ \E s \in Slots : bots[s] = "off" /\ bots'[s] = "starting"
        OBVIOUS
    <2>0. /\ bots \in [Slots -> {"off", "starting", "running"}] /\ popenFailures \in Nat
          /\ ~(checksSince < CooldownChecks)
        BY CooldownAssumption, BoundAssumption DEF WatchdogInv, TypeOK, CooldownIsOver
    <2>1. Restart
        BY <2>0 DEF Next, Loop, Bots, Check, SkipRestart, Started, Exits, Dies, Goes, TaskEnds,
           OperatorStarts, watchdogVars
    <2>2. CASE \E s \in Slots : Start(s)
        <3>1. PICK s \in Slots : bots[s] = "off" /\ bots' = [bots EXCEPT ![s] = "starting"]
            BY <2>2 DEF Start
        <3> QED
            BY <2>0, <3>1
    <2>3. CASE popenFailures' = popenFailures + 1
        BY <2>0, <2>3
    <2> QED
        BY <2>1, <2>2, <2>3 DEF Restart
<1> QED
    BY <1>1, WatchdogInvariance, PTL DEF Spec, DeathsAnswered
=============================================================================
