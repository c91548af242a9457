------------------------------ MODULE Watchdog ------------------------------
(***************************************************************************)
(* watchdog.py beside the processes it watches: the checks of its loop,    *)
(* the await of send_telegram between a check and the restart it decides,  *)
(* and the bot's own life in main.py, where every scraper is wrapped in a  *)
(* task that swallows its failure and the process exits when no task is    *)
(* left.                                                                   *)
(*                                                                         *)
(* Time is counted in checks. Between two checks lie CHECK_INTERVAL (30 s) *)
(* and, at most, two alerts of 10 s and a pgrep of 5 s, so RESTART_COOLDOWN*)
(* (60 s) is over at the second check after a restart and not before.      *)
(***************************************************************************)
EXTENDS Integers, FiniteSets

CONSTANTS
    Slots,          \* places for bot processes
    Tasks,          \* the tasks main.py gathers
    CooldownChecks, \* RESTART_COOLDOWN, in checks
    Uptimes,        \* checks the machine may have been up for at the start
    MaxDeaths,      \* bound: how often a process goes away
    MaxMisreads,    \* bound: how often pgrep fails beside a live process
    MaxOperatorStarts, \* bound: how often an operator starts a bot by hand
    MaxPopenFailures \* bound: how often restart_bot fails

ASSUME SlotAssumption == IsFiniteSet(Slots)
ASSUME CooldownAssumption == CooldownChecks \in 0..2 /\ Uptimes \subseteq 0..CooldownChecks
ASSUME BoundAssumption ==
    /\ MaxDeaths \in Nat /\ MaxMisreads \in Nat /\ MaxOperatorStarts \in Nat
    /\ MaxPopenFailures \in Nat

VARIABLES
    bots,       \* state of the process in every slot
    tasks,      \* the tasks of a running process that have not ended
    pc,         \* whether the watchdog sleeps or awaits its death alert
    wasAlive,   \* was_alive
    restarted,  \* whether last_restart has been set; before, it is 0.0, the boot
    checksSince,\* checks since last_restart
    deaths, misreads, operatorStarts, popenFailures

watchdogVars == <<pc, wasAlive, restarted, checksSince, misreads, popenFailures>>
vars == <<bots, tasks, watchdogVars, deaths, operatorStarts>>

Alive == {s \in Slots : bots[s] # "off"}
NoBot == Alive = {}

\* The watchdog is started beside a running bot, or beside none.
Init ==
    /\ \E running \in {{}} \cup {{s} : s \in Slots} :
        /\ bots = [s \in Slots |-> IF s \in running THEN "running" ELSE "off"]
        /\ tasks = [s \in Slots |-> IF s \in running THEN Tasks ELSE {}]
    /\ pc = "asleep"
    /\ wasAlive = TRUE
    /\ restarted = FALSE
    /\ checksSince \in Uptimes
    /\ deaths = 0
    /\ misreads = 0
    /\ operatorStarts = 0
    /\ popenFailures = 0

-----------------------------------------------------------------------------
\* A process is started in a free slot.
Start(s) ==
    /\ bots[s] = "off"
    /\ bots' = [bots EXCEPT ![s] = "starting"]

\* main() has connected every chain and created its tasks.
Started(s) ==
    /\ bots[s] = "starting"
    /\ bots' = [bots EXCEPT ![s] = "running"]
    /\ tasks' = [tasks EXCEPT ![s] = Tasks]
    /\ UNCHANGED <<watchdogVars, deaths, operatorStarts>>

\* _wrap_scraper_task logs what the scraper raises and returns: the task ends,
\* the others go on.
TaskEnds(s, t) ==
    /\ bots[s] = "running" /\ t \in tasks[s]
    /\ tasks' = [tasks EXCEPT ![s] = @ \ {t}]
    /\ UNCHANGED <<bots, watchdogVars, deaths, operatorStarts>>

Goes(s) ==
    /\ deaths < MaxDeaths
    /\ deaths' = deaths + 1
    /\ bots' = [bots EXCEPT ![s] = "off"]
    /\ tasks' = [tasks EXCEPT ![s] = {}]
    /\ UNCHANGED <<watchdogVars, operatorStarts>>

\* gather has returned, main() cleans up and the process exits.
Exits(s) == bots[s] = "running" /\ tasks[s] = {} /\ Goes(s)

\* connect_all or another step before the tasks raises, or the process is
\* killed.
Dies(s) == bots[s] # "off" /\ Goes(s)

\* An operator who sees no bot starts one.
OperatorStarts(s) ==
    /\ operatorStarts < MaxOperatorStarts
    /\ NoBot
    /\ Start(s)
    /\ operatorStarts' = operatorStarts + 1
    /\ UNCHANGED <<tasks, watchdogVars, deaths>>

-----------------------------------------------------------------------------
\* Mutants of PgrepFinds: the watchdog is taken for one of the pids; the
\* length of the list is not looked at.
PgrepFindsAnother == Cardinality(Alive) > 1
PgrepFindsAlways == TRUE

PgrepFinds == ~NoBot

\* bot_is_running: pgrep may fail or time out, which counts as dead.
BotIsRunning(answer) ==
    \/ answer = PgrepFinds /\ UNCHANGED misreads
    \/ /\ PgrepFinds /\ misreads < MaxMisreads
       /\ answer = FALSE
       /\ misreads' = misreads + 1

\* A check that finds the bot dead after one that found it alive goes on with
\* the alert; any other only remembers what it found.
Check ==
    /\ pc = "asleep"
    /\ checksSince' = IF checksSince < CooldownChecks THEN checksSince + 1 ELSE checksSince
    /\ \E alive \in BOOLEAN :
        /\ BotIsRunning(alive)
        /\ IF wasAlive /\ ~alive
           THEN pc' = "alerting" /\ UNCHANGED wasAlive
           ELSE wasAlive' = alive /\ UNCHANGED pc
    /\ UNCHANGED <<bots, tasks, restarted, deaths, operatorStarts, popenFailures>>

\* Mutant of Resume: the death branch skips was_alive = alive.
ResumeRemembering == pc' = "asleep" /\ UNCHANGED wasAlive

Resume == pc' = "asleep" /\ wasAlive' = FALSE

\* last_restart = now.
BeginCooldown == checksSince' = 0

\* The alert is sent, and whatever has happened meanwhile the bot is started.
\* The cooldown begins whether or not Popen succeeds.
Restart ==
    /\ pc = "alerting"
    /\ checksSince >= CooldownChecks
    /\ BeginCooldown
    /\ restarted' = TRUE
    /\ Resume
    /\ \/ (\E s \in Slots : Start(s)) /\ UNCHANGED popenFailures
       \/ /\ popenFailures < MaxPopenFailures
          /\ popenFailures' = popenFailures + 1
          /\ UNCHANGED bots
    /\ UNCHANGED <<tasks, deaths, misreads, operatorStarts>>

\* "Restart cooldown active, skipping".
SkipRestart ==
    /\ pc = "alerting"
    /\ checksSince < CooldownChecks
    /\ Resume
    /\ UNCHANGED <<bots, tasks, restarted, checksSince, misreads, deaths, operatorStarts,
                   popenFailures>>

Loop == Check \/ Restart \/ SkipRestart
Bots == \E s \in Slots : Started(s) \/ Exits(s) \/ Dies(s) \/ \E t \in Tasks : TaskEnds(s, t)
Next == Loop \/ Bots \/ \E s \in Slots : OperatorStarts(s)

Spec == Init /\ [][Next]_vars

\* The watchdog's loop goes on; nothing is promised of the bot.
FairSpec == Spec /\ WF_vars(Loop)

-----------------------------------------------------------------------------
\* Every variable has its type.
TypeOK ==
    /\ bots \in [Slots -> {"off", "starting", "running"}]
    /\ tasks \in [Slots -> SUBSET Tasks]
    /\ pc \in {"asleep", "alerting"}
    /\ wasAlive \in BOOLEAN /\ restarted \in BOOLEAN
    /\ checksSince \in 0..CooldownChecks
    /\ deaths \in 0..MaxDeaths
    /\ misreads \in 0..MaxMisreads
    /\ operatorStarts \in 0..MaxOperatorStarts
    /\ popenFailures \in 0..MaxPopenFailures

\* Two bots at a time, sharing one database and one chat, need a pgrep that
\* failed or an operator who started one between the check and the restart.
InstancesBounded == Cardinality(Alive) <= 1 + misreads + operatorStarts

\* Only the machine's boot can make the cooldown refuse a restart. After a
\* restart it never does: a death is acted on only after a check that found the
\* bot alive, and that check and the next take longer than the cooldown.
CooldownIsOver == pc = "alerting" /\ restarted => checksSince >= CooldownChecks

\* What SeenDeathRestarted rests on: after the first restart every death that is
\* alerted is answered by starting a bot, or by a Popen that fails.
DeathsAnswered ==
    [][pc = "alerting" /\ restarted /\ pc' = "asleep" =>
            popenFailures' > popenFailures \/ \E s \in Slots : bots[s] = "off" /\ bots'[s] = "starting"]_vars

\* The inductive invariants behind the two: a check that found the bot alive
\* came at least one check after the restart; while a death is being alerted,
\* every live process is owed to a failed pgrep or to the operator.
SeenMeansChecked ==
    pc = "asleep" /\ wasAlive /\ restarted => checksSince >= CooldownChecks - 1
AlertedMeansNone ==
    pc = "alerting" => Cardinality(Alive) <= misreads + operatorStarts

WatchdogInv ==
    TypeOK /\ CooldownIsOver /\ SeenMeansChecked /\ InstancesBounded /\ AlertedMeansNone

\* After the first restart, a bot that a check has seen alive and that goes away
\* is started again, unless Popen fails.
SeenDeathRestarted ==
    \A n \in 0..MaxPopenFailures :
        (NoBot /\ wasAlive /\ restarted /\ popenFailures = n)
            ~> (~NoBot \/ popenFailures > n)

\* "monitors the bot process, restarts on crash" (README.md:32). Not true of a
\* bot that goes away before the check that would see it alive.
RestartsOnCrash == NoBot ~> ~NoBot
=============================================================================
