--------------------------- MODULE SolanaScraper ---------------------------
(***************************************************************************)
(* SolanaTokenScraper of data/solana_scraper.py: run_forever, which        *)
(* connects to Helius, subscribes to the logs of Pump.fun, reads messages  *)
(* and awaits the callback for each launch, and the _keepalive task that   *)
(* every connection gets.                                                  *)
(*                                                                         *)
(* The two coroutines interleave at their awaits with each other, with the *)
(* peer and the network, with stop() and with a cancellation of the task,  *)
(* which is how main.py ends it. Launches are numbered in the order they   *)
(* reach the socket; any other message, the answer to the subscription     *)
(* among them, is Other. A notification that raises when it is read counts *)
(* as a launch, for what it told of is lost. The websockets library        *)
(* buffers what arrives and hands over what it has buffered before it      *)
(* reports that the connection was lost.                                   *)
(***************************************************************************)
EXTENDS Integers, Sequences

CONSTANTS
    NumLaunches,    \* bound: launches that are announced
    MaxBuffer,      \* messages the library buffers before it stops reading
    MaxDelay        \* MAX_RECONNECT_DELAY_SECONDS

ASSUME LaunchAssumption == NumLaunches \in Nat
ASSUME BufferAssumption == MaxBuffer \in Nat \ {0}
ASSUME DelayAssumption == MaxDelay \in Nat \ {0}

Launches == 1..NumLaunches
Other == 0

VARIABLES
    phase,          \* where run_forever is suspended
    cause,          \* why the connection is being left
    keepalive,      \* where _keepalive is suspended
    stopped,        \* _stopped
    cancelled,      \* the task's cancel(): "no", "yes", or "swallowed"
    delay           \* reconnect_delay

VARIABLES
    link,           \* the socket: "none", "up", "closed", or "silent" if the peer is
                    \* gone and has not said so
    probed,         \* something was sent over a silent link
    subscription,   \* what the node has made of the request
    inbox           \* messages buffered by the library

VARIABLES           \* history
    arrived,        \* launches that have reached the socket
    handled,        \* launches handed to on_tokens_found, in that order
    discarded,      \* launches that were buffered when their connection was left,
                    \* with the cause
    failures        \* connects that have failed since the last one that did not

runVars  == <<phase, cause, stopped, cancelled, delay>>
linkVars == <<link, probed, subscription, inbox, arrived>>
history  == <<handled, discarded, failures>>
vars     == <<phase, cause, keepalive, stopped, cancelled, delay, link, probed,
              subscription, inbox, arrived, handled, discarded, failures>>

Init ==
    /\ phase = "connecting"
    /\ cause = "none"
    /\ keepalive = "none"
    /\ stopped = FALSE
    /\ cancelled = "no"
    /\ delay = 1
    /\ link = "none"
    /\ probed = FALSE
    /\ subscription = "none"
    /\ inbox = <<>>
    /\ arrived = 0
    /\ handled = <<>>
    /\ discarded = {}
    /\ failures = 0

Buffered == {inbox[i] : i \in 1..Len(inbox)} \ {Other}

\* min(reconnect_delay * 2, MAX_RECONNECT_DELAY_SECONDS)
Doubled(d) == IF d * 2 < MaxDelay THEN d * 2 ELSE MaxDelay

\* Mutants of AfterCleanup: what the callback raises is not caught; a
\* cancellation is.
AfterCleanupRaising ==
    IF stopped \/ cancelled = "yes" \/ cause = "raised" THEN "ended" ELSE "sleeping"
AfterCleanupGoingOn == IF stopped THEN "ended" ELSE "sleeping"

\* What follows the finally clause.
AfterCleanup == IF stopped \/ cancelled = "yes" THEN "ended" ELSE "sleeping"

-----------------------------------------------------------------------------
ConnectSucceeds ==
    /\ phase = "connecting"
    /\ phase' = "subscribing"
    /\ delay' = 1
    /\ failures' = 0
    /\ link' = "up"
    /\ UNCHANGED <<cause, keepalive, stopped, cancelled, probed, subscription, inbox,
                   arrived, handled, discarded>>

\* The exception is caught; there is no task to wait for.
ConnectFails ==
    /\ phase = "connecting"
    /\ phase' = AfterCleanup
    /\ failures' = IF failures < MaxDelay THEN failures + 1 ELSE failures
    /\ UNCHANGED <<cause, keepalive, stopped, cancelled, delay, linkVars, handled, discarded>>

\* The request is written to the socket, whose answer nobody waits for, and
\* the keepalive task is created; it looks at _stopped first.
SubscribeSent ==
    /\ phase = "subscribing"
    /\ link \in {"up", "silent"}
    /\ phase' = "receiving"
    /\ keepalive' = IF stopped THEN "done" ELSE "sleeping"
    /\ subscription' = "asked"
    /\ probed' = (link = "silent")
    /\ UNCHANGED <<cause, stopped, cancelled, delay, link, inbox, arrived, history>>

\* run_forever begins to leave the connection: __aexit__ closes it.
Leave(why) ==
    /\ phase' = "closing"
    /\ cause' = why

SubscribeFails ==
    /\ phase = "subscribing"
    /\ link = "closed"
    /\ Leave("lost")
    /\ UNCHANGED <<keepalive, stopped, cancelled, delay, linkVars, history>>

\* The loop takes the next message. A stop is seen here and nowhere else.
Receive ==
    /\ phase = "receiving"
    /\ inbox # <<>>
    /\ IF stopped
       THEN Leave("stopped") /\ UNCHANGED <<inbox, handled>>
       ELSE /\ inbox' = Tail(inbox)
            /\ IF Head(inbox) = Other
               THEN UNCHANGED <<phase, handled>>
               ELSE phase' = "handling" /\ handled' = Append(handled, Head(inbox))
            /\ UNCHANGED cause
    /\ UNCHANGED <<keepalive, stopped, cancelled, delay, link, probed, subscription,
                   arrived, discarded, failures>>

\* Mutant of ConnectionLost: what is buffered is not read first.
ConnectionLostAtOnce ==
    /\ phase = "receiving"
    /\ link = "closed"
    /\ Leave("lost")
    /\ UNCHANGED <<keepalive, stopped, cancelled, delay, linkVars, history>>

\* The buffer is read empty and the connection is closed: the loop ends,
\* silently or with ConnectionClosedError, which is caught.
ConnectionLost ==
    /\ phase = "receiving"
    /\ inbox = <<>>
    /\ link = "closed"
    /\ Leave("lost")
    /\ UNCHANGED <<keepalive, stopped, cancelled, delay, linkVars, history>>

\* _process_message raises: the result of the notification has a context that
\* is null, and .get of it is not caught. The notification goes with what is
\* buffered behind it; what launch it told of, nobody learns.
MessageRaises ==
    /\ phase = "receiving"
    /\ ~stopped
    /\ inbox # <<>>
    /\ Head(inbox) # Other
    /\ Leave("raised")
    /\ UNCHANGED <<keepalive, stopped, cancelled, delay, linkVars, history>>

CallbackReturns ==
    /\ phase = "handling"
    /\ phase' = "receiving"
    /\ UNCHANGED <<cause, keepalive, stopped, cancelled, delay, linkVars, history>>

\* What the callback raises ends the connection.
CallbackRaises ==
    /\ phase = "handling"
    /\ Leave("raised")
    /\ UNCHANGED <<keepalive, stopped, cancelled, delay, linkVars, history>>

\* The connection is closed and its buffer is gone. The keepalive task, if
\* there is one and it has not returned, is cancelled and waited for.
Closed ==
    /\ phase = "closing"
    /\ phase' = IF keepalive \in {"none", "done"} THEN AfterCleanup ELSE "cleanup"
    /\ keepalive' = IF keepalive \in {"none", "done"} THEN "none" ELSE "cancelling"
    /\ cause' = IF phase' = "cleanup" THEN cause ELSE "none"
    /\ link' = "none"
    /\ probed' = FALSE
    /\ subscription' = "none"
    /\ inbox' = <<>>
    /\ discarded' = discarded \cup {[launch |-> n, cause |-> cause] : n \in Buffered}
    /\ UNCHANGED <<stopped, cancelled, delay, arrived, handled, failures>>

CleanedUp ==
    /\ phase = "cleanup"
    /\ phase' = AfterCleanup
    /\ cause' = "none"
    /\ keepalive' = "none"
    /\ UNCHANGED <<stopped, cancelled, delay, linkVars, history>>

\* Mutant of SleepOver: the delay stays.
SleepOverAtOneSecond ==
    /\ phase = "sleeping"
    /\ phase' = IF stopped THEN "ended" ELSE "connecting"
    /\ UNCHANGED <<cause, keepalive, stopped, cancelled, delay, linkVars, history>>

SleepOver ==
    /\ phase = "sleeping"
    /\ phase' = IF stopped THEN "ended" ELSE "connecting"
    /\ delay' = Doubled(delay)
    /\ UNCHANGED <<cause, keepalive, stopped, cancelled, linkVars, history>>

-----------------------------------------------------------------------------
\* Mutant of Ping: nothing is sent.
PingNothing ==
    /\ keepalive = "sleeping"
    /\ UNCHANGED vars

\* _keepalive: the sleep is over and a ping is sent.
Ping ==
    /\ keepalive = "sleeping"
    /\ keepalive' = IF link = "closed" THEN "done" ELSE "awaiting_pong"
    /\ probed' = (link = "silent")
    /\ UNCHANGED <<runVars, link, subscription, inbox, arrived, history>>

\* Mutant of Pong: a stop does not end the task.
PongForEver ==
    /\ keepalive = "awaiting_pong"
    /\ link = "up"
    /\ Len(inbox) < MaxBuffer
    /\ keepalive' = "sleeping"
    /\ UNCHANGED <<runVars, linkVars, history>>

\* The pong is read, which takes room in the buffer like any frame before it.
Pong ==
    /\ keepalive = "awaiting_pong"
    /\ link = "up"
    /\ Len(inbox) < MaxBuffer
    /\ keepalive' = IF stopped THEN "done" ELSE "sleeping"
    /\ UNCHANGED <<runVars, linkVars, history>>

\* The connection closes while the pong is awaited, which has no timeout.
PongFails ==
    /\ keepalive = "awaiting_pong"
    /\ link = "closed"
    /\ keepalive' = "done"
    /\ UNCHANGED <<runVars, linkVars, history>>

-----------------------------------------------------------------------------
\* stop(): the coroutine that websocket.close() returns is never awaited, and
\* nothing is closed.
Stop ==
    /\ ~stopped
    /\ phase # "ended"
    /\ stopped' = TRUE
    /\ UNCHANGED <<phase, cause, keepalive, cancelled, delay, linkVars, history>>

\* Mutant of Cancel: the connection is not left through its finally clause.
CancelAbruptly ==
    /\ cancelled = "no"
    /\ phase # "ended"
    /\ cancelled' = "yes"
    /\ phase' = "ended"
    /\ UNCHANGED <<cause, keepalive, stopped, delay, linkVars, history>>

\* task.cancel(). While the connection is open the exception passes through
\* __aexit__ and the finally clause. There, where the cancelled keepalive task
\* is waited for, it is taken for that task's own and caught.
Cancel ==
    /\ cancelled = "no"
    /\ \/ /\ phase \in {"connecting", "sleeping"}
          /\ phase' = "ended"
          /\ cancelled' = "yes"
          /\ UNCHANGED cause
       \/ /\ phase \in {"subscribing", "receiving", "handling", "closing"}
          /\ Leave("cancelled")
          /\ cancelled' = "yes"
       \/ /\ phase = "cleanup"
          /\ cancelled' = "swallowed"
          /\ UNCHANGED <<phase, cause>>
    /\ UNCHANGED <<keepalive, stopped, delay, linkVars, history>>

-----------------------------------------------------------------------------
\* A message reaches the socket, if the library is reading.
Deliver(message) ==
    /\ link = "up"
    /\ Len(inbox) < MaxBuffer
    /\ inbox' = Append(inbox, message)
    /\ UNCHANGED <<phase, cause, keepalive, stopped, cancelled, delay, link, probed, history>>

\* The node answers the subscription. An error answer is ignored like any
\* other message, and the connection stays open without launches.
Answer ==
    /\ subscription = "asked"
    /\ Deliver(Other)
    /\ subscription' \in {"accepted", "rejected"}
    /\ UNCHANGED arrived

Announce ==
    /\ subscription = "accepted"
    /\ arrived < NumLaunches
    /\ Deliver(arrived + 1)
    /\ arrived' = arrived + 1
    /\ UNCHANGED subscription

Breaks(state) ==
    /\ link = "up"
    /\ link' = state
    /\ UNCHANGED <<runVars, keepalive, probed, subscription, inbox, arrived, history>>

\* The connection is closed by the peer or reset; the peer closes one that
\* nobody pings; or the peer disappears.
Disconnect == Breaks("closed")
CloseIdle == keepalive \in {"none", "done"} /\ Breaks("closed")
Vanish == Breaks("silent")

\* What was sent is not acknowledged, and the kernel gives the socket up.
Detect ==
    /\ link = "silent"
    /\ probed
    /\ link' = "closed"
    /\ probed' = FALSE
    /\ UNCHANGED <<runVars, keepalive, subscription, inbox, arrived, history>>

-----------------------------------------------------------------------------
Run ==
    \/ ConnectSucceeds \/ ConnectFails
    \/ SubscribeSent \/ SubscribeFails
    \/ Receive \/ MessageRaises \/ ConnectionLost
    \/ CallbackReturns \/ CallbackRaises
    \/ Closed \/ CleanedUp \/ SleepOver

Keepalive == Ping \/ Pong \/ PongFails

Next ==
    \/ Run
    \/ Keepalive
    \/ Stop \/ Cancel
    \/ Answer \/ Announce
    \/ Disconnect \/ CloseIdle \/ Vanish \/ Detect

Spec == Init /\ [][Next]_vars

\* Both coroutines go on, for the library has timeouts for opening and closing
\* and the callback returns; a peer that is there answers pings; a connection
\* that nobody pings is closed as idle (solana_scraper.py:150). Connecting and
\* subscribing do not fail for ever. Nobody need announce, stop or cancel.
Fairness ==
    /\ WF_vars(Run)
    /\ WF_vars(Keepalive)
    /\ WF_vars(CloseIdle)
    /\ WF_vars(Detect)
    /\ SF_vars(ConnectSucceeds)
    /\ SF_vars(SubscribeSent)

FairSpec == Spec /\ Fairness

-----------------------------------------------------------------------------
Causes == {"lost", "raised", "stopped", "cancelled"}

\* Every variable has its type.
TypeOK ==
    /\ phase \in {"connecting", "subscribing", "receiving", "handling", "closing",
                  "cleanup", "sleeping", "ended"}
    /\ cause \in Causes \cup {"none"}
    /\ keepalive \in {"none", "sleeping", "awaiting_pong", "done", "cancelling"}
    /\ stopped \in BOOLEAN
    /\ cancelled \in {"no", "yes", "swallowed"}
    /\ delay \in 1..MaxDelay
    /\ link \in {"none", "up", "silent", "closed"}
    /\ probed \in BOOLEAN
    /\ subscription \in {"none", "asked", "accepted", "rejected"}
    /\ inbox \in Seq(Launches \cup {Other})
    /\ arrived \in 0..NumLaunches
    /\ handled \in Seq(Launches)
    /\ discarded \subseteq [launch : Launches, cause : Causes]
    /\ failures \in 0..MaxDelay

\* Whatever raises and whoever cancels, no keepalive task and no socket
\* outlives its connection: there is one of each at most (a ping task of an
\* earlier connection would ping, or fail, beside the new one).
NothingOutlivesConnection ==
    /\ phase \in {"connecting", "sleeping", "ended"} => keepalive = "none" /\ link = "none"
    /\ phase = "subscribing" => keepalive = "none"
    /\ keepalive = "cancelling" <=> phase = "cleanup"

Handled == {handled[i] : i \in 1..Len(handled)}
Discarded == {d.launch : d \in discarded}

\* A launch that has reached the socket is handed over unless a callback or a
\* message that raised, a stop or a cancellation ended its connection: a lost
\* connection alone discards nothing, however many launches were buffered
\* behind a slow callback. Launches are handed over in order, none twice.
LaunchesAccounted ==
    /\ 1..arrived = Handled \cup Buffered \cup Discarded
    /\ \A i, j \in 1..Len(handled) : i < j => handled[i] < handled[j]
    /\ \A d \in discarded : d.cause # "lost"

\* The launches go through the scraper as through LaunchFeed: always the oldest
\* that waits is handed over, and one that was dropped with its connection does
\* not come back on a later one.
Feed == INSTANCE LaunchFeed WITH waiting <- Buffered, handed <- handled, dropped <- Discarded

ImplementsFeed == Feed!FeedSpec

\* The pause before a connect doubles with every connect that has failed since
\* the last that succeeded, up to the maximum, and from two seconds on if there
\* was one. Nothing else makes it grow: a subscription or a callback that fails
\* each time is retried every other second.
UpToMax(d) == IF d < MaxDelay THEN d ELSE MaxDelay

PowerOfTwo[n \in 0..(MaxDelay + 1)] == IF n = 0 THEN 1 ELSE 2 * PowerOfTwo[n - 1]

PauseFollowsFailures ==
    phase = "connecting" =>
        delay \in {UpToMax(PowerOfTwo[failures]), UpToMax(PowerOfTwo[failures + 1])}

\* A connection that is left, for whatever reason, is followed by another that
\* listens, unless somebody stops or cancels the scraper.
ListensAgain ==
    phase = "closing" ~> phase = "receiving" \/ stopped \/ cancelled # "no"

\* stop() ends the scraper, although it closes nothing: with the next message,
\* or because the keepalive task ends and the peer closes the idle connection.
\* Not if the peer disappears, for nobody pings it any more.
StopEnds == stopped ~> phase = "ended" \/ link = "silent"

\* A cancellation ends the scraper, unless the finally clause swallows it: then
\* the scraper connects again and main.py:446 waits for it for ever.
CancelEnds == cancelled = "yes" ~> phase = "ended"

\* A peer that disappears between two pings is noticed. One that disappears
\* while a pong is awaited is not: nothing is sent any more.
VanishedPeerNoticed ==
    link = "silent" /\ keepalive = "sleeping" ~> link # "silent"

-----------------------------------------------------------------------------
(* The inductive invariant: what the proofs add to the properties above.   *)

\* What run_forever's place says of its connection and of the task beside it.
ConnectionOK ==
    /\ link = "none" <=> phase \in {"connecting", "cleanup", "sleeping", "ended"}
    /\ phase = "subscribing" => subscription = "none"
    /\ link = "none" => subscription = "none"
    /\ subscription = "none" => inbox = <<>>
    /\ phase \in {"receiving", "handling"} => keepalive \in {"sleeping", "awaiting_pong", "done"}
    /\ phase = "closing" => cause \in Causes
    /\ phase = "closing" /\ cause = "lost" => inbox = <<>> /\ link = "closed"

\* What is buffered was announced after what was handed over, and in its order.
InboxOK ==
    /\ \A i, j \in 1..Len(inbox) :
          i < j /\ inbox[i] # Other /\ inbox[j] # Other => inbox[i] < inbox[j]
    /\ \A i \in 1..Len(handled) : \A j \in 1..Len(inbox) :
          inbox[j] # Other => handled[i] < inbox[j]

\* A connection that was made is the last success; a failure is slept on with the
\* pause that went before it.
DelayOK ==
    /\ phase \in {"subscribing", "receiving", "handling", "closing", "cleanup"} =>
          failures = 0 /\ delay = 1
    /\ phase = "sleeping" =>
          \/ delay = UpToMax(PowerOfTwo[failures])
          \/ failures > 0 /\ delay = UpToMax(PowerOfTwo[failures - 1])

SolanaInv == TypeOK /\ NothingOutlivesConnection /\ ConnectionOK /\ InboxOK /\ LaunchesAccounted

PauseInv == SolanaInv /\ DelayOK /\ PauseFollowsFailures
=============================================================================
