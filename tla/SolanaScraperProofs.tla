------------------------ MODULE SolanaScraperProofs ------------------------
(***************************************************************************)
(* Proofs about SolanaScraper, for any number of launches, any buffer and  *)
(* any maximal delay.                                                      *)
(***************************************************************************)
EXTENDS SolanaScraper, WellFoundedInduction, TLAPS

LEMMA InitSolana == Init => SolanaInv
<1> SUFFICES ASSUME Init PROVE SolanaInv
    OBVIOUS
<1>1. TypeOK
    <2>1. inbox \in Seq(Launches \cup {Other}) /\ handled \in Seq(Launches)
        BY DEF Init
    <2>2. arrived \in 0..NumLaunches /\ delay \in 1..MaxDelay /\ failures \in 0..MaxDelay
        BY LaunchAssumption, DelayAssumption DEF Init
    <2> QED
        BY <2>1, <2>2 DEF Init, TypeOK
<1>2. NothingOutlivesConnection /\ ConnectionOK /\ InboxOK
    BY DEF Init, NothingOutlivesConnection, ConnectionOK, InboxOK
<1>3. LaunchesAccounted
    BY LaunchAssumption DEF Init, LaunchesAccounted, Handled, Buffered, Discarded
<1> QED
    BY <1>1, <1>2, <1>3 DEF SolanaInv

\* A step that moves no message keeps the books of the launches.
LEMMA SameMessages ==
    ASSUME SolanaInv, UNCHANGED <<inbox, arrived, handled, discarded>>
    PROVE  InboxOK' /\ LaunchesAccounted'
BY DEF SolanaInv, InboxOK, LaunchesAccounted, Handled, Buffered, Discarded

\* Doubling stays within the maximum.
LEMMA DoubledType == ASSUME NEW d \in 1..MaxDelay PROVE Doubled(d) \in 1..MaxDelay
BY DelayAssumption DEF Doubled

-----------------------------------------------------------------------------
Elements(s) == {s[i] : i \in 1..Len(s)}

\* Taking the first message leaves the others.
LEMMA ElementsOfTail ==
    ASSUME NEW S, NEW s \in Seq(S), s # <<>>
    PROVE  /\ Tail(s) \in Seq(S) /\ Head(s) \in S /\ Head(s) = s[1]
           /\ Len(s) \in Nat \ {0} /\ Len(Tail(s)) = Len(s) - 1
           /\ \A i \in 1..Len(Tail(s)) : Tail(s)[i] = s[i + 1]
           /\ Elements(s) = {Head(s)} \cup Elements(Tail(s))
<1>1. /\ Tail(s) \in Seq(S) /\ Head(s) \in S /\ Head(s) = s[1]
      /\ Len(s) \in Nat \ {0} /\ Len(Tail(s)) = Len(s) - 1
      /\ \A i \in 1..Len(Tail(s)) : Tail(s)[i] = s[i + 1]
    OBVIOUS
<1>2. ASSUME NEW i \in 1..Len(s) PROVE s[i] \in {Head(s)} \cup Elements(Tail(s))
    <2>1. CASE i = 1
        BY <1>1, <2>1
    <2>2. CASE i # 1
        <3>1. i - 1 \in 1..Len(Tail(s)) /\ (i - 1) + 1 = i
            BY <1>1, <2>2
        <3>2. s[i] = Tail(s)[i - 1]
            BY <1>1, <3>1
        <3> QED
            BY <3>1, <3>2 DEF Elements
    <2> QED
        BY <2>1, <2>2
<1>3. ASSUME NEW i \in 1..Len(Tail(s)) PROVE Tail(s)[i] \in Elements(s)
    <2>1. i + 1 \in 1..Len(s)
        BY <1>1
    <2> QED
        BY <1>1, <2>1 DEF Elements
<1>4. Head(s) \in Elements(s)
    BY <1>1 DEF Elements
<1>5. Elements(s) \subseteq {Head(s)} \cup Elements(Tail(s))
    BY <1>2 DEF Elements
<1>6. Elements(Tail(s)) \subseteq Elements(s)
    BY <1>3 DEF Elements
<1> QED
    BY <1>1, <1>4, <1>5, <1>6

LEMMA ElementsOfAppend ==
    ASSUME NEW S, NEW s \in Seq(S), NEW e \in S
    PROVE  /\ Append(s, e) \in Seq(S) /\ Len(s) \in Nat /\ Len(Append(s, e)) = Len(s) + 1
           /\ \A i \in 1..Len(s) : Append(s, e)[i] = s[i]
           /\ Append(s, e)[Len(s) + 1] = e
           /\ Elements(Append(s, e)) = Elements(s) \cup {e}
<1>1. /\ Append(s, e) \in Seq(S) /\ Len(s) \in Nat /\ Len(Append(s, e)) = Len(s) + 1
      /\ \A i \in 1..Len(s) : Append(s, e)[i] = s[i]
      /\ Append(s, e)[Len(s) + 1] = e
    OBVIOUS
<1>2. 1..Len(Append(s, e)) = 1..Len(s) \cup {Len(s) + 1}
    BY <1>1
<1> QED
    BY <1>1, <1>2 DEF Elements

\* The books in these terms.
LEMMA Books ==
    /\ Handled = Elements(handled)
    /\ Buffered = Elements(inbox) \ {Other}
BY DEF Handled, Buffered, Elements

\* What is buffered or was handed over has arrived.
LEMMA ArrivedBefore ==
    ASSUME SolanaInv
    PROVE  /\ \A i \in 1..Len(inbox) : inbox[i] # Other => inbox[i] \in 1..arrived
           /\ \A i \in 1..Len(handled) : handled[i] \in 1..arrived
BY DEF SolanaInv, LaunchesAccounted, Handled, Buffered

-----------------------------------------------------------------------------
LEMMA ConnectSucceedsKeeps == ASSUME SolanaInv, ConnectSucceeds PROVE SolanaInv'
<1> USE DEF ConnectSucceeds, runVars, linkVars, history
<1>1. TypeOK'
    BY DelayAssumption DEF SolanaInv, TypeOK
<1>2. NothingOutlivesConnection'
    BY DEF SolanaInv, NothingOutlivesConnection, ConnectionOK, TypeOK
<1>3. ConnectionOK'
    BY DEF SolanaInv, NothingOutlivesConnection, ConnectionOK, TypeOK
<1>4. InboxOK' /\ LaunchesAccounted'
    BY SameMessages
<1> QED
    BY <1>1, <1>2, <1>3, <1>4 DEF SolanaInv

LEMMA ConnectFailsKeeps == ASSUME SolanaInv, ConnectFails PROVE SolanaInv'
<1> USE DEF ConnectFails, runVars, linkVars, history, AfterCleanup
<1>1. TypeOK'
    BY DelayAssumption DEF SolanaInv, TypeOK
<1>2. NothingOutlivesConnection'
    BY DEF SolanaInv, NothingOutlivesConnection, ConnectionOK, TypeOK
<1>3. ConnectionOK'
    BY DEF SolanaInv, NothingOutlivesConnection, ConnectionOK, TypeOK
<1>4. InboxOK' /\ LaunchesAccounted'
    BY SameMessages
<1> QED
    BY <1>1, <1>2, <1>3, <1>4 DEF SolanaInv

LEMMA SubscribeSentKeeps == ASSUME SolanaInv, SubscribeSent PROVE SolanaInv'
<1> USE DEF SubscribeSent, runVars, linkVars, history
<1>1. TypeOK'
    BY DEF SolanaInv, TypeOK
<1>2. NothingOutlivesConnection'
    BY DEF SolanaInv, NothingOutlivesConnection, ConnectionOK, TypeOK
<1>3. ConnectionOK'
    BY DEF SolanaInv, NothingOutlivesConnection, ConnectionOK, TypeOK
<1>4. InboxOK' /\ LaunchesAccounted'
    BY SameMessages
<1> QED
    BY <1>1, <1>2, <1>3, <1>4 DEF SolanaInv

LEMMA SubscribeFailsKeeps == ASSUME SolanaInv, SubscribeFails PROVE SolanaInv'
<1> USE DEF SubscribeFails, runVars, linkVars, history, Leave, Causes
<1>1. TypeOK'
    BY DEF SolanaInv, TypeOK
<1>2. NothingOutlivesConnection'
    BY DEF SolanaInv, NothingOutlivesConnection, ConnectionOK, TypeOK
<1>3. ConnectionOK'
    BY DEF SolanaInv, NothingOutlivesConnection, ConnectionOK, TypeOK
<1>4. InboxOK' /\ LaunchesAccounted'
    BY SameMessages
<1> QED
    BY <1>1, <1>2, <1>3, <1>4 DEF SolanaInv

LEMMA ConnectionLostKeeps == ASSUME SolanaInv, ConnectionLost PROVE SolanaInv'
<1> USE DEF ConnectionLost, runVars, linkVars, history, Leave, Causes
<1>1. TypeOK'
    BY DEF SolanaInv, TypeOK
<1>2. NothingOutlivesConnection'
    BY DEF SolanaInv, NothingOutlivesConnection, ConnectionOK, TypeOK
<1>3. ConnectionOK'
    BY DEF SolanaInv, NothingOutlivesConnection, ConnectionOK, TypeOK
<1>4. InboxOK' /\ LaunchesAccounted'
    BY SameMessages
<1> QED
    BY <1>1, <1>2, <1>3, <1>4 DEF SolanaInv

LEMMA CallbackReturnsKeeps == ASSUME SolanaInv, CallbackReturns PROVE SolanaInv'
<1> USE DEF CallbackReturns, runVars, linkVars, history
<1>1. TypeOK'
    BY DEF SolanaInv, TypeOK
<1>2. NothingOutlivesConnection'
    BY DEF SolanaInv, NothingOutlivesConnection, ConnectionOK, TypeOK
<1>3. ConnectionOK'
    BY DEF SolanaInv, NothingOutlivesConnection, ConnectionOK, TypeOK
<1>4. InboxOK' /\ LaunchesAccounted'
    BY SameMessages
<1> QED
    BY <1>1, <1>2, <1>3, <1>4 DEF SolanaInv

LEMMA CallbackRaisesKeeps == ASSUME SolanaInv, CallbackRaises PROVE SolanaInv'
<1> USE DEF CallbackRaises, runVars, linkVars, history, Leave, Causes
<1>1. TypeOK'
    BY DEF SolanaInv, TypeOK
<1>2. NothingOutlivesConnection'
    BY DEF SolanaInv, NothingOutlivesConnection, ConnectionOK, TypeOK
<1>3. ConnectionOK'
    BY DEF SolanaInv, NothingOutlivesConnection, ConnectionOK, TypeOK
<1>4. InboxOK' /\ LaunchesAccounted'
    BY SameMessages
<1> QED
    BY <1>1, <1>2, <1>3, <1>4 DEF SolanaInv

LEMMA MessageRaisesKeeps == ASSUME SolanaInv, MessageRaises PROVE SolanaInv'
<1> USE DEF MessageRaises, runVars, linkVars, history, Leave, Causes
<1>1. TypeOK'
    BY DEF SolanaInv, TypeOK
<1>2. NothingOutlivesConnection'
    BY DEF SolanaInv, NothingOutlivesConnection, ConnectionOK, TypeOK
<1>3. ConnectionOK'
    BY DEF SolanaInv, NothingOutlivesConnection, ConnectionOK, TypeOK
<1>4. InboxOK' /\ LaunchesAccounted'
    BY SameMessages
<1> QED
    BY <1>1, <1>2, <1>3, <1>4 DEF SolanaInv

LEMMA CleanedUpKeeps == ASSUME SolanaInv, CleanedUp PROVE SolanaInv'
<1> USE DEF CleanedUp, runVars, linkVars, history, AfterCleanup
<1>1. TypeOK'
    BY DEF SolanaInv, TypeOK
<1>2. NothingOutlivesConnection'
    BY DEF SolanaInv, NothingOutlivesConnection, ConnectionOK, TypeOK
<1>3. ConnectionOK'
    BY DEF SolanaInv, NothingOutlivesConnection, ConnectionOK, TypeOK
<1>4. InboxOK' /\ LaunchesAccounted'
    BY SameMessages
<1> QED
    BY <1>1, <1>2, <1>3, <1>4 DEF SolanaInv

LEMMA SleepOverKeeps == ASSUME SolanaInv, SleepOver PROVE SolanaInv'
<1> USE DEF SleepOver, runVars, linkVars, history
<1>1. TypeOK'
    BY DoubledType DEF SolanaInv, TypeOK
<1>2. NothingOutlivesConnection'
    BY DEF SolanaInv, NothingOutlivesConnection, ConnectionOK, TypeOK
<1>3. ConnectionOK'
    BY DEF SolanaInv, NothingOutlivesConnection, ConnectionOK, TypeOK
<1>4. InboxOK' /\ LaunchesAccounted'
    BY SameMessages
<1> QED
    BY <1>1, <1>2, <1>3, <1>4 DEF SolanaInv

LEMMA PingKeeps == ASSUME SolanaInv, Ping PROVE SolanaInv'
<1> USE DEF Ping, runVars, linkVars, history
<1>1. TypeOK'
    BY DEF SolanaInv, TypeOK
<1>2. NothingOutlivesConnection'
    BY DEF SolanaInv, NothingOutlivesConnection, ConnectionOK, TypeOK
<1>3. ConnectionOK'
    BY DEF SolanaInv, NothingOutlivesConnection, ConnectionOK, TypeOK
<1>4. InboxOK' /\ LaunchesAccounted'
    BY SameMessages
<1> QED
    BY <1>1, <1>2, <1>3, <1>4 DEF SolanaInv

LEMMA PongKeeps == ASSUME SolanaInv, Pong PROVE SolanaInv'
<1> USE DEF Pong, runVars, linkVars, history
<1>1. TypeOK'
    BY DEF SolanaInv, TypeOK
<1>2. NothingOutlivesConnection'
    BY DEF SolanaInv, NothingOutlivesConnection, ConnectionOK, TypeOK
<1>3. ConnectionOK'
    BY DEF SolanaInv, NothingOutlivesConnection, ConnectionOK, TypeOK
<1>4. InboxOK' /\ LaunchesAccounted'
    BY SameMessages
<1> QED
    BY <1>1, <1>2, <1>3, <1>4 DEF SolanaInv

LEMMA PongFailsKeeps == ASSUME SolanaInv, PongFails PROVE SolanaInv'
<1> USE DEF PongFails, runVars, linkVars, history
<1>1. TypeOK'
    BY DEF SolanaInv, TypeOK
<1>2. NothingOutlivesConnection'
    BY DEF SolanaInv, NothingOutlivesConnection, ConnectionOK, TypeOK
<1>3. ConnectionOK'
    BY DEF SolanaInv, NothingOutlivesConnection, ConnectionOK, TypeOK
<1>4. InboxOK' /\ LaunchesAccounted'
    BY SameMessages
<1> QED
    BY <1>1, <1>2, <1>3, <1>4 DEF SolanaInv

LEMMA StopKeeps == ASSUME SolanaInv, Stop PROVE SolanaInv'
<1> USE DEF Stop, runVars, linkVars, history
<1>1. TypeOK'
    BY DEF SolanaInv, TypeOK
<1>2. NothingOutlivesConnection'
    BY DEF SolanaInv, NothingOutlivesConnection, ConnectionOK, TypeOK
<1>3. ConnectionOK'
    BY DEF SolanaInv, NothingOutlivesConnection, ConnectionOK, TypeOK
<1>4. InboxOK' /\ LaunchesAccounted'
    BY SameMessages
<1> QED
    BY <1>1, <1>2, <1>3, <1>4 DEF SolanaInv

LEMMA CancelKeeps == ASSUME SolanaInv, Cancel PROVE SolanaInv'
<1> USE DEF Cancel, runVars, linkVars, history, Leave, Causes
<1>1. TypeOK'
    BY DEF SolanaInv, TypeOK
<1>2. NothingOutlivesConnection'
    BY DEF SolanaInv, NothingOutlivesConnection, ConnectionOK, TypeOK
<1>3. ConnectionOK'
    BY DEF SolanaInv, NothingOutlivesConnection, ConnectionOK, TypeOK
<1>4. InboxOK' /\ LaunchesAccounted'
    BY SameMessages
<1> QED
    BY <1>1, <1>2, <1>3, <1>4 DEF SolanaInv

LEMMA BreaksKeeps == ASSUME SolanaInv, NEW s \in {"closed", "silent"}, Breaks(s) PROVE SolanaInv'
<1> USE DEF Breaks, runVars, linkVars, history
<1>1. TypeOK'
    BY DEF SolanaInv, TypeOK
<1>2. NothingOutlivesConnection'
    BY DEF SolanaInv, NothingOutlivesConnection, ConnectionOK, TypeOK
<1>3. ConnectionOK'
    BY DEF SolanaInv, NothingOutlivesConnection, ConnectionOK, TypeOK
<1>4. InboxOK' /\ LaunchesAccounted'
    BY SameMessages
<1> QED
    BY <1>1, <1>2, <1>3, <1>4 DEF SolanaInv

LEMMA DetectKeeps == ASSUME SolanaInv, Detect PROVE SolanaInv'
<1> USE DEF Detect, runVars, linkVars, history
<1>1. TypeOK'
    BY DEF SolanaInv, TypeOK
<1>2. NothingOutlivesConnection'
    BY DEF SolanaInv, NothingOutlivesConnection, ConnectionOK, TypeOK
<1>3. ConnectionOK'
    BY DEF SolanaInv, NothingOutlivesConnection, ConnectionOK, TypeOK
<1>4. InboxOK' /\ LaunchesAccounted'
    BY SameMessages
<1> QED
    BY <1>1, <1>2, <1>3, <1>4 DEF SolanaInv
-----------------------------------------------------------------------------
\* The first of the buffered launches is handed over: later than all before it,
\* earlier than all behind it.
LEMMA ReceiveKeeps == ASSUME SolanaInv, Receive PROVE SolanaInv'
<1>1. CASE stopped
    <2> USE <1>1 DEF Receive, Leave, Causes
    <2>1. TypeOK'
        BY DEF SolanaInv, TypeOK
    <2>2. NothingOutlivesConnection'
        BY DEF SolanaInv, NothingOutlivesConnection, ConnectionOK, TypeOK
    <2>3. ConnectionOK'
        BY DEF SolanaInv, NothingOutlivesConnection, ConnectionOK, TypeOK
    <2>4. InboxOK' /\ LaunchesAccounted'
        BY SameMessages
    <2> QED
        BY <2>1, <2>2, <2>3, <2>4 DEF SolanaInv
<1>2. CASE ~stopped
    <2>1. /\ phase = "receiving" /\ inbox # <<>> /\ inbox' = Tail(inbox)
          /\ UNCHANGED <<cause, keepalive, stopped, cancelled, delay, link, probed,
                         subscription, arrived, discarded, failures>>
        BY <1>2 DEF Receive
    <2>2. \/ Head(inbox) = Other /\ phase' = phase /\ handled' = handled
          \/ Head(inbox) # Other /\ phase' = "handling" /\ handled' = Append(handled, Head(inbox))
        BY <1>2 DEF Receive
    <2>3. inbox \in Seq(Launches \cup {Other}) /\ handled \in Seq(Launches)
        BY DEF SolanaInv, TypeOK
    <2>4. /\ inbox' \in Seq(Launches \cup {Other}) /\ Head(inbox) \in Launches \cup {Other}
          /\ Head(inbox) = inbox[1] /\ Len(inbox) \in Nat \ {0} /\ Len(inbox') = Len(inbox) - 1
          /\ \A i \in 1..Len(inbox') : inbox'[i] = inbox[i + 1]
          /\ Elements(inbox) = {Head(inbox)} \cup Elements(inbox')
        BY <2>1, <2>3, ElementsOfTail
    <2>5. \A i \in 1..Len(inbox') : i + 1 \in 1..Len(inbox) /\ 1 < i + 1
        BY <2>4
    <2>6. Head(inbox) # Other =>
             /\ handled' \in Seq(Launches) /\ Len(handled) \in Nat
             /\ Len(handled') = Len(handled) + 1
             /\ \A i \in 1..Len(handled) : handled'[i] = handled[i]
             /\ handled'[Len(handled) + 1] = Head(inbox)
             /\ Elements(handled') = Elements(handled) \cup {Head(inbox)}
        <3>1. SUFFICES ASSUME Head(inbox) # Other
                       PROVE  /\ handled' \in Seq(Launches) /\ Len(handled) \in Nat
                              /\ Len(handled') = Len(handled) + 1
                              /\ \A i \in 1..Len(handled) : handled'[i] = handled[i]
                              /\ handled'[Len(handled) + 1] = Head(inbox)
                              /\ Elements(handled') = Elements(handled) \cup {Head(inbox)}
            OBVIOUS
        <3>2. Head(inbox) \in Launches /\ handled' = Append(handled, Head(inbox))
            BY <2>2, <2>4, <3>1
        <3> QED
            BY <2>3, <3>2, ElementsOfAppend
    <2>7. TypeOK'
        BY <2>1, <2>2, <2>4, <2>6 DEF SolanaInv, TypeOK
    <2>8. NothingOutlivesConnection' /\ ConnectionOK'
        BY <2>1, <2>2 DEF SolanaInv, NothingOutlivesConnection, ConnectionOK
    <2>9. InboxOK'
        <3>1. ASSUME NEW i \in 1..Len(inbox'), NEW j \in 1..Len(inbox'), i < j,
                     inbox'[i] # Other, inbox'[j] # Other
              PROVE  inbox'[i] < inbox'[j]
            BY <2>4, <2>5, <3>1 DEF SolanaInv, InboxOK
        <3>2. ASSUME NEW i \in 1..Len(handled'), NEW j \in 1..Len(inbox'), inbox'[j] # Other
              PROVE  handled'[i] < inbox'[j]
            <4>1. inbox'[j] = inbox[j + 1] /\ j + 1 \in 1..Len(inbox) /\ 1 < j + 1
                BY <2>4, <2>5
            <4>2. CASE i \in 1..Len(handled) /\ handled'[i] = handled[i]
                BY <3>2, <4>1, <4>2 DEF SolanaInv, InboxOK
            <4>3. CASE handled'[i] = inbox[1] /\ inbox[1] # Other
                <5>1. 1 \in 1..Len(inbox)
                    BY <2>4
                <5> QED
                    BY <3>2, <4>1, <4>3, <5>1 DEF SolanaInv, InboxOK
            <4>4. CASE Head(inbox) = Other
                BY <2>2, <3>2, <4>2, <4>4
            <4>5. CASE Head(inbox) # Other
                <5>1. i \in 1..Len(handled) \/ i = Len(handled) + 1
                    BY <2>6, <3>2, <4>5
                <5> QED
                    BY <2>4, <2>6, <4>2, <4>3, <4>5, <5>1
            <4> QED
                BY <4>4, <4>5
        <3> QED
            BY <3>1, <3>2 DEF InboxOK
    <2>10. LaunchesAccounted'
        <3>1. (Handled \cup Buffered)' = Handled \cup Buffered
            <4>1. CASE Head(inbox) = Other
                <5>1. handled' = handled
                    BY <2>2, <4>1
                <5>2. Elements(inbox') \ {Other} = Elements(inbox) \ {Other}
                    BY <2>4, <4>1
                <5> QED
                    BY <5>1, <5>2 DEF Handled, Buffered, Elements
            <4>2. CASE Head(inbox) # Other
                BY <2>4, <2>6, <4>2 DEF Handled, Buffered, Elements
            <4> QED
                BY <4>1, <4>2
        <3>2. Discarded' = Discarded /\ arrived' = arrived /\ discarded' = discarded
            BY <2>1 DEF Discarded
        <3>3. ASSUME NEW i \in 1..Len(handled'), NEW j \in 1..Len(handled'), i < j
              PROVE  handled'[i] < handled'[j]
            <4>1. CASE Head(inbox) = Other
                BY <2>2, <3>3, <4>1 DEF SolanaInv, LaunchesAccounted
            <4>2. CASE Head(inbox) # Other
                <5>1. i \in 1..Len(handled) /\ handled'[i] = handled[i]
                    BY <2>6, <3>3, <4>2
                <5>2. CASE j \in 1..Len(handled)
                    BY <2>6, <3>3, <4>2, <5>1, <5>2 DEF SolanaInv, LaunchesAccounted
                <5>3. CASE j = Len(handled) + 1
                    <6>1. handled'[j] = inbox[1] /\ 1 \in 1..Len(inbox)
                        BY <2>4, <2>6, <4>2, <5>3
                    <6> QED
                        BY <2>4, <4>2, <5>1, <6>1 DEF SolanaInv, InboxOK
                <5> QED
                    BY <2>6, <4>2, <5>2, <5>3
            <4> QED
                BY <4>1, <4>2
        <3> QED
            BY <3>1, <3>2, <3>3 DEF SolanaInv, LaunchesAccounted
    <2> QED
        BY <2>7, <2>8, <2>9, <2>10 DEF SolanaInv
<1> QED
    BY <1>1, <1>2

\* The buffer goes with the connection, and was read empty if that was lost.
LEMMA ClosedKeeps == ASSUME SolanaInv, Closed PROVE SolanaInv'
<1>1. /\ phase = "closing" /\ inbox' = <<>> /\ link' = "none" /\ subscription' = "none"
      /\ probed' = FALSE
      /\ UNCHANGED <<stopped, cancelled, delay, arrived, handled, failures>>
      /\ discarded' = discarded \cup {[launch |-> n, cause |-> cause] : n \in Buffered}
    BY DEF Closed
<1>2. \/ /\ phase' \in {"ended", "sleeping"} /\ keepalive' = "none" /\ cause' = "none"
      \/ /\ phase' = "cleanup" /\ keepalive' = "cancelling" /\ cause' = cause
    BY DEF Closed, AfterCleanup
<1>3. cause \in Causes
    BY <1>1 DEF SolanaInv, ConnectionOK
<1>4. Buffered \subseteq Launches
    BY DEF SolanaInv, TypeOK, Buffered
<1>5. TypeOK'
    <2>1. discarded' \subseteq [launch : Launches, cause : Causes]
        BY <1>1, <1>3, <1>4 DEF SolanaInv, TypeOK
    <2>2. inbox' \in Seq(Launches \cup {Other})
        BY <1>1
    <2> QED
        BY <1>1, <1>2, <1>3, <2>1, <2>2 DEF SolanaInv, TypeOK
<1>6. NothingOutlivesConnection' /\ ConnectionOK' /\ InboxOK'
    BY <1>1, <1>2 DEF NothingOutlivesConnection, ConnectionOK, InboxOK
<1>7. LaunchesAccounted'
    <2>1. Handled' = Handled /\ Buffered' = {}
        BY <1>1 DEF Handled, Buffered
    <2>2. Discarded' = Discarded \cup Buffered
        <3>1. discarded' = discarded \cup {[launch |-> n, cause |-> cause] : n \in Buffered}
            BY <1>1
        <3>2. ASSUME NEW n \in Discarded' PROVE n \in Discarded \cup Buffered
            <4>1. PICK d \in discarded' : n = d.launch
                BY DEF Discarded
            <4>2. CASE d \in discarded
                BY <4>1, <4>2 DEF Discarded
            <4>3. CASE \E m \in Buffered : d = [launch |-> m, cause |-> cause]
                BY <4>1, <4>3
            <4> QED
                BY <3>1, <4>1, <4>2, <4>3
        <3>3. ASSUME NEW n \in Discarded PROVE n \in Discarded'
            BY <3>1 DEF Discarded
        <3>4. ASSUME NEW n \in Buffered PROVE n \in Discarded'
            <4>1. [launch |-> n, cause |-> cause] \in discarded'
                BY <3>1
            <4>2. [launch |-> n, cause |-> cause].launch = n
                OBVIOUS
            <4> QED
                BY <4>1, <4>2, Zenon DEF Discarded
        <3> QED
            BY <3>2, <3>3, <3>4
    <2>3. cause = "lost" => Buffered = {}
        BY <1>1 DEF SolanaInv, ConnectionOK, Buffered
    <2>4. \A d \in discarded' : d.cause # "lost"
        BY <1>1, <2>3 DEF SolanaInv, LaunchesAccounted
    <2> QED
        BY <1>1, <2>1, <2>2, <2>4 DEF SolanaInv, LaunchesAccounted
<1> QED
    BY <1>5, <1>6, <1>7 DEF SolanaInv

\* Any message but a launch.
LEMMA AnswerKeeps == ASSUME SolanaInv, Answer PROVE SolanaInv'
<1>1. /\ link = "up" /\ subscription = "asked" /\ inbox' = Append(inbox, Other)
      /\ subscription' \in {"accepted", "rejected"}
      /\ UNCHANGED <<phase, cause, keepalive, stopped, cancelled, delay, link, probed,
                     arrived, history>>
    BY DEF Answer, Deliver
<1>2. /\ inbox' \in Seq(Launches \cup {Other}) /\ Len(inbox) \in Nat
      /\ Len(inbox') = Len(inbox) + 1
      /\ \A i \in 1..Len(inbox) : inbox'[i] = inbox[i]
      /\ inbox'[Len(inbox) + 1] = Other
      /\ Elements(inbox') = Elements(inbox) \cup {Other}
    BY <1>1, ElementsOfAppend DEF SolanaInv, TypeOK
<1>3. TypeOK'
    BY <1>1, <1>2 DEF SolanaInv, TypeOK, history
<1>4. NothingOutlivesConnection' /\ ConnectionOK'
    BY <1>1 DEF SolanaInv, NothingOutlivesConnection, ConnectionOK
<1>5. \A i \in 1..Len(inbox') : inbox'[i] # Other => i \in 1..Len(inbox)
    BY <1>2
<1>6. InboxOK'
    BY <1>1, <1>2, <1>5 DEF SolanaInv, InboxOK, history
<1>7. LaunchesAccounted'
    <2>1. Buffered' = Buffered
        BY <1>2 DEF Buffered, Elements
    <2> QED
        BY <1>1, <2>1 DEF SolanaInv, LaunchesAccounted, Handled, Discarded, history
<1> QED
    BY <1>3, <1>4, <1>6, <1>7 DEF SolanaInv

\* A launch is later than all that have arrived.
LEMMA AnnounceKeeps == ASSUME SolanaInv, Announce PROVE SolanaInv'
<1>1. /\ link = "up" /\ subscription = "accepted" /\ inbox' = Append(inbox, arrived + 1)
      /\ arrived < NumLaunches /\ arrived' = arrived + 1
      /\ UNCHANGED <<phase, cause, keepalive, stopped, cancelled, delay, link, probed,
                     subscription, history>>
    BY DEF Announce, Deliver
<1>2. arrived \in Nat /\ arrived + 1 \in Launches /\ arrived + 1 # Other
    BY <1>1, LaunchAssumption DEF SolanaInv, TypeOK, Launches, Other
<1>3. /\ inbox' \in Seq(Launches \cup {Other}) /\ Len(inbox) \in Nat
      /\ Len(inbox') = Len(inbox) + 1
      /\ \A i \in 1..Len(inbox) : inbox'[i] = inbox[i]
      /\ inbox'[Len(inbox) + 1] = arrived + 1
      /\ Elements(inbox') = Elements(inbox) \cup {arrived + 1}
    BY <1>1, <1>2, ElementsOfAppend DEF SolanaInv, TypeOK
<1>4. TypeOK'
    BY <1>1, <1>2, <1>3, LaunchAssumption DEF SolanaInv, TypeOK, history
<1>5. NothingOutlivesConnection' /\ ConnectionOK'
    BY <1>1 DEF SolanaInv, NothingOutlivesConnection, ConnectionOK
<1>6. InboxOK'
    <2>1. ASSUME NEW i \in 1..Len(inbox'), NEW j \in 1..Len(inbox'), i < j,
                 inbox'[i] # Other, inbox'[j] # Other
          PROVE  inbox'[i] < inbox'[j]
        <3>1. i \in 1..Len(inbox) /\ inbox'[i] = inbox[i]
            BY <1>3, <2>1
        <3>2. CASE j \in 1..Len(inbox)
            BY <1>3, <2>1, <3>1, <3>2 DEF SolanaInv, InboxOK
        <3>3. CASE j = Len(inbox) + 1
            BY <1>2, <1>3, <2>1, <3>1, <3>3, ArrivedBefore
        <3> QED
            BY <1>3, <3>2, <3>3
    <2>2. ASSUME NEW i \in 1..Len(handled), NEW j \in 1..Len(inbox'), inbox'[j] # Other
          PROVE  handled[i] < inbox'[j]
        <3>1. CASE j \in 1..Len(inbox)
            BY <1>3, <2>2, <3>1 DEF SolanaInv, InboxOK
        <3>2. CASE j = Len(inbox) + 1
            BY <1>2, <1>3, <3>2, ArrivedBefore
        <3> QED
            BY <1>3, <3>1, <3>2
    <2> QED
        BY <1>1, <2>1, <2>2 DEF InboxOK, history
<1>7. LaunchesAccounted'
    <2>1. Buffered' = Buffered \cup {arrived + 1}
        BY <1>2, <1>3 DEF Buffered, Elements
    <2>2. 1..arrived' = 1..arrived \cup {arrived + 1}
        BY <1>1, <1>2
    <2>3. Handled' = Handled /\ Discarded' = Discarded /\ discarded' = discarded /\ handled' = handled
        BY <1>1 DEF Handled, Discarded, history
    <2>4. 1..arrived = Handled \cup Buffered \cup Discarded
        BY DEF SolanaInv, LaunchesAccounted
    <2>5. 1..arrived' = Handled' \cup Buffered' \cup Discarded'
        BY <2>1, <2>2, <2>3, <2>4
    <2> QED
        BY <2>3, <2>5 DEF SolanaInv, LaunchesAccounted
<1> QED
    BY <1>4, <1>5, <1>6, <1>7 DEF SolanaInv

-----------------------------------------------------------------------------
LEMMA StutterKeeps == ASSUME SolanaInv, UNCHANGED vars PROVE SolanaInv'
<1>1. TypeOK' /\ NothingOutlivesConnection' /\ ConnectionOK'
    BY DEF vars, SolanaInv, TypeOK, NothingOutlivesConnection, ConnectionOK
<1>2. InboxOK' /\ LaunchesAccounted'
    BY SameMessages DEF vars
<1> QED
    BY <1>1, <1>2 DEF SolanaInv

LEMMA NextKeeps == SolanaInv /\ [Next]_vars => SolanaInv'
<1> SUFFICES ASSUME SolanaInv, [Next]_vars PROVE SolanaInv'
    OBVIOUS
<1>1. CASE Run
    BY <1>1, ConnectSucceedsKeeps, ConnectFailsKeeps, SubscribeSentKeeps, SubscribeFailsKeeps,
       ReceiveKeeps, ConnectionLostKeeps, CallbackReturnsKeeps, CallbackRaisesKeeps,
       MessageRaisesKeeps,
       ClosedKeeps, CleanedUpKeeps, SleepOverKeeps DEF Run
<1>2. CASE Keepalive
    BY <1>2, PingKeeps, PongKeeps, PongFailsKeeps DEF Keepalive
<1>3. CASE Stop \/ Cancel
    BY <1>3, StopKeeps, CancelKeeps
<1>4. CASE Answer \/ Announce
    BY <1>4, AnswerKeeps, AnnounceKeeps
<1>5. CASE Disconnect \/ CloseIdle \/ Vanish \/ Detect
    BY <1>5, BreaksKeeps, DetectKeeps DEF Disconnect, CloseIdle, Vanish
<1>6. CASE UNCHANGED vars
    BY <1>6, StutterKeeps
<1> QED
    BY <1>1, <1>2, <1>3, <1>4, <1>5, <1>6 DEF Next

LEMMA SolanaInvariant == Spec => []SolanaInv
BY InitSolana, NextKeeps, PTL DEF Spec

-----------------------------------------------------------------------------
\* Every variable of the scraper has its type: among others the delay stays
\* within its maximum (solana_scraper.py:123).
THEOREM SolanaTypeCorrect == Spec => []TypeOK
<1>1. SolanaInv => TypeOK
    BY DEF SolanaInv
<1> QED
    BY <1>1, SolanaInvariant, PTL

\* However a connection ends, its keepalive task and its socket end with it
\* (the finally clause, solana_scraper.py:109-117).
THEOREM NothingLeaks == Spec => []NothingOutlivesConnection
<1>1. SolanaInv => NothingOutlivesConnection
    BY DEF SolanaInv
<1> QED
    BY <1>1, SolanaInvariant, PTL

\* Every launch that has reached the socket is handed over once, in order, or is
\* buffered, or went with a connection that was left on purpose.
THEOREM LaunchesKept == Spec => []LaunchesAccounted
<1>1. SolanaInv => LaunchesAccounted
    BY DEF SolanaInv
<1> QED
    BY <1>1, SolanaInvariant, PTL

-----------------------------------------------------------------------------
\* Induction, for a property given as the set of the numbers that have it.
LEMMA Induction == ASSUME NEW S, 0 \in S, \A n \in Nat : n \in S => n + 1 \in S PROVE Nat \subseteq S
<1> SUFFICES ASSUME Nat \ S # {} PROVE FALSE
    OBVIOUS
<1>1. PICK x \in Nat \ S : \A y \in Nat \ S : ~(<<y, x>> \in OpToRel(<, Nat))
    BY NatLessThanWellFounded, WFMin, Zenon
<1>2. x \in Nat /\ x \notin S
    BY <1>1
<1>3. x # 0 /\ x - 1 \in Nat
    BY <1>2
<1>4. <<x - 1, x>> \in OpToRel(<, Nat)
    BY <1>2, <1>3 DEF OpToRel
<1>5. x - 1 \in S
    BY <1>1, <1>3, <1>4
<1>6. (x - 1) + 1 \in S
    BY <1>3, <1>5
<1> QED
    BY <1>2, <1>6

IsPower(f, m) == f = [n \in 0..m |-> IF n = 0 THEN 1 ELSE 2 * f[n - 1]]

\* One step of it.
LEMMA PowerAt ==
    ASSUME NEW f, NEW m \in Nat, IsPower(f, m)
    PROVE  f[0] = 1 /\ \A n \in 1..m : f[n] = 2 * f[n - 1]
<1> DEFINE e(n) == IF n = 0 THEN 1 ELSE 2 * f[n - 1]
<1>1. f = [n \in 0..m |-> e(n)]
    BY DEF IsPower
<1> HIDE DEF e
<1>2. \A n \in 0..m : f[n] = e(n)
    BY <1>1
<1>3. e(0) = 1 /\ \A n \in 1..m : e(n) = 2 * f[n - 1]
    BY DEF e
<1>4. 0 \in 0..m /\ \A n \in 1..m : n \in 0..m
    OBVIOUS
<1> QED
    BY <1>2, <1>3, <1>4

\* There is such a function.
LEMMA PowerExists == ASSUME NEW m \in Nat PROVE \E f : IsPower(f, m)
<1> DEFINE S == {k \in Nat : \E f : IsPower(f, k)}
<1>1. 0 \in S
    <2>1. IsPower([n \in 0..0 |-> 1], 0)
        BY DEF IsPower
    <2> QED
        BY <2>1
<1>2. ASSUME NEW k \in Nat, k \in S PROVE k + 1 \in S
    <2>1. PICK f : IsPower(f, k)
        BY <1>2
    <2>2. f[0] = 1 /\ \A n \in 1..k : f[n] = 2 * f[n - 1]
        BY <2>1, PowerAt
    <2> DEFINE last == 2 * f[k]
               g == [n \in 0..(k + 1) |-> IF n = k + 1 THEN last ELSE f[n]]
    <2>3. ASSUME NEW n \in 0..(k + 1) PROVE g[n] = IF n = 0 THEN 1 ELSE 2 * g[n - 1]
        <3>1. CASE n = k + 1
            <4>1. g[n] = last /\ g[n - 1] = f[k] /\ n # 0
                BY <3>1
            <4> QED
                BY <4>1
        <3>2. CASE n = 0
            BY <2>2, <3>2
        <3>3. CASE n # k + 1 /\ n # 0
            <4>1. n \in 1..k /\ n - 1 \in 0..k
                BY <3>3
            <4>2. g[n] = f[n] /\ g[n - 1] = f[n - 1]
                BY <4>1
            <4> HIDE DEF g
            <4> QED
                BY <2>2, <3>3, <4>1, <4>2
        <3> QED
            BY <3>1, <3>2, <3>3
    <2>4. g = [n \in 0..(k + 1) |-> IF n = 0 THEN 1 ELSE 2 * g[n - 1]]
        BY <2>3
    <2>5. IsPower(g, k + 1)
        BY <2>4 DEF IsPower
    <2> QED
        BY <2>5
<1> HIDE DEF S
<1>3. Nat \subseteq S
    BY <1>1, <1>2, Induction
<1> QED
    BY <1>3 DEF S

\* The powers double, and outgrow their exponent.
LEMMA PowersDouble ==
    /\ PowerOfTwo[0] = 1
    /\ \A n \in 0..MaxDelay : PowerOfTwo[n + 1] = 2 * PowerOfTwo[n]
    /\ \A n \in 0..(MaxDelay + 1) : PowerOfTwo[n] \in Nat /\ PowerOfTwo[n] > n
<1> DEFINE p == PowerOfTwo
           m == MaxDelay + 1
<1>0. m \in Nat /\ m = MaxDelay + 1 /\ MaxDelay \in Nat
    BY DelayAssumption
<1>1. IsPower(p, m)
    <2>1. p = CHOOSE f : IsPower(f, m)
        BY DEF PowerOfTwo, IsPower
    <2> QED
        BY <1>0, <2>1, PowerExists
<1> HIDE DEF p, m
<1>2. p[0] = 1 /\ \A n \in 1..m : p[n] = 2 * p[n - 1]
    BY <1>0, <1>1, PowerAt
<1>3. \A n \in 0..MaxDelay : p[n + 1] = 2 * p[n]
    <2> SUFFICES ASSUME NEW n \in 0..MaxDelay PROVE p[n + 1] = 2 * p[n]
        OBVIOUS
    <2>1. n + 1 \in 1..m /\ (n + 1) - 1 = n
        BY <1>0
    <2> QED
        BY <1>2, <2>1
<1> DEFINE S == {k \in Nat : k <= m => p[k] \in Nat /\ p[k] > k}
<1>4. 0 \in S
    BY <1>2
<1>5. ASSUME NEW k \in Nat, k \in S PROVE k + 1 \in S
    <2> SUFFICES ASSUME k + 1 <= m PROVE p[k + 1] \in Nat /\ p[k + 1] > k + 1
        OBVIOUS
    <2>1. k \in 0..MaxDelay /\ k <= m
        BY <1>0
    <2>2. p[k] \in Nat /\ p[k] > k /\ p[k + 1] = 2 * p[k]
        BY <1>3, <1>5, <2>1
    <2> QED
        BY <2>2
<1> HIDE DEF S
<1>6. Nat \subseteq S
    BY <1>4, <1>5, Induction
<1>7. \A n \in 0..m : p[n] \in Nat /\ p[n] > n
    BY <1>0, <1>6 DEF S
<1> QED
    BY <1>2, <1>3, <1>7 DEF p, m

\* Doubling a pause takes it to the next power; the largest is the maximum.
LEMMA PauseDoubles ==
    /\ UpToMax(PowerOfTwo[0]) = 1
    /\ \A n \in 0..MaxDelay :
          Doubled(UpToMax(PowerOfTwo[n])) = UpToMax(PowerOfTwo[n + 1])
    /\ UpToMax(PowerOfTwo[MaxDelay]) = MaxDelay
<1>1. MaxDelay \in Nat \ {0}
    BY DelayAssumption
<1>2. ASSUME NEW x \in Nat PROVE Doubled(UpToMax(x)) = UpToMax(2 * x)
    BY <1>1 DEF Doubled, UpToMax
<1>3. ASSUME NEW n \in 0..MaxDelay PROVE Doubled(UpToMax(PowerOfTwo[n])) = UpToMax(PowerOfTwo[n + 1])
    <2>1. n \in 0..(MaxDelay + 1)
        BY <1>1
    <2>2. PowerOfTwo[n] \in Nat /\ PowerOfTwo[n + 1] = 2 * PowerOfTwo[n]
        BY <2>1, PowersDouble
    <2> QED
        BY <1>2, <2>2
<1>4. UpToMax(PowerOfTwo[0]) = 1
    BY <1>1, PowersDouble DEF UpToMax
<1>5. UpToMax(PowerOfTwo[MaxDelay]) = MaxDelay
    <2>1. MaxDelay \in 0..(MaxDelay + 1)
        BY <1>1
    <2>2. PowerOfTwo[MaxDelay] \in Nat /\ PowerOfTwo[MaxDelay] > MaxDelay
        BY <2>1, PowersDouble
    <2> QED
        BY <1>1, <2>2 DEF UpToMax
<1> QED
    BY <1>3, <1>4, <1>5

\* A step that keeps the pause, the count and the place, or is within a
\* connection, keeps what is said of them.
LEMMA ElsewhereDelayKept ==
    ASSUME DelayOK, PauseFollowsFailures, UNCHANGED <<delay, failures>>,
           \/ phase' = phase
           \/ phase' = "ended"
           \/ /\ phase \in {"subscribing", "receiving", "handling", "closing", "cleanup"}
              /\ phase' \in {"receiving", "handling", "closing", "cleanup", "sleeping"}
    PROVE  DelayOK' /\ PauseFollowsFailures'
<1>1. UpToMax(PowerOfTwo[0]) = 1
    BY PauseDoubles
<1>2. CASE phase' = phase
    BY <1>2 DEF DelayOK, PauseFollowsFailures
<1>3. CASE phase' = "ended"
    BY <1>3 DEF DelayOK, PauseFollowsFailures
<1>4. CASE /\ phase \in {"subscribing", "receiving", "handling", "closing", "cleanup"}
           /\ phase' \in {"receiving", "handling", "closing", "cleanup", "sleeping"}
    <2>1. failures = 0 /\ delay = 1
        BY <1>4 DEF DelayOK
    <2>2. failures' = 0 /\ delay' = 1
        BY <2>1
    <2>3. DelayOK'
        BY <1>1, <1>4, <2>2 DEF DelayOK
    <2>4. PauseFollowsFailures'
        BY <1>4 DEF PauseFollowsFailures
    <2> QED
        BY <2>3, <2>4
<1> QED
    BY <1>2, <1>3, <1>4

LEMMA PauseStep == PauseInv /\ [Next]_vars => PauseInv'
<1> SUFFICES ASSUME PauseInv, [Next]_vars PROVE PauseInv'
    OBVIOUS
<1>0. /\ SolanaInv' /\ DelayOK /\ PauseFollowsFailures
      /\ delay \in 1..MaxDelay /\ failures \in 0..MaxDelay /\ MaxDelay \in Nat \ {0}
    BY NextKeeps, DelayAssumption DEF PauseInv, SolanaInv, TypeOK
<1> SUFFICES DelayOK' /\ PauseFollowsFailures'
    BY <1>0 DEF PauseInv
<1>1. UpToMax(PowerOfTwo[0]) = 1 /\ UpToMax(PowerOfTwo[MaxDelay]) = MaxDelay
    BY PauseDoubles
<1>2. CASE ConnectSucceeds
    BY <1>2 DEF ConnectSucceeds, DelayOK, PauseFollowsFailures
<1>3. CASE ConnectFails
    <2>1. /\ phase = "connecting" /\ phase' \in {"ended", "sleeping"} /\ delay' = delay
          /\ failures' = IF failures < MaxDelay THEN failures + 1 ELSE failures
        BY <1>3 DEF ConnectFails, AfterCleanup
    <2>2. delay \in {UpToMax(PowerOfTwo[failures]), UpToMax(PowerOfTwo[failures + 1])}
        BY <1>0, <2>1 DEF PauseFollowsFailures
    <2>3. CASE failures < MaxDelay
        <3>1. failures' = failures + 1 /\ failures' > 0 /\ failures' - 1 = failures
            BY <1>0, <2>1, <2>3
        <3>2. \/ delay' = UpToMax(PowerOfTwo[failures'])
              \/ delay' = UpToMax(PowerOfTwo[failures' - 1])
            BY <2>1, <2>2, <3>1
        <3> QED
            BY <2>1, <3>1, <3>2 DEF DelayOK, PauseFollowsFailures
    <2>4. CASE failures = MaxDelay
        <3>1. UpToMax(PowerOfTwo[failures + 1]) = MaxDelay
            <4>1. MaxDelay \in 0..MaxDelay
                BY <1>0
            <4>2. Doubled(MaxDelay) = UpToMax(PowerOfTwo[MaxDelay + 1])
                BY <1>1, <4>1, PauseDoubles
            <4> QED
                BY <1>0, <2>4, <4>2 DEF Doubled
        <3>2. delay' = UpToMax(PowerOfTwo[failures'])
            BY <1>0, <1>1, <2>1, <2>2, <2>4, <3>1
        <3> QED
            BY <2>1, <3>2 DEF DelayOK, PauseFollowsFailures
    <2> QED
        BY <1>0, <2>3, <2>4
<1>4. CASE SleepOver
    <2>1. /\ phase = "sleeping" /\ phase' \in {"ended", "connecting"}
          /\ delay' = Doubled(delay) /\ failures' = failures
        BY <1>4 DEF SleepOver, history
    <2>2. CASE delay = UpToMax(PowerOfTwo[failures])
        <3>1. delay' = UpToMax(PowerOfTwo[failures + 1])
            BY <1>0, <2>1, <2>2, PauseDoubles
        <3> QED
            BY <2>1, <3>1 DEF DelayOK, PauseFollowsFailures
    <2>3. CASE failures > 0 /\ delay = UpToMax(PowerOfTwo[failures - 1])
        <3>1. failures - 1 \in 0..MaxDelay /\ (failures - 1) + 1 = failures
            BY <1>0, <2>3
        <3>2. delay' = UpToMax(PowerOfTwo[failures])
            BY <2>1, <2>3, <3>1, PauseDoubles
        <3> QED
            BY <2>1, <3>2 DEF DelayOK, PauseFollowsFailures
    <2> QED
        BY <1>0, <2>1, <2>2, <2>3 DEF DelayOK
<1>5. CASE SubscribeSent \/ SubscribeFails \/ Receive \/ ConnectionLost \/ CallbackReturns
           \/ CallbackRaises \/ MessageRaises \/ Closed \/ CleanedUp
    <2>1. /\ UNCHANGED <<delay, failures>>
          /\ phase \in {"subscribing", "receiving", "handling", "closing", "cleanup"}
          /\ phase' \in {"receiving", "handling", "closing", "cleanup", "sleeping", "ended"}
        BY <1>5 DEF SubscribeSent, SubscribeFails, Receive, ConnectionLost, CallbackReturns,
           CallbackRaises, MessageRaises, Closed, CleanedUp, Leave, AfterCleanup, history
    <2> QED
        BY <1>0, <2>1, ElsewhereDelayKept
<1>6. CASE Cancel
    <2>1. /\ UNCHANGED <<delay, failures>>
          /\ \/ phase' = phase
             \/ phase' = "ended"
             \/ /\ phase \in {"subscribing", "receiving", "handling", "closing", "cleanup"}
                /\ phase' \in {"receiving", "handling", "closing", "cleanup", "sleeping"}
        BY <1>6 DEF Cancel, Leave, history
    <2> QED
        BY <1>0, <2>1, ElsewhereDelayKept
<1>7. CASE Keepalive \/ Stop \/ Answer \/ Announce \/ Disconnect \/ CloseIdle \/ Vanish
           \/ Detect \/ UNCHANGED vars
    <2>1. UNCHANGED <<phase, delay, failures>>
        BY <1>7 DEF Keepalive, Ping, Pong, PongFails, Stop, Answer, Announce, Deliver, Disconnect,
           CloseIdle, Vanish, Breaks, Detect, runVars, history, vars
    <2> QED
        BY <1>0, <2>1, ElsewhereDelayKept
<1> QED
    BY <1>2, <1>3, <1>4, <1>5, <1>6, <1>7 DEF Next, Run, Keepalive

LEMMA InitPause == Init => PauseInv
BY InitSolana, PauseDoubles DEF Init, PauseInv, DelayOK, PauseFollowsFailures

\* The pause before a connect is the power of two that the failed connects make
\* it, up to the maximum (solana_scraper.py:119-123), however connections ended,
\* whatever the callback raised and whoever stopped or cancelled in between.
THEOREM PausesDouble == Spec => []PauseFollowsFailures
<1>1. PauseInv => PauseFollowsFailures
    BY DEF PauseInv
<1> QED
    BY <1>1, InitPause, PauseStep, PTL DEF Spec

-----------------------------------------------------------------------------
(* The scraper implements the feed of LaunchFeed.                          *)

\* The launch at the head of the buffer is the oldest there, and there once.
LEMMA HeadIsOldest ==
    ASSUME SolanaInv, inbox # <<>>, Head(inbox) # Other
    PROVE  /\ Head(inbox) \in Buffered
           /\ \A m \in Buffered : Head(inbox) <= m
           /\ Elements(Tail(inbox)) \ {Other} = Buffered \ {Head(inbox)}
<1>0. inbox \in Seq(Launches \cup {Other}) /\ Launches \cup {Other} \subseteq Int
    BY LaunchAssumption DEF SolanaInv, TypeOK, Launches, Other
<1>1. /\ Head(inbox) = inbox[1] /\ Len(inbox) \in Nat \ {0} /\ Len(Tail(inbox)) = Len(inbox) - 1
      /\ \A i \in 1..Len(Tail(inbox)) : Tail(inbox)[i] = inbox[i + 1]
      /\ Elements(inbox) = {Head(inbox)} \cup Elements(Tail(inbox))
    BY <1>0, ElementsOfTail
<1>2. Buffered = ({Head(inbox)} \cup Elements(Tail(inbox))) \ {Other}
    BY <1>1, Books
<1>3. ASSUME NEW m \in Elements(Tail(inbox)) \ {Other}
      PROVE  Head(inbox) < m
    <2>1. PICK i \in 1..Len(Tail(inbox)) : m = Tail(inbox)[i]
        BY DEF Elements
    <2>2. /\ i + 1 \in 1..Len(inbox) /\ 1 \in 1..Len(inbox) /\ 1 < i + 1
          /\ m = inbox[i + 1] /\ Head(inbox) = inbox[1]
        BY <1>1, <2>1
    <2> QED
        BY <2>2 DEF SolanaInv, InboxOK
<1>4. Head(inbox) \in Int /\ \A m \in Elements(Tail(inbox)) \ {Other} : m \in Int
    <2>1. \A i \in 1..Len(inbox) : inbox[i] \in Int
        BY <1>0
    <2>2. \A i \in 1..Len(Tail(inbox)) : Tail(inbox)[i] \in Int
        BY <1>1, <2>1
    <2> QED
        BY <1>1, <2>1, <2>2 DEF Elements
<1>5. Head(inbox) \notin Elements(Tail(inbox)) \ {Other}
    BY <1>3, <1>4
<1> QED
    BY <1>2, <1>3, <1>4, <1>5

\* A message that is taken or discarded by the loop is handed over, or is none.
LEMMA ReceiveHands ==
    ASSUME SolanaInv, Receive
    PROVE  Feed!FeedNext \/ UNCHANGED <<arrived, Buffered, handled, Discarded>>
<1>0. inbox \in Seq(Launches \cup {Other}) /\ inbox # <<>>
    BY DEF SolanaInv, TypeOK, Receive
<1>1. arrived' = arrived /\ discarded' = discarded
    BY DEF Receive, linkVars, history
<1>2. Discarded' = Discarded
    BY <1>1 DEF Discarded
<1>3. CASE stopped
    BY <1>1, <1>2, <1>3 DEF Receive, Buffered
<1>4. CASE ~stopped /\ Head(inbox) = Other
    <2>1. inbox' = Tail(inbox) /\ handled' = handled
        BY <1>4 DEF Receive
    <2>2. Buffered' = Elements(Tail(inbox)) \ {Other}
        BY <2>1 DEF Buffered, Elements
    <2>3. Buffered = Elements(Tail(inbox)) \ {Other}
        BY <1>0, <1>4, ElementsOfTail, Books
    <2> QED
        BY <1>1, <1>2, <2>1, <2>2, <2>3
<1>5. CASE ~stopped /\ Head(inbox) # Other
    <2> DEFINE n == Head(inbox)
    <2>1. inbox' = Tail(inbox) /\ handled' = Append(handled, n)
        BY <1>5 DEF Receive
    <2>2. Buffered' = Elements(Tail(inbox)) \ {Other}
        BY <2>1 DEF Buffered, Elements
    <2>3. Buffered' = Buffered \ {n} /\ n \in Buffered /\ \A m \in Buffered : n <= m
        BY <1>0, <1>5, <2>2, HeadIsOldest
    <2>4. n \in 1..NumLaunches
        BY <1>0, <1>5, ElementsOfTail DEF Launches
    <2>5. Feed!Hand(n)
        BY <1>1, <1>2, <2>1, <2>3 DEF Feed!Hand
    <2> QED
        BY <2>4, <2>5 DEF Feed!FeedNext
<1> QED
    BY <1>3, <1>4, <1>5

\* A connection that is closed drops what waits.
LEMMA ClosedDrops == ASSUME Closed PROVE Feed!FeedNext
<1>1. /\ inbox' = <<>> /\ arrived' = arrived /\ handled' = handled
      /\ discarded' = discarded \cup {[launch |-> n, cause |-> cause] : n \in Buffered}
    BY DEF Closed
<1>2. Buffered' = {}
    BY <1>1 DEF Buffered
<1>3. Discarded' = Discarded \cup Buffered
    <2> DEFINE D == {[launch |-> n, cause |-> cause] : n \in Buffered}
    <2>1. ASSUME NEW n \in Buffered PROVE \E d \in D : d.launch = n
        <3>1. [launch |-> n, cause |-> cause] \in D
            OBVIOUS
        <3>2. [launch |-> n, cause |-> cause].launch = n
            OBVIOUS
        <3> QED
            BY <3>1, <3>2
    <2>2. \A d \in D : d.launch \in Buffered
        OBVIOUS
    <2>3. discarded' = discarded \cup D
        BY <1>1
    <2> HIDE DEF D
    <2>4. \A n : n \in Discarded' <=> \E d \in discarded \cup D : d.launch = n
        BY <2>3 DEF Discarded
    <2>5. \A n : n \in Discarded <=> \E d \in discarded : d.launch = n
        BY DEF Discarded
    <2> QED
        BY <2>1, <2>2, <2>4, <2>5
<1> QED
    BY <1>1, <1>2, <1>3 DEF Feed!FeedNext, Feed!Drop

\* An announced launch waits.
LEMMA AnnounceArrives == ASSUME SolanaInv, Announce PROVE Feed!FeedNext
<1>1. /\ arrived < NumLaunches /\ arrived' = arrived + 1
      /\ inbox' = Append(inbox, arrived + 1) /\ handled' = handled /\ discarded' = discarded
    BY DEF Announce, Deliver, history
<1>2. inbox \in Seq(Launches \cup {Other}) /\ arrived + 1 \in Launches \cup {Other}
      /\ arrived + 1 # Other
    BY <1>1, LaunchAssumption DEF SolanaInv, TypeOK, Launches, Other
<1>3. Elements(inbox') = Elements(inbox) \cup {arrived + 1}
    BY <1>1, <1>2, ElementsOfAppend
<1>4. Buffered' = Elements(inbox') \ {Other}
    BY DEF Buffered, Elements
<1>5. Buffered' = Buffered \cup {arrived + 1}
    BY <1>2, <1>3, <1>4, Books
<1>6. Discarded' = Discarded
    BY <1>1 DEF Discarded
<1> QED
    BY <1>1, <1>5, <1>6 DEF Feed!FeedNext, Feed!Arrive

\* An answer to the subscription is no launch.
LEMMA AnswerIsNone ==
    ASSUME SolanaInv, Answer
    PROVE  UNCHANGED <<arrived, Buffered, handled, Discarded>>
<1>1. /\ arrived' = arrived /\ inbox' = Append(inbox, Other)
      /\ handled' = handled /\ discarded' = discarded
    BY DEF Answer, Deliver, history
<1>2. Elements(inbox') = Elements(inbox) \cup {Other}
    BY <1>1, ElementsOfAppend DEF SolanaInv, TypeOK
<1>3. Buffered' = Elements(inbox') \ {Other}
    BY DEF Buffered, Elements
<1> QED
    BY <1>1, <1>2, <1>3, Books DEF Discarded

\* Launches are handed over through all connections, failures, stops and
\* cancellations as by one queue: the oldest first, and none that was dropped
\* before (solana_scraper.py:85-131, 164-185).
THEOREM FeedImplemented == Spec => ImplementsFeed
<1>1. Init => Feed!FeedInit
    BY DEF Init, Feed!FeedInit, Buffered, Discarded
<1>2. SolanaInv /\ [Next]_vars => [Feed!FeedNext]_(Feed!feedVars)
    <2> SUFFICES ASSUME SolanaInv, [Next]_vars
                 PROVE  Feed!FeedNext \/ UNCHANGED <<arrived, Buffered, handled, Discarded>>
        BY DEF Feed!feedVars
    <2>1. CASE UNCHANGED <<inbox, arrived, handled, discarded>>
        BY <2>1 DEF Buffered, Discarded
    <2>2. CASE ConnectSucceeds \/ ConnectFails \/ SubscribeSent \/ SubscribeFails
               \/ ConnectionLost \/ CallbackReturns \/ CallbackRaises \/ MessageRaises
               \/ CleanedUp \/ SleepOver
        BY <2>1, <2>2 DEF ConnectSucceeds, ConnectFails, SubscribeSent, SubscribeFails,
           ConnectionLost, CallbackReturns, CallbackRaises, MessageRaises, CleanedUp, SleepOver,
           linkVars, history
    <2>3. CASE Keepalive \/ Stop \/ Cancel \/ Disconnect \/ CloseIdle \/ Vanish \/ Detect
               \/ UNCHANGED vars
        BY <2>1, <2>3 DEF Keepalive, Ping, Pong, PongFails, Stop, Cancel, Disconnect, CloseIdle,
           Vanish, Breaks, Detect, linkVars, history, vars
    <2> QED
        BY <2>2, <2>3, ReceiveHands, ClosedDrops, AnnounceArrives, AnswerIsNone DEF Next, Run
<1> QED
    BY <1>1, <1>2, SolanaInvariant, PTL DEF Spec, ImplementsFeed, Feed!FeedSpec
=============================================================================
