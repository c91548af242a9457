----------------------------- MODULE LaunchFeed -----------------------------
(***************************************************************************)
(* What SolanaTokenScraper promises about the launches that reach its      *)
(* socket, however many connections they come through: they are handed     *)
(* over one by one, always the oldest that waits, and what is dropped is   *)
(* everything that waits, at once. A launch is waiting, handed over or     *)
(* dropped, and never two of them.                                         *)
(***************************************************************************)
EXTENDS Integers, Sequences

CONSTANT NumLaunches

VARIABLES
    arrived,    \* launches that have reached the socket
    waiting,    \* those of them that wait
    handed,     \* those that were handed over, in that order
    dropped     \* those that never will be

feedVars == <<arrived, waiting, handed, dropped>>

FeedInit ==
    /\ arrived = 0
    /\ waiting = {}
    /\ handed = <<>>
    /\ dropped = {}

Arrive ==
    /\ arrived < NumLaunches
    /\ arrived' = arrived + 1
    /\ waiting' = waiting \cup {arrived + 1}
    /\ UNCHANGED <<handed, dropped>>

\* The oldest is handed over, to be waited for by nobody any more.
Hand(n) ==
    /\ n \in waiting
    /\ \A m \in waiting : n <= m
    /\ waiting' = waiting \ {n}
    /\ handed' = Append(handed, n)
    /\ UNCHANGED <<arrived, dropped>>

\* A connection is left on purpose, or because a callback raised.
Drop ==
    /\ dropped' = dropped \cup waiting
    /\ waiting' = {}
    /\ UNCHANGED <<arrived, handed>>

FeedNext == Arrive \/ Drop \/ \E n \in 1..NumLaunches : Hand(n)

FeedSpec == FeedInit /\ [][FeedNext]_feedVars
=============================================================================
