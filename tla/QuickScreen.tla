---------------------------- MODULE QuickScreen ----------------------------
(***************************************************************************)
(* QuickScreen.check of ai/quick_screen.py as an operator: the verdict on  *)
(* a token from the Transfer logs of its first blocks. The window is read  *)
(* in chunks; a chunk whose query fails is skipped with a warning, and the *)
(* verdict is computed from the others.                                    *)
(*                                                                         *)
(* Balances are percentages of the supply. A launch says whether the mint  *)
(* lies in the window, for a pair is often created after it, and what is   *)
(* bought in each chunk, by wallets that appear in no other chunk and that *)
(* the initial minter supplies.                                            *)
(***************************************************************************)
EXTENDS Integers, FiniteSets, FiniteSetsExt

CONSTANT NumChunks      \* chunks of ten blocks in the lookahead window
ASSUME ChunkAssumption == NumChunks \in Nat \ {0}

Chunks == 1..NumChunks

\* What can happen in a chunk. The pool counts as a buyer like any other, for
\* main.py:202 does not pass its address.
Trades ==
    [quiet  |-> [buyers |-> 0, sold |-> 0,  largest |-> 0,  sameBlock |-> FALSE],
     sales  |-> [buyers |-> 4, sold |-> 40, largest |-> 10, sameBlock |-> FALSE],
     bundle |-> [buyers |-> 5, sold |-> 40, largest |-> 8,  sameBlock |-> TRUE],
     whale  |-> [buyers |-> 3, sold |-> 60, largest |-> 55, sameBlock |-> FALSE]]

In(launch, c) == Trades[launch.trades[c]]

Sold(launch, read) == MapThenSumSet(LAMBDA c : In(launch, c).sold, read)

\* Nothing is bought that was not minted.
Launches ==
    {launch \in [minted : BOOLEAN, trades : [Chunks -> DOMAIN Trades]] :
        Sold(launch, Chunks) <= 100}

-----------------------------------------------------------------------------
\* The initial minter is found if the chunk that holds the mint was read.
MinterFound(launch, read) == launch.minted /\ 1 \in read

MinterShare(launch, read) ==
    IF MinterFound(launch, read) THEN 100 - Sold(launch, read) ELSE 0

Buyers(launch, read) == MapThenSumSet(LAMBDA c : In(launch, c).buyers, read)

\* unique_receivers: wallets with a positive net balance, the minter among them.
UniqueReceivers(launch, read) ==
    Buyers(launch, read) + (IF MinterShare(launch, read) > 0 THEN 1 ELSE 0)

\* largest_receiver_pct, the minter left out.
LargestReceiver(launch, read) ==
    Max({0} \cup {In(launch, c).largest : c \in read})

\* Five receivers or more in one block.
BundleDetected(launch, read) ==
    \E c \in read : In(launch, c).sameBlock /\ In(launch, c).buyers >= 5

NoTransfers(launch, read) == ~MinterFound(launch, read) /\ Buyers(launch, read) = 0

\* The hard rejects on the logs that were read: no activity, a bundle, an
\* initial minter with nearly everything, fewer than three holders.
Rejects(launch, read) ==
    \/ NoTransfers(launch, read)
    \/ BundleDetected(launch, read)
    \/ MinterShare(launch, read) > 90
    \/ UniqueReceivers(launch, read) < 3

\* The verdict of the steps 3 and 4.
Verdict(launch, read) ==
    IF Rejects(launch, read) THEN "REJECT"
    ELSE IF LargestReceiver(launch, read) > 50 THEN "WATCH" ELSE "PASS"

\* What check returns. A token past the age limit is not looked at; an age that
\* cannot be read counts as fresh; a supply that is zero or unreadable, or any
\* other exception, rejects. Only a scan finds the initial minter, and an
\* exception after the scan rejects the token without forgetting it.
Checked(launch) ==
    {[verdict |-> "WATCH", scanned |-> FALSE, minter |-> FALSE],
     [verdict |-> "REJECT", scanned |-> FALSE, minter |-> FALSE]}
    \cup {[verdict |-> Verdict(launch, read), scanned |-> TRUE,
           minter  |-> MinterFound(launch, read)] : read \in SUBSET Chunks}
    \cup {[verdict |-> "REJECT", scanned |-> TRUE,
           minter  |-> MinterFound(launch, read)] : read \in SUBSET Chunks}
=============================================================================
