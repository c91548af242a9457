----------------------------- MODULE PairLedger -----------------------------
(***************************************************************************)
(* What a TokenScraper promises about the pairs it discovers, whatever the *)
(* order of lookups. A pair that was not known is opened. A hand may claim *)
(* pairs while they are open, give claims up at any time, and settle pairs *)
(* it has claimed, each once and one way. Settling closes a pair, and a    *)
(* pair is never opened twice: a hand that comes later finds nothing to    *)
(* claim. But a claim outlives the closing of its pair, so two hands that  *)
(* claimed the same open pair may both settle it, even differently; one    *)
(* hand alone settles every pair once. Only a restart forgets.             *)
(***************************************************************************)
CONSTANTS Pairs, Hands

VARIABLES
    known,      \* the pairs discovered
    open,       \* the pairs still to be settled
    claim,      \* what each hand is working on
    outcome     \* what each hand has made of each pair

ledgerVars == <<known, open, claim, outcome>>

LedgerInit ==
    /\ known = {}
    /\ open = {}
    /\ claim = [h \in Hands |-> {}]
    /\ outcome = [p \in Pairs |-> [h \in Hands |-> "none"]]

\* The pairs of D are met for the first time; hands claim open pairs or give
\* claims up.
Take(D) ==
    /\ D \cap known = {}
    /\ known' = known \cup D
    /\ open' = open \cup D
    /\ claim' \in [Hands -> SUBSET Pairs]
    /\ \A h \in Hands : claim'[h] \subseteq claim[h] \cup open'
    /\ UNCHANGED outcome

\* Hand h is done with its claims: it reports the pairs of R, gives those of G
\* up, and leaves the others as they are.
SettleClaims(h, R, G) ==
    /\ R \cap G = {}
    /\ R \cup G \subseteq claim[h]
    /\ \A p \in R \cup G : outcome[p][h] = "none"
    /\ open' = open \ (R \cup G)
    /\ claim' = [claim EXCEPT ![h] = {}]
    /\ outcome' = [p \in Pairs |->
           IF p \in R THEN [outcome[p] EXCEPT ![h] = "reported"]
           ELSE IF p \in G THEN [outcome[p] EXCEPT ![h] = "given_up"]
           ELSE outcome[p]]
    /\ UNCHANGED known

Forget ==
    /\ known' = {}
    /\ open' = {}
    /\ claim' = [h \in Hands |-> {}]
    /\ outcome' = [p \in Pairs |-> [h \in Hands |-> "none"]]

LedgerNext ==
    \/ \E D \in SUBSET Pairs : Take(D)
    \/ \E h \in Hands : \E R, G \in SUBSET Pairs : SettleClaims(h, R, G)
    \/ Forget

LedgerSpec == LedgerInit /\ [][LedgerNext]_ledgerVars
=============================================================================
