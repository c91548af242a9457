-------------------------- MODULE MCTokenPipeline --------------------------
(***************************************************************************)
(* TokenPipeline with the coroutines of one websocket scraper: one of them *)
(* brings every token, the others only those that both look up.            *)
(***************************************************************************)
EXTENDS TokenPipeline

CONSTANTS Listener, Shared

UnevenBrings == [h \in Handlers |-> IF h = Listener THEN Tokens ELSE Shared]

Transfer(sender, receiver, value) == [from |-> sender, to |-> receiver, value |-> value]

TwoWallets == {"alice", "bob"}

\* Blocks with one transfer: mints, burns, transfers among wallets and with the
\* excluded, 1 being dust; with none; and with a mint that is sent on at once.
SampleBlocks ==
    {<<>>, <<Transfer("zero", "bob", 3), Transfer("bob", "quote", 2)>>}
    \cup {<<x>> : x \in {Transfer("zero", "alice", 5), Transfer("alice", "quote", 3),
                         Transfer("quote", "bob", 2), Transfer("alice", "bob", 1),
                         Transfer("bob", "bob", 2), Transfer("alice", "zero", 4),
                         Transfer("zero", "quote", 2)}}
=============================================================================
