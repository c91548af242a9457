--------------------------- MODULE SwapSubmission ---------------------------
(***************************************************************************)
(* sign_and_send_transaction and wait_for_confirmation of                  *)
(* chains/ethereum.py, the adapter's two write operations, over the shared *)
(* RpcPool: whatever fn raises, the pool takes for a failure of the        *)
(* endpoint and tries again, and what it raises in the end is always       *)
(* ChainConnectionError.                                                   *)
(*                                                                         *)
(* One coroutine trades, one transaction; the others read (scans, holder   *)
(* counts, health checks) through the same pool. The transaction is signed *)
(* anew by every try with the same nonce and fees and is therefore the     *)
(* same transaction. Only the probe of health_check raises                 *)
(* RPCRateLimitError. The gas estimate before the first try, a read of its *)
(* own, is left out.                                                       *)
(***************************************************************************)
EXTENDS RpcPool

CONSTANT Trader
ASSUME TraderAssumption == Trader \in Callers

VARIABLES
    tx,         \* the transaction on the chain and in its mempools
    phase,      \* what the trader is at
    outcome     \* status of the last TransactionResult, or the error

swapVars == <<tx, phase, outcome>>
vars == <<poolVars, swapVars>>

Init ==
    /\ PoolInit
    /\ tx = "none"
    /\ phase = "ready"
    /\ outcome = "none"

\* The step of the trader's call ended it, one way or the other, or did not.
Ends(returned, raised) ==
    phase' = CASE result'[Trader] = "returned" -> returned
               [] result'[Trader] = "raised"   -> raised
               [] OTHER                        -> phase

-----------------------------------------------------------------------------
\* sign_and_send_transaction is called.
Send ==
    /\ phase = "ready"
    /\ Begin(Trader)
    /\ phase' = "sending"
    /\ UNCHANGED <<tx, outcome>>

\* The node takes the transaction, a later try also after it was dropped from
\* the mempools; whether its answer arrives is another thing.
Accepted ==
    /\ phase = "sending"
    /\ tx \in {"none", "pending", "dropped"}
    /\ \/ Answers(Trader)
       \/ Raises(Trader)
    /\ tx' = "pending"
    /\ Ends("sent", "unsent")
    /\ UNCHANGED outcome

\* The balance is too low, the nonce is used, the price too low, the
\* transaction already known, or the node is not reached.
Rejected ==
    /\ phase = "sending"
    /\ Raises(Trader)
    /\ Ends("sent", "unsent")
    /\ UNCHANGED <<tx, outcome>>

\* The chain decides on a transaction of the mempool.
Decide ==
    /\ tx = "pending"
    /\ tx' \in {"confirmed", "reverted", "dropped"}
    /\ UNCHANGED <<poolVars, phase, outcome>>

-----------------------------------------------------------------------------
\* wait_for_confirmation is called, or called again.
Wait ==
    /\ phase = "sent"
    /\ Begin(Trader)
    /\ phase' = "waiting"
    /\ UNCHANGED <<tx, outcome>>

\* A receipt: with status 1 a result, with status 0 TransactionRevertedError,
\* which the pool retries and then replaces.
ReceiptArrives ==
    /\ phase = "waiting"
    /\ \/ /\ tx = "confirmed"
          /\ Answers(Trader)
          /\ outcome' = "confirmed"
       \/ /\ tx = "reverted"
          /\ Raises(Trader)
          /\ outcome' = IF result'[Trader] = "raised" THEN "connection_error" ELSE outcome
    /\ Ends("sent", "sent")
    /\ UNCHANGED tx

\* TimeExhausted: no receipt at this endpoint within the timeout.
TimesOut ==
    /\ phase = "waiting"
    /\ Answers(Trader)
    /\ outcome' = "pending"
    /\ phase' = "sent"
    /\ UNCHANGED tx

\* The endpoint fails.
WaitFails ==
    /\ phase = "waiting"
    /\ Raises(Trader)
    /\ outcome' = IF result'[Trader] = "raised" THEN "connection_error" ELSE outcome
    /\ Ends("sent", "sent")
    /\ UNCHANGED tx

\* The trader's call wakes from a backoff.
TraderResumes ==
    /\ Resume(Trader)
    /\ outcome' = IF phase = "waiting" /\ result'[Trader] = "raised"
                  THEN "connection_error" ELSE outcome
    /\ Ends("sent", IF phase = "sending" THEN "unsent" ELSE "sent")
    /\ UNCHANGED tx

Trade ==
    \/ Accepted \/ Rejected
    \/ ReceiptArrives \/ TimesOut \/ WaitFails
    \/ TraderResumes

\* The step of a call that reads.
Read(c) == (Answers(c) \/ RateLimited(c) \/ Raises(c) \/ Resume(c)) /\ UNCHANGED swapVars

Readers == Callers \ {Trader}

Next ==
    \/ Send \/ Wait \/ Trade \/ Decide
    \/ \E c \in Readers : Begin(c) /\ UNCHANGED swapVars
    \/ \E c \in Readers : Read(c)
    \/ Tick /\ UNCHANGED swapVars

Spec == Init /\ [][Next]_vars

\* fn has a timeout and a backoff ends; nobody need begin a call.
FairSpec ==
    /\ Spec
    /\ WF_vars(Trade)
    /\ \A c \in Readers : WF_vars(Read(c))

-----------------------------------------------------------------------------
\* Every variable has its type.
TypeOK ==
    /\ PoolTypeOK
    /\ tx \in {"none", "pending", "confirmed", "reverted", "dropped"}
    /\ phase \in {"ready", "sending", "sent", "unsent", "waiting"}
    /\ outcome \in {"none", "pending", "confirmed", "connection_error"}

\* "RPC unreachable, timed out, or returned malformed data. Retryable."
\* (exceptions.py:19, and 4-9 on double submission): the error a submission
\* ends with leaves nothing in the mempool. Not true of a lost answer.
RetryableMeansUnsent == phase = "unsent" => tx = "none"
=============================================================================
