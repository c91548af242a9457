--------------------------- MODULE TokenPipeline ---------------------------
(***************************************************************************)
(* on_tokens_found of main.py, the callback all scrapers share: two layers *)
(* of screening for every token of a batch, the alerts they send and the   *)
(* wallets they record.                                                    *)
(*                                                                         *)
(* Each scraper coroutine awaits the callback and is busy with its batch   *)
(* until it returns; several are in it at once, and the two coroutines of  *)
(* one websocket scraper may bring the same token, each of them once       *)
(* (TokenScraper!OneReportPerWorker). They share the reputation store, one *)
(* row per wallet, token and role. What raises in a layer is caught there. *)
(***************************************************************************)
EXTENDS QuickScreen, HoneypotScore, HolderScan

CONSTANTS
    Handlers,       \* scraper coroutines
    Tokens,         \* addresses they bring
    NoToken,        \* "no token is being handled"
    Brings          \* bound: the tokens each of them may bring

ASSUME HandledAssumption == NoToken \notin Tokens
ASSUME BringsAssumption == Brings \in [Handlers -> SUBSET Tokens]

VARIABLES
    kind,           \* each token: "evm", "solana", or "no_block" without a launch block
    launch,         \* what its chain shows of it
    pc,             \* where each handler is suspended
    todo,           \* rest of its batch
    current,        \* the token t of its loop
    verdict,        \* qv, per handler and token
    level,          \* report.risk_level, per handler and token
    rows            \* rows of wallet_token_rows: how many per token and role

VARIABLES           \* history
    sent,           \* alerts a handler had the notifier send for a token
    handled,        \* tokens a handler is done with
    unrecorded      \* tokens whose deployer a raising store lost to a handler

vars == <<kind, launch, pc, todo, current, verdict, level, rows, sent, handled, unrecorded>>

\* Nobody looks at the Transfer logs of a token that is not screened.
Unseen == [minted |-> FALSE, trades |-> [c \in Chunks |-> "quiet"]]

NoVerdict == [verdict |-> "none", scanned |-> FALSE, minter |-> FALSE]

Init ==
    /\ kind \in [Tokens -> {"evm", "solana", "no_block"}]
    /\ launch \in [Tokens -> Launches]
    /\ \A t \in Tokens : kind[t] # "evm" => launch[t] = Unseen
    /\ pc = [h \in Handlers |-> "idle"]
    /\ todo = [h \in Handlers |-> {}]
    /\ current = [h \in Handlers |-> NoToken]
    /\ verdict = [h \in Handlers |-> [t \in Tokens |-> NoVerdict]]
    /\ level = [h \in Handlers |-> [t \in Tokens |-> "none"]]
    /\ rows = [t \in Tokens |-> [role \in {"deployer", "top_holder"} |-> 0]]
    /\ sent = [h \in Handlers |-> [t \in Tokens |-> {}]]
    /\ handled = [h \in Handlers |-> {}]
    /\ unrecorded = [h \in Handlers |-> {}]

-----------------------------------------------------------------------------
\* The first await of the loop's body for token t.
Entry(t) ==
    [evm |-> "screen", solana |-> "solana", no_block |-> "assess"][kind[t]]

\* The loop goes on with a token of rest, or the callback returns.
Continue(h, rest) ==
    \/ \E t \in rest :
        /\ current' = [current EXCEPT ![h] = t]
        /\ todo' = [todo EXCEPT ![h] = rest \ {t}]
        /\ pc' = [pc EXCEPT ![h] = Entry(t)]
    \/ /\ rest = {}
       /\ current' = [current EXCEPT ![h] = NoToken]
       /\ todo' = [todo EXCEPT ![h] = {}]
       /\ pc' = [pc EXCEPT ![h] = "idle"]

\* Mutant of NextToken: what raised for one token ends the batch.
NextTokenBreak(h) ==
    /\ Continue(h, {})
    /\ handled' = [handled EXCEPT ![h] = @ \cup {current[h]}]

\* The body is over for the current token.
NextToken(h) ==
    /\ Continue(h, todo[h])
    /\ handled' = [handled EXCEPT ![h] = @ \cup {current[h]}]

\* The body awaits what next says.
Await(h, next) ==
    /\ pc' = [pc EXCEPT ![h] = next]
    /\ UNCHANGED <<todo, current, handled>>

\* Mutant of Recorded: a second row for what another handler has recorded.
RecordedTwice(t, role) == [rows EXCEPT ![t][role] = @ + 1]

\* record_edge: INSERT OR IGNORE over the primary key.
Recorded(t, role) == [rows EXCEPT ![t][role] = 1]

\* A scraper hands over what it found, each token once.
HandOver(h, batch) ==
    /\ pc[h] = "idle"
    /\ batch # {}
    /\ batch \cap handled[h] = {}
    /\ Continue(h, batch)
    /\ UNCHANGED <<kind, launch, verdict, level, rows, sent, handled, unrecorded>>

\* A Solana token: its top holders are recorded, or not, and the detection.
SolanaRecorded(h) ==
    /\ pc[h] = "solana"
    /\ rows' \in {rows, Recorded(current[h], "top_holder")}
    /\ Await(h, "assess")
    /\ UNCHANGED <<kind, launch, verdict, level, sent, unrecorded>>

\* Mutant of Screened: a rejected token goes on to layer 2.
ScreenedOn(h) ==
    /\ pc[h] = "screen"
    /\ \E v \in Checked(launch[current[h]]) :
        /\ verdict' = [verdict EXCEPT ![h][current[h]] = v]
        /\ \/ v.verdict = "REJECT" /\ Await(h, IF v.minter THEN "reject_edge" ELSE "assess")
           \/ v.verdict # "REJECT" /\ Await(h, "holders")
    /\ UNCHANGED <<kind, launch, level, rows, sent, unrecorded>>

\* qs.check returns.
Screened(h) ==
    /\ pc[h] = "screen"
    /\ \E v \in Checked(launch[current[h]]) :
        /\ verdict' = [verdict EXCEPT ![h][current[h]] = v]
        /\ \/ v.verdict = "REJECT" /\ v.minter /\ Await(h, "reject_edge")
           \/ v.verdict = "REJECT" /\ ~v.minter /\ NextToken(h)
           \/ v.verdict # "REJECT" /\ Await(h, "holders")
    /\ UNCHANGED <<kind, launch, level, rows, sent, unrecorded>>

\* record_edge for the deployer returns, or raises and is ignored.
DeployerRecorded(h) ==
    \/ /\ rows' = Recorded(current[h], "deployer")
       /\ UNCHANGED unrecorded
    \/ /\ unrecorded' = [unrecorded EXCEPT ![h] = @ \cup {current[h]}]
       /\ UNCHANGED rows

RejectRecorded(h) ==
    /\ pc[h] = "reject_edge"
    /\ DeployerRecorded(h)
    /\ NextToken(h)
    /\ UNCHANGED <<kind, launch, verdict, level, sent>>

\* What follows the wallet tracker. The warning about a token that was not
\* scanned formats largest_receiver_pct, which is None: the TypeError goes to
\* the layer's except clause, past the alert.
AfterHolders(v) ==
    CASE v.verdict = "PASS"        -> "send_pass"
      [] v.verdict # "PASS" /\ ~v.scanned -> "assess"
      [] v.verdict # "PASS" /\ v.scanned  -> IF v.minter THEN "watch_edge" ELSE "send_watch"

\* The wallet tracker has recorded top holders, or none, or has raised.
HoldersRecorded(h) ==
    /\ pc[h] = "holders"
    /\ rows' \in {rows, Recorded(current[h], "top_holder")}
    /\ Await(h, AfterHolders(verdict[h][current[h]]))
    /\ UNCHANGED <<kind, launch, verdict, level, sent, unrecorded>>

WatchRecorded(h) ==
    /\ pc[h] = "watch_edge"
    /\ DeployerRecorded(h)
    /\ Await(h, "send_watch")
    /\ UNCHANGED <<kind, launch, verdict, level, sent>>

Sent(h, alert) == sent' = [sent EXCEPT ![h][current[h]] = @ \cup {alert}]

\* notifier.send returns, whether the message went out or not.
LayerOneAlerted(h) ==
    /\ \/ pc[h] = "send_pass" /\ Sent(h, "PASS")
       \/ pc[h] = "send_watch" /\ Sent(h, "WATCH")
    /\ Await(h, "assess")
    /\ UNCHANGED <<kind, launch, verdict, level, rows, unrecorded>>

\* The outcomes of an assessment: "critical", or "other" for every other level,
\* and for an assess that raised. No sale is simulated.
Outcomes ==
    {"other"} \cup {IF Level(answer, "none") = "CRITICAL" THEN "critical" ELSE "other" : answer \in Answers}

\* What assess can make of a token: GoPlus does not cover Solana.
Levels(t) == IF kind[t] = "solana" THEN {"other"} ELSE Outcomes

\* honeypot_detector.assess returns or raises. Only a critical token is
\* alerted; every other level, UNKNOWN and HIGH among them, is logged.
Assessed(h) ==
    /\ pc[h] = "assess"
    /\ \E l \in Levels(current[h]) :
        /\ level' = [level EXCEPT ![h][current[h]] = l]
        /\ \/ l = "critical" /\ Await(h, "send_danger")
           \/ l # "critical" /\ NextToken(h)
    /\ UNCHANGED <<kind, launch, verdict, rows, sent, unrecorded>>

DangerAlerted(h) ==
    /\ pc[h] = "send_danger"
    /\ Sent(h, "DANGER")
    /\ NextToken(h)
    /\ UNCHANGED <<kind, launch, verdict, level, rows, unrecorded>>

-----------------------------------------------------------------------------
Handle(h) ==
    \/ SolanaRecorded(h)
    \/ Screened(h) \/ RejectRecorded(h)
    \/ HoldersRecorded(h) \/ WatchRecorded(h) \/ LayerOneAlerted(h)
    \/ Assessed(h) \/ DangerAlerted(h)

Next ==
    \E h \in Handlers :
        \/ \E batch \in SUBSET Brings[h] : HandOver(h, batch)
        \/ Handle(h)

Spec == Init /\ [][Next]_vars

\* Whatever the callback awaits ends: requests have timeouts, the limiters
\* wake, and SQLite runs in a thread.
FairSpec == Spec /\ \A h \in Handlers : WF_vars(Handle(h))

-----------------------------------------------------------------------------
\* Every variable has its type; a store row is there or is not.
TypeOK ==
    /\ kind \in [Tokens -> {"evm", "solana", "no_block"}]
    /\ launch \in [Tokens -> Launches]
    /\ pc \in [Handlers -> {"idle", "solana", "screen", "reject_edge", "holders",
                            "watch_edge", "send_pass", "send_watch", "assess", "send_danger"}]
    /\ todo \in [Handlers -> SUBSET Tokens]
    /\ current \in [Handlers -> Tokens \cup {NoToken}]
    /\ verdict \in [Handlers -> [Tokens ->
            [verdict : {"none", "PASS", "WATCH", "REJECT"}, scanned : BOOLEAN, minter : BOOLEAN]]]
    /\ level \in [Handlers -> [Tokens -> {"none", "other", "critical"}]]
    /\ rows \in [Tokens -> [{"deployer", "top_holder"} -> 0..1]]
    /\ sent \in [Handlers -> [Tokens -> SUBSET {"PASS", "WATCH", "DANGER"}]]
    /\ handled \in [Handlers -> SUBSET Tokens]
    /\ unrecorded \in [Handlers -> SUBSET Tokens]

\* The alerts of layer 1: PASS for that verdict and no other; WATCH, which
\* README.md:30-31 leaves to the logs, never for another verdict.
LayerOneAlerts(h, t) ==
    /\ "PASS" \in sent[h][t] <=> verdict[h][t].verdict = "PASS"
    /\ "WATCH" \in sent[h][t] => verdict[h][t].verdict = "WATCH"

\* When a handler is done with a token, PASS was sent if and only if layer 1
\* passed it. Every token that was not rejected was assessed, whatever raised in
\* layer 1, the warning about a token that was not scanned included, and DANGER
\* was sent if and only if it is critical, after a PASS too. A rejected token was
\* not assessed and nothing was sent of it ("[PASS] and [DANGER] verdicts only",
\* README.md:30-31; "skip honeypot + deep analysis", main.py:221).
AlertsFollowVerdicts ==
    \A h \in Handlers : \A t \in handled[h] :
        /\ verdict[h][t].verdict = "REJECT" <=> level[h][t] = "none"
        /\ LayerOneAlerts(h, t)
        /\ "DANGER" \in sent[h][t] <=> level[h][t] = "critical"

\* The deployer of a rejected or watched token has its row, or the store raised.
DeployerOnRecord(h, t) ==
    /\ verdict[h][t].minter
    /\ verdict[h][t].verdict \in {"REJECT", "WATCH"}
    /\ t \notin unrecorded[h]
    => rows[t]["deployer"] = 1

\* "Record even rejected tokens — the deployer is the signal" (main.py:208): the
\* deployer of a token that was rejected or watched is on record when the
\* handler is done with it, unless the store raised; once, however many handlers
\* brought the token, so that three rows are three tokens (is_known_rugger).
DeployersOnRecord ==
    \A h \in Handlers : \A t \in handled[h] : DeployerOnRecord(h, t)

\* Every token of a batch is dealt with, whatever raised for those before it.
EveryTokenHandled ==
    \A h \in Handlers : \A t \in Tokens : t \in todo[h] ~> t \in handled[h]

\* What EveryTokenHandled rests on: a step takes a batch, or takes the token of
\* one handler to a later await, or ends it and takes the next of the batch, and
\* the other handlers stay where they are. No token of a batch is dropped.
Order ==
    [solana |-> 1, screen |-> 1, reject_edge |-> 2, holders |-> 2, watch_edge |-> 3,
     send_pass |-> 4, send_watch |-> 4, assess |-> 5, send_danger |-> 6]

Later(h) ==
    /\ pc'[h] \in DOMAIN Order /\ Order[pc'[h]] > Order[pc[h]]
    /\ current'[h] = current[h] /\ todo'[h] = todo[h] /\ handled'[h] = handled[h]

Ends(h) ==
    /\ handled'[h] = handled[h] \cup {current[h]} /\ current[h] \notin handled[h]
    /\ IF todo[h] = {} THEN pc'[h] = "idle" ELSE current'[h] \in todo[h]
    /\ todo'[h] = todo[h] \ {current'[h]}

Rests(h) ==
    /\ pc'[h] = pc[h] /\ current'[h] = current[h]
    /\ todo'[h] = todo[h] /\ handled'[h] = handled[h]

NoTokenDropped ==
    [][\E h \in Handlers :
          /\ pc[h] = "idle" \/ Later(h) \/ Ends(h)
          /\ \A g \in Handlers \ {h} : Rests(g)]_vars

\* Whatever else is known of a token that was assessed, one more thing against
\* it never makes it look safer, nor does a sale that fails instead of going
\* through.
DangersNeverLowerLevel ==
    \A h \in Handlers, t \in Tokens : level[h][t] # "none" => RanksOrdered

\* A level means what honeypot.py says it means: UNKNOWN that there is no source
\* and nothing else (62, 351); SAFE that both sources agree (376) and the holder
\* count is known and not zero (328); a sale that failed is HIGH at least. What
\* GoPlus calls a honeypot is CRITICAL, unless it also calls the token trusted:
\* then it may be HIGH, and is not alerted.
LevelsKeepTheirWord ==
    \A h \in Handlers, t \in Tokens : level[h][t] # "none" => LevelsTruthful

\* "Returns a partial report with a truncated=True flag if the token has too many
\* transfers to scan" (holders.py:27-28): when a handler awaits the top holders
\* of a token, the flag is raised if and only if a cap was met, provided that
\* every query is answered; and a report without it, cut into chunks, fetched
\* side by side and put together again, names those and only those who hold
\* more than dust of the whole chain, the largest balance, who received the
\* first mint and what is left of it. Of a scan with failed queries it says no
\* more than that it is not flagged for nothing.
HolderReportExact ==
    \A h \in Handlers : pc[h] = "holders" => ScanExact

\* "Never raises — returns a REJECT verdict on failure" (quick_screen.py:81),
\* "Detects bundle launches" (README.md:23): a token announced as PASS was
\* no bundle. Not true when the query of the bundle's chunk failed.
PassIsNoBundle ==
    \A h \in Handlers, t \in Tokens :
        "PASS" \in sent[h][t] => ~BundleDetected(launch[t], Chunks)

\* The inductive invariant behind AlertsFollowVerdicts and DeployersOnRecord:
\* what a handler has not begun is untouched, and where it is suspended tells
\* what it has decided, sent and recorded for its current token.
Untouched(h, t) == verdict[h][t] = NoVerdict /\ level[h][t] = "none" /\ sent[h][t] = {}

LayerOneDone(h, t) ==
    verdict[h][t].verdict # "REJECT" /\ LayerOneAlerts(h, t) /\ "DANGER" \notin sent[h][t]

AtCurrent(h, t) ==
    LET v == verdict[h][t]
        undecided == level[h][t] = "none" /\ sent[h][t] = {}
    IN  /\ pc[h] \in {"solana", "screen"} => Untouched(h, t)
        /\ pc[h] = "reject_edge" => undecided /\ v.verdict = "REJECT"
        /\ pc[h] = "holders" => undecided /\ v.verdict \in {"PASS", "WATCH"}
        /\ pc[h] \in {"watch_edge", "send_watch"} =>
              undecided /\ v.verdict = "WATCH" /\ v.scanned
        /\ pc[h] = "send_pass" => undecided /\ v.verdict = "PASS"
        /\ pc[h] = "assess" => level[h][t] = "none" /\ LayerOneDone(h, t)
        /\ pc[h] = "send_danger" => level[h][t] = "critical" /\ LayerOneDone(h, t)

Positions ==
    \A h \in Handlers :
        /\ todo[h] \cap handled[h] = {}
        /\ current[h] \notin todo[h] \cup handled[h]
        /\ pc[h] # "idle" <=> current[h] \in Tokens
        /\ \A t \in Tokens : verdict[h][t].minter => verdict[h][t].scanned

Stages ==
    \A h \in Handlers : \A t \in Tokens :
        /\ t \notin handled[h] \cup {current[h]} => Untouched(h, t)
        /\ t = current[h] => AtCurrent(h, t)
        /\ t = current[h] /\ pc[h] \in {"send_watch", "assess", "send_danger"}
              => DeployerOnRecord(h, t)

PipelineInv == TypeOK /\ Positions /\ Stages /\ AlertsFollowVerdicts /\ DeployersOnRecord
=============================================================================
