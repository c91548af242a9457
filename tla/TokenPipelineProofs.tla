------------------------ MODULE TokenPipelineProofs ------------------------
(***************************************************************************)
(* Proofs about TokenPipeline, for any number of handlers and tokens and   *)
(* any launch windows, and about the functions it awaits: HoneypotScore    *)
(* for every report and HolderScan for every chain, chunk size and cap. Of *)
(* what QuickScreen returns only the shape is used.                        *)
(***************************************************************************)
EXTENDS TokenPipeline, FiniteSetTheorems, SequenceTheorems, WellFoundedInduction, TLAPS

VerdictType ==
    [verdict : {"none", "PASS", "WATCH", "REJECT"}, scanned : BOOLEAN, minter : BOOLEAN]

\* A verdict is PASS, WATCH or REJECT; who knows the minter or passes has scanned.
LEMMA CheckedShape ==
    ASSUME NEW l \in Launches, NEW v \in Checked(l)
    PROVE  /\ v \in VerdictType
           /\ v.verdict \in {"PASS", "WATCH", "REJECT"}
           /\ v.minter => v.scanned
<1>1. l.minted \in BOOLEAN
  <2>1. l \in [minted : BOOLEAN, trades : [Chunks -> DOMAIN Trades]]
    BY Zenon DEF Launches
  <2> QED
    BY <2>1
<1>2. ASSUME NEW s \in {"WATCH", "REJECT"},
             v = [verdict |-> s, scanned |-> FALSE, minter |-> FALSE]
      PROVE  /\ v \in VerdictType
             /\ v.verdict \in {"PASS", "WATCH", "REJECT"}
             /\ v.minter => v.scanned
  BY <1>2 DEF VerdictType
<1>3. ASSUME NEW read \in SUBSET Chunks, NEW s \in {Verdict(l, read), "REJECT"},
             v = [verdict |-> s, scanned |-> TRUE, minter |-> MinterFound(l, read)]
      PROVE  /\ v \in VerdictType
             /\ v.verdict \in {"PASS", "WATCH", "REJECT"}
             /\ v.scanned
  <2>1. s \in {"PASS", "WATCH", "REJECT"}
    BY DEF Verdict
  <2>2. MinterFound(l, read) \in BOOLEAN
    BY <1>1 DEF MinterFound
  <2> QED
    BY <1>3, <2>1, <2>2 DEF VerdictType
<1> QED
  BY <1>2, <1>3 DEF Checked

\* The variables that belong to handler g alone do not change.
Keeps(g) ==
    /\ pc'[g] = pc[g] /\ todo'[g] = todo[g] /\ current'[g] = current[g]
    /\ verdict'[g] = verdict[g] /\ level'[g] = level[g] /\ sent'[g] = sent[g]
    /\ handled'[g] = handled[g] /\ unrecorded'[g] = unrecorded[g]

\* No row of a deployer goes away.
RowsKept == \A t \in Tokens : rows[t]["deployer"] = 1 => rows'[t]["deployer"] = 1

\* The invariant without the types, handler by handler.
Position(h) ==
    /\ todo[h] \cap handled[h] = {}
    /\ current[h] \notin todo[h] \cup handled[h]
    /\ pc[h] # "idle" <=> current[h] \in Tokens
    /\ \A t \in Tokens : verdict[h][t].minter => verdict[h][t].scanned

Stage(h, t) ==
    /\ t \notin handled[h] \cup {current[h]} => Untouched(h, t)
    /\ t = current[h] => AtCurrent(h, t)
    /\ t = current[h] /\ pc[h] \in {"send_watch", "assess", "send_danger"}
          => DeployerOnRecord(h, t)

Done(h, t) ==
    /\ verdict[h][t].verdict = "REJECT" <=> level[h][t] = "none"
    /\ LayerOneAlerts(h, t)
    /\ "DANGER" \in sent[h][t] <=> level[h][t] = "critical"
    /\ DeployerOnRecord(h, t)

Good(h) ==
    /\ Position(h)
    /\ \A t \in Tokens : Stage(h, t)
    /\ \A t \in handled[h] : Done(h, t)

LEMMA PipelineInvByHandler ==
    PipelineInv <=> TypeOK /\ \A h \in Handlers : Good(h)
BY DEF PipelineInv, Positions, Stages, AlertsFollowVerdicts, DeployersOnRecord,
       Good, Position, Stage, Done

\* What another handler does leaves handler g as it was.
LEMMA OthersKeep ==
    ASSUME TypeOK, NEW g \in Handlers, Good(g), Keeps(g), RowsKept
    PROVE  Good(g)'
<1>1. ASSUME NEW t \in Tokens, DeployerOnRecord(g, t) PROVE DeployerOnRecord(g, t)'
  BY <1>1 DEF DeployerOnRecord, Keeps, RowsKept
<1>2. Position(g)'
  BY DEF Good, Position, Keeps
<1>3. ASSUME NEW t \in Tokens PROVE Stage(g, t)'
  <2>1. Stage(g, t)
    BY DEF Good
  <2>2. /\ Untouched(g, t) => Untouched(g, t)'
        /\ AtCurrent(g, t) => AtCurrent(g, t)'
    BY DEF Keeps, Untouched, AtCurrent, LayerOneDone, LayerOneAlerts
  <2> QED
    BY <1>1, <2>1, <2>2 DEF Stage, Keeps
<1>4. ASSUME NEW t \in handled[g] PROVE Done(g, t)'
  <2>1. t \in Tokens /\ Done(g, t)
    BY DEF TypeOK, Good
  <2> QED
    BY <1>1, <2>1 DEF Done, Keeps, LayerOneAlerts
<1> QED
  BY <1>2, <1>3, <1>4 DEF Good, Keeps

-----------------------------------------------------------------------------
(* Types *)

Places == {"idle", "solana", "screen", "reject_edge", "holders",
           "watch_edge", "send_pass", "send_watch", "assess", "send_danger"}

\* What Continue, NextToken and Await assign has its type.
LEMMA ContinueType ==
    ASSUME TypeOK, NEW h \in Handlers, NEW rest \in SUBSET Tokens, Continue(h, rest)
    PROVE  /\ pc' \in [Handlers -> Places]
           /\ todo' \in [Handlers -> SUBSET Tokens]
           /\ current' \in [Handlers -> Tokens \cup {NoToken}]
<1>1. /\ pc \in [Handlers -> Places]
      /\ todo \in [Handlers -> SUBSET Tokens]
      /\ current \in [Handlers -> Tokens \cup {NoToken}]
  BY DEF TypeOK, Places
<1>2. ASSUME NEW t \in Tokens PROVE Entry(t) \in Places
  <2>1. kind[t] \in {"evm", "solana", "no_block"}
    BY DEF TypeOK
  <2> QED
    BY <2>1 DEF Entry, Places
<1>3. CASE rest = {} /\ current' = [current EXCEPT ![h] = NoToken]
           /\ todo' = [todo EXCEPT ![h] = {}] /\ pc' = [pc EXCEPT ![h] = "idle"]
  BY <1>1, <1>3 DEF Places
<1>4. ASSUME NEW t \in rest,
             current' = [current EXCEPT ![h] = t],
             todo' = [todo EXCEPT ![h] = rest \ {t}],
             pc' = [pc EXCEPT ![h] = Entry(t)]
      PROVE  /\ pc' \in [Handlers -> Places]
             /\ todo' \in [Handlers -> SUBSET Tokens]
             /\ current' \in [Handlers -> Tokens \cup {NoToken}]
  BY <1>1, <1>2, <1>4
<1> QED
  BY <1>3, <1>4 DEF Continue

LEMMA NextTokenType ==
    ASSUME TypeOK, NEW h \in Handlers, current[h] \in Tokens, NextToken(h)
    PROVE  /\ pc' \in [Handlers -> Places]
           /\ todo' \in [Handlers -> SUBSET Tokens]
           /\ current' \in [Handlers -> Tokens \cup {NoToken}]
           /\ handled' \in [Handlers -> SUBSET Tokens]
<1>1. todo[h] \in SUBSET Tokens /\ handled \in [Handlers -> SUBSET Tokens]
  BY DEF TypeOK
<1>2. handled' \in [Handlers -> SUBSET Tokens]
  BY <1>1 DEF NextToken
<1>3. Continue(h, todo[h])
  BY DEF NextToken
<1> QED
  BY <1>1, <1>2, <1>3, ContinueType

LEMMA AwaitType ==
    ASSUME TypeOK, NEW h \in Handlers, NEW next \in Places, Await(h, next)
    PROVE  /\ pc' \in [Handlers -> Places]
           /\ todo' \in [Handlers -> SUBSET Tokens]
           /\ current' \in [Handlers -> Tokens \cup {NoToken}]
           /\ handled' \in [Handlers -> SUBSET Tokens]
BY DEF TypeOK, Await, Places

\* A row that is recorded is there; every other one stays what it was.
LEMMA RecordedRows ==
    ASSUME TypeOK, NEW t \in Tokens, NEW role \in {"deployer", "top_holder"},
           rows' = Recorded(t, role)
    PROVE  /\ rows' \in [Tokens -> [{"deployer", "top_holder"} -> 0..1]]
           /\ rows'[t][role] = 1
           /\ RowsKept
<1>1. rows \in [Tokens -> [{"deployer", "top_holder"} -> 0..1]]
  BY DEF TypeOK
<1>2. rows' = [rows EXCEPT ![t] = [rows[t] EXCEPT ![role] = 1]]
  BY DEF Recorded
<1>3. [rows[t] EXCEPT ![role] = 1] \in [{"deployer", "top_holder"} -> 0..1]
  BY <1>1
<1>4. rows' \in [Tokens -> [{"deployer", "top_holder"} -> 0..1]]
  BY <1>1, <1>2, <1>3
<1>5. rows'[t] = [rows[t] EXCEPT ![role] = 1] /\ rows[t] \in [{"deployer", "top_holder"} -> 0..1]
  BY <1>1, <1>2
<1>6. \A u \in Tokens : u # t => rows'[u] = rows[u]
  BY <1>1, <1>2
<1> QED
  BY <1>4, <1>5, <1>6 DEF RowsKept

-----------------------------------------------------------------------------
(* What a step of a handler does to its own part of the invariant *)

\* Nothing is decided, sent or lost for a token other than c.
Elsewhere(h, c) ==
    \A t \in Tokens \ {c} :
        /\ verdict'[h][t] = verdict[h][t] /\ level'[h][t] = level[h][t]
        /\ sent'[h][t] = sent[h][t] /\ (t \in unrecorded'[h] <=> t \in unrecorded[h])

\* The minter is known only from a scan.
Scanned(h) == \A t \in Tokens : verdict[h][t].minter => verdict[h][t].scanned

\* What has been untouched or done stays so while the handler works on c.
LEMMA ElsewhereKept ==
    ASSUME TypeOK, NEW h \in Handlers, NEW c \in Tokens, Elsewhere(h, c), RowsKept,
           NEW t \in Tokens \ {c}
    PROVE  /\ Untouched(h, t) => Untouched(h, t)'
           /\ Done(h, t) => Done(h, t)'
<1>1. /\ verdict'[h][t] = verdict[h][t] /\ level'[h][t] = level[h][t]
      /\ sent'[h][t] = sent[h][t] /\ (t \in unrecorded'[h] <=> t \in unrecorded[h])
  BY DEF Elsewhere
<1>2. DeployerOnRecord(h, t) => DeployerOnRecord(h, t)'
  BY <1>1 DEF DeployerOnRecord, RowsKept
<1> QED
  BY <1>1, <1>2 DEF Untouched, Done, LayerOneAlerts

\* The next token of a batch is as untouched as the invariant asks at its entry.
LEMMA Proceeds ==
    ASSUME TypeOK, TypeOK', NEW h \in Handlers, NEW rest \in SUBSET Tokens, Continue(h, rest),
           kind' = kind, rest \cap handled'[h] = {}, Scanned(h)',
           \A t \in Tokens \ handled'[h] : Untouched(h, t)',
           \A t \in handled'[h] : Done(h, t)'
    PROVE  Good(h)'
<1>1. /\ pc \in [Handlers -> Places]
      /\ todo \in [Handlers -> SUBSET Tokens]
      /\ current \in [Handlers -> Tokens \cup {NoToken}]
      /\ handled' \in [Handlers -> SUBSET Tokens]
  BY DEF TypeOK, Places
<1>2. CASE rest = {} /\ current' = [current EXCEPT ![h] = NoToken]
           /\ todo' = [todo EXCEPT ![h] = {}] /\ pc' = [pc EXCEPT ![h] = "idle"]
  <2>1. current'[h] = NoToken /\ todo'[h] = {} /\ pc'[h] = "idle"
    BY <1>1, <1>2
  <2>2. Position(h)'
    BY <1>1, <2>1, HandledAssumption DEF Position, Scanned
  <2>3. ASSUME NEW t \in Tokens PROVE Stage(h, t)'
    BY <2>1, HandledAssumption DEF Stage
  <2> QED
    BY <2>2, <2>3 DEF Good
<1>3. ASSUME NEW c \in rest,
             current' = [current EXCEPT ![h] = c],
             todo' = [todo EXCEPT ![h] = rest \ {c}],
             pc' = [pc EXCEPT ![h] = Entry(c)]
      PROVE  Good(h)'
  <2>1. current'[h] = c /\ todo'[h] = rest \ {c} /\ pc'[h] = Entry(c)
    BY <1>1, <1>3
  <2>2. Entry(c) \in {"screen", "solana", "assess"}
    <3>1. kind[c] \in {"evm", "solana", "no_block"}
      BY DEF TypeOK
    <3> QED
      BY <3>1 DEF Entry
  <2>3. Position(h)'
    BY <1>1, <2>1, <2>2 DEF Position, Scanned
  <2>4. Untouched(h, c)'
    OBVIOUS
  <2>5. AtCurrent(h, c)'
    BY <2>1, <2>2, <2>4 DEF AtCurrent, Untouched, LayerOneDone, LayerOneAlerts, NoVerdict
  <2>6. DeployerOnRecord(h, c)'
    BY <2>4 DEF DeployerOnRecord, Untouched, NoVerdict
  <2>7. ASSUME NEW t \in Tokens PROVE Stage(h, t)'
    BY <2>1, <2>5, <2>6 DEF Stage
  <2> QED
    BY <2>3, <2>7 DEF Good
<1> QED
  BY <1>2, <1>3 DEF Continue

\* A handler that is done with c, as its verdicts ask, goes on.
LEMMA Finishes ==
    ASSUME TypeOK, TypeOK', NEW h \in Handlers, NEW c \in Tokens, current[h] = c,
           Good(h), NextToken(h), kind' = kind, RowsKept, Elsewhere(h, c),
           Scanned(h)', Done(h, c)'
    PROVE  Good(h)'
<1>1. handled'[h] = handled[h] \cup {c}
  BY DEF TypeOK, NextToken
<1>2. todo[h] \in SUBSET Tokens /\ handled[h] \in SUBSET Tokens
  BY DEF TypeOK
<1>3. todo[h] \cap handled'[h] = {}
  BY <1>1 DEF Good, Position
<1>4. ASSUME NEW t \in Tokens \ handled'[h] PROVE Untouched(h, t)'
  <2>1. t # c /\ Untouched(h, t)
    BY <1>1 DEF Good, Stage
  <2> QED
    BY <2>1, ElsewhereKept
<1>5. ASSUME NEW t \in handled'[h] PROVE Done(h, t)'
  <2>1. CASE t # c
    BY <1>1, <1>2, <2>1, ElsewhereKept DEF Good
  <2> QED
    BY <2>1
<1>6. Continue(h, todo[h])
  BY DEF NextToken
<1> QED
  BY <1>2, <1>3, <1>4, <1>5, <1>6, Proceeds

\* A handler that stays with c keeps the rest of its invariant.
LEMMA Stays ==
    ASSUME TypeOK, TypeOK', NEW h \in Handlers, NEW c \in Tokens, current[h] = c,
           Good(h), NEW next, next # "idle", Await(h, next), RowsKept, Elsewhere(h, c),
           Scanned(h)', AtCurrent(h, c)',
           next \in {"send_watch", "assess", "send_danger"} => DeployerOnRecord(h, c)'
    PROVE  Good(h)'
<1>1. /\ pc'[h] = next /\ todo'[h] = todo[h] /\ current'[h] = c
      /\ handled'[h] = handled[h] /\ handled[h] \in SUBSET Tokens
  BY DEF TypeOK, Await
<1>2. Position(h)'
  BY <1>1 DEF Position, Good, Scanned
<1>3. ASSUME NEW t \in Tokens PROVE Stage(h, t)'
  <2>1. CASE t = c
    BY <1>1, <2>1 DEF Stage
  <2>2. CASE t # c
    BY <1>1, <2>2, ElsewhereKept DEF Stage, Good
  <2> QED
    BY <2>1, <2>2
<1>4. ASSUME NEW t \in handled'[h] PROVE Done(h, t)'
  <2>1. t # c /\ t \in Tokens /\ Done(h, t)
    BY <1>1 DEF Good, Position
  <2> QED
    BY <2>1, ElsewhereKept
<1> QED
  BY <1>2, <1>3, <1>4 DEF Good

-----------------------------------------------------------------------------
(* The steps of a handler, one lemma per action *)

\* What every step of h comes to.
Sound(h) ==
    /\ TypeOK' /\ RowsKept /\ Good(h)'
    /\ \A g \in Handlers \ {h} : Keeps(g)

LEMMA HandOverSound ==
    ASSUME TypeOK, NEW h \in Handlers, Good(h), NEW batch \in SUBSET Tokens, HandOver(h, batch)
    PROVE  Sound(h)
<1>1. Continue(h, batch) /\ batch \cap handled[h] = {} /\ pc[h] = "idle"
  BY DEF HandOver
<1>2. /\ kind' = kind /\ launch' = launch /\ verdict' = verdict /\ level' = level
      /\ rows' = rows /\ sent' = sent /\ handled' = handled /\ unrecorded' = unrecorded
  BY DEF HandOver
<1>3. TypeOK'
  BY <1>1, <1>2, ContinueType DEF TypeOK, Places
<1>4. Scanned(h)'
  BY <1>2 DEF Good, Position, Scanned
<1>5. RowsKept
  BY <1>2 DEF RowsKept
<1>6. ASSUME NEW t \in Tokens \ handled'[h] PROVE Untouched(h, t)'
  <2>1. t \notin handled[h] \cup {current[h]}
    BY <1>1, <1>2 DEF Good, Position
  <2>2. Untouched(h, t)
    BY <2>1 DEF Good, Stage
  <2> QED
    BY <1>2, <2>2 DEF Untouched
<1>7. ASSUME NEW t \in handled'[h] PROVE Done(h, t)'
  <2>1. Done(h, t)
    BY <1>2 DEF Good
  <2> QED
    BY <1>2, <2>1 DEF Done, LayerOneAlerts, DeployerOnRecord
<1>8. Good(h)'
  BY <1>1, <1>2, <1>3, <1>4, <1>6, <1>7, Proceeds
<1>9. ASSUME NEW g \in Handlers \ {h} PROVE Keeps(g)
  BY <1>1, <1>2 DEF TypeOK, Continue, Keeps
<1> QED
  BY <1>3, <1>5, <1>8, <1>9 DEF Sound

\* What a handler that works on c knows before its step.
LEMMA Working ==
    ASSUME TypeOK, NEW h \in Handlers, Good(h), pc[h] # "idle"
    PROVE  /\ current[h] \in Tokens
           /\ AtCurrent(h, current[h])
           /\ pc[h] \in {"send_watch", "assess", "send_danger"} => DeployerOnRecord(h, current[h])
           /\ Scanned(h)
BY DEF Good, Position, Stage, Scanned

\* NextToken and Await leave the other handlers alone.
LEMMA NextTokenKeeps ==
    ASSUME TypeOK, NEW h \in Handlers, NEW g \in Handlers \ {h}, NextToken(h)
    PROVE  pc'[g] = pc[g] /\ todo'[g] = todo[g] /\ current'[g] = current[g] /\ handled'[g] = handled[g]
BY DEF TypeOK, NextToken, Continue

LEMMA AwaitKeeps ==
    ASSUME TypeOK, NEW h \in Handlers, NEW g \in Handlers \ {h}, NEW next, Await(h, next)
    PROVE  pc'[g] = pc[g] /\ todo'[g] = todo[g] /\ current'[g] = current[g] /\ handled'[g] = handled[g]
BY DEF TypeOK, Await

\* What is recorded of top holders removes nothing.
LEMMA HoldersRows ==
    ASSUME TypeOK, NEW c \in Tokens, rows' \in {rows, Recorded(c, "top_holder")}
    PROVE  RowsKept /\ rows' \in [Tokens -> [{"deployer", "top_holder"} -> 0..1]]
<1>1. CASE rows' = rows
  BY <1>1 DEF RowsKept, TypeOK
<1>2. CASE rows' = Recorded(c, "top_holder")
  BY <1>2, RecordedRows
<1> QED
  BY <1>1, <1>2

\* After record_edge the deployer is on record, or the handler lost it.
LEMMA DeployerRows ==
    ASSUME TypeOK, NEW h \in Handlers, NEW c \in Tokens, current[h] = c, DeployerRecorded(h)
    PROVE  /\ RowsKept /\ rows' \in [Tokens -> [{"deployer", "top_holder"} -> 0..1]]
           /\ unrecorded' \in [Handlers -> SUBSET Tokens]
           /\ rows'[c]["deployer"] = 1 \/ c \in unrecorded'[h]
           /\ \A t \in Tokens \ {c} : t \in unrecorded'[h] <=> t \in unrecorded[h]
           /\ \A g \in Handlers \ {h} : unrecorded'[g] = unrecorded[g]
<1>1. CASE rows' = Recorded(c, "deployer") /\ unrecorded' = unrecorded
  BY <1>1, RecordedRows DEF TypeOK
<1>2. CASE unrecorded' = [unrecorded EXCEPT ![h] = @ \cup {c}] /\ rows' = rows
  BY <1>2 DEF TypeOK, RowsKept
<1> QED
  BY <1>1, <1>2 DEF DeployerRecorded

LEMMA SolanaRecordedSound ==
    ASSUME TypeOK, NEW h \in Handlers, Good(h), SolanaRecorded(h)
    PROVE  Sound(h)
<1>1. PICK c \in Tokens : current[h] = c
  BY Working DEF SolanaRecorded
<1>2. Untouched(h, c)
  BY <1>1, Working DEF SolanaRecorded, AtCurrent
<1>3. /\ kind' = kind /\ launch' = launch /\ verdict' = verdict /\ level' = level
      /\ sent' = sent /\ unrecorded' = unrecorded
      /\ Await(h, "assess") /\ rows' \in {rows, Recorded(c, "top_holder")}
  BY <1>1 DEF SolanaRecorded
<1>4. RowsKept /\ rows' \in [Tokens -> [{"deployer", "top_holder"} -> 0..1]]
  BY <1>3, HoldersRows
<1>5. TypeOK'
  BY <1>3, <1>4, AwaitType DEF TypeOK, Places
<1>6. Elsewhere(h, c) /\ Scanned(h)'
  BY <1>3, Working DEF Elsewhere, Scanned, SolanaRecorded
<1>7. Untouched(h, c)'
  BY <1>2, <1>3 DEF Untouched
<1>8. AtCurrent(h, c)' /\ DeployerOnRecord(h, c)'
  <2>1. pc'[h] = "assess"
    BY <1>3 DEF TypeOK, Await
  <2> QED
    BY <1>7, <2>1 DEF AtCurrent, Untouched, LayerOneDone, LayerOneAlerts, NoVerdict, DeployerOnRecord
<1>9. Good(h)'
  BY <1>1, <1>3, <1>4, <1>5, <1>6, <1>8, Stays
<1>10. ASSUME NEW g \in Handlers \ {h} PROVE Keeps(g)
  BY <1>3, AwaitKeeps DEF Keeps
<1> QED
  BY <1>4, <1>5, <1>9, <1>10 DEF Sound

LEMMA ScreenedSound ==
    ASSUME TypeOK, NEW h \in Handlers, Good(h), Screened(h)
    PROVE  Sound(h)
<1>1. PICK c \in Tokens : current[h] = c
  BY Working DEF Screened
<1>2. Untouched(h, c)
  BY <1>1, Working DEF Screened, AtCurrent
<1>3. /\ kind' = kind /\ launch' = launch /\ level' = level /\ rows' = rows
      /\ sent' = sent /\ unrecorded' = unrecorded
  BY DEF Screened
<1>4. PICK v \in Checked(launch[c]) :
        /\ verdict' = [verdict EXCEPT ![h][c] = v]
        /\ \/ v.verdict = "REJECT" /\ v.minter /\ Await(h, "reject_edge")
           \/ v.verdict = "REJECT" /\ ~v.minter /\ NextToken(h)
           \/ v.verdict # "REJECT" /\ Await(h, "holders")
  BY <1>1 DEF Screened
<1>5. v \in VerdictType /\ v.verdict \in {"PASS", "WATCH", "REJECT"} /\ (v.minter => v.scanned)
  BY CheckedShape DEF TypeOK
<1>6. /\ verdict \in [Handlers -> [Tokens -> VerdictType]]
      /\ verdict' \in [Handlers -> [Tokens -> VerdictType]]
      /\ verdict'[h][c] = v
      /\ \A t \in Tokens \ {c} : verdict'[h][t] = verdict[h][t]
      /\ \A g \in Handlers \ {h} : verdict'[g] = verdict[g]
  <2>1. verdict \in [Handlers -> [Tokens -> VerdictType]]
    BY DEF TypeOK, VerdictType
  <2> QED
    BY <1>4, <1>5, <2>1
<1>7. RowsKept /\ Elsewhere(h, c)
  BY <1>3, <1>6 DEF RowsKept, Elsewhere
<1>8. Scanned(h)'
  BY <1>5, <1>6, Working DEF Scanned, Screened
<1>9. level'[h][c] = "none" /\ sent'[h][c] = {}
  BY <1>2, <1>3 DEF Untouched
<1>10. CASE v.verdict = "REJECT" /\ ~v.minter /\ NextToken(h)
  <2>1. TypeOK'
    BY <1>1, <1>3, <1>6, <1>10, NextTokenType DEF TypeOK, VerdictType, Places
  <2>2. Done(h, c)'
    BY <1>6, <1>9, <1>10 DEF Done, LayerOneAlerts, DeployerOnRecord
  <2>3. Good(h)'
    BY <1>1, <1>3, <1>7, <1>8, <1>10, <2>1, <2>2, Finishes
  <2>4. ASSUME NEW g \in Handlers \ {h} PROVE Keeps(g)
    BY <1>3, <1>6, <1>10, NextTokenKeeps DEF Keeps
  <2> QED
    BY <1>7, <2>1, <2>3, <2>4 DEF Sound
<1>11. ASSUME NEW next \in {"reject_edge", "holders"}, Await(h, next),
              v.verdict = "REJECT" <=> next = "reject_edge"
       PROVE  Sound(h)
  <2>1. TypeOK'
    BY <1>3, <1>6, <1>11, AwaitType DEF TypeOK, VerdictType, Places
  <2>2. pc'[h] = next
    BY <1>11 DEF TypeOK, Await
  <2>3. AtCurrent(h, c)'
    BY <1>5, <1>6, <1>9, <1>11, <2>2 DEF AtCurrent
  <2>4. Good(h)'
    BY <1>1, <1>7, <1>8, <1>11, <2>1, <2>3, Stays
  <2>5. ASSUME NEW g \in Handlers \ {h} PROVE Keeps(g)
    BY <1>3, <1>6, <1>11, AwaitKeeps DEF Keeps
  <2> QED
    BY <1>7, <2>1, <2>4, <2>5 DEF Sound
<1> QED
  BY <1>4, <1>10, <1>11

LEMMA RejectRecordedSound ==
    ASSUME TypeOK, NEW h \in Handlers, Good(h), RejectRecorded(h)
    PROVE  Sound(h)
<1>1. PICK c \in Tokens : current[h] = c
  BY Working DEF RejectRecorded
<1>2. verdict[h][c].verdict = "REJECT" /\ level[h][c] = "none" /\ sent[h][c] = {}
  BY <1>1, Working DEF RejectRecorded, AtCurrent
<1>3. /\ kind' = kind /\ launch' = launch /\ verdict' = verdict /\ level' = level
      /\ sent' = sent /\ NextToken(h) /\ DeployerRecorded(h)
  BY DEF RejectRecorded
<1>4. TypeOK'
  BY <1>1, <1>3, DeployerRows, NextTokenType DEF TypeOK, Places
<1>5. RowsKept /\ Elsewhere(h, c) /\ Scanned(h)'
  BY <1>1, <1>3, DeployerRows, Working DEF Elsewhere, Scanned, RejectRecorded
<1>6. Done(h, c)'
  BY <1>1, <1>2, <1>3, DeployerRows DEF Done, LayerOneAlerts, DeployerOnRecord
<1>7. Good(h)'
  BY <1>1, <1>3, <1>4, <1>5, <1>6, Finishes
<1>8. ASSUME NEW g \in Handlers \ {h} PROVE Keeps(g)
  BY <1>1, <1>3, DeployerRows, NextTokenKeeps DEF Keeps
<1> QED
  BY <1>4, <1>5, <1>7, <1>8 DEF Sound

LEMMA HoldersRecordedSound ==
    ASSUME TypeOK, NEW h \in Handlers, Good(h), HoldersRecorded(h)
    PROVE  Sound(h)
<1>1. PICK c \in Tokens : current[h] = c
  BY Working DEF HoldersRecorded
<1>2. verdict[h][c].verdict \in {"PASS", "WATCH"} /\ level[h][c] = "none" /\ sent[h][c] = {}
  BY <1>1, Working DEF HoldersRecorded, AtCurrent
<1>3. verdict[h][c].minter => verdict[h][c].scanned
  BY Working DEF HoldersRecorded, Scanned
<1> DEFINE next == AfterHolders(verdict[h][c])
<1>4. /\ kind' = kind /\ launch' = launch /\ verdict' = verdict /\ level' = level
      /\ sent' = sent /\ unrecorded' = unrecorded
      /\ Await(h, next) /\ rows' \in {rows, Recorded(c, "top_holder")}
  BY <1>1 DEF HoldersRecorded
<1>5. RowsKept /\ rows' \in [Tokens -> [{"deployer", "top_holder"} -> 0..1]]
  BY <1>4, HoldersRows
<1>6. \/ next = "send_pass" /\ verdict[h][c].verdict = "PASS"
      \/ next = "assess" /\ verdict[h][c].verdict = "WATCH" /\ ~verdict[h][c].scanned
      \/ next = "watch_edge" /\ verdict[h][c].verdict = "WATCH" /\ verdict[h][c].scanned
      \/ /\ next = "send_watch" /\ verdict[h][c].verdict = "WATCH"
         /\ verdict[h][c].scanned /\ ~verdict[h][c].minter
  <2>1. verdict[h][c].scanned \in BOOLEAN /\ verdict[h][c].minter \in BOOLEAN
    BY DEF TypeOK
  <2> QED
    BY <1>2, <2>1 DEF AfterHolders
<1>7. next \in Places \ {"idle"}
  BY <1>6 DEF Places
<1> HIDE DEF next
<1>8. TypeOK'
  BY <1>4, <1>5, <1>7, AwaitType DEF TypeOK, Places
<1>9. Elsewhere(h, c) /\ Scanned(h)'
  BY <1>4, Working DEF Elsewhere, Scanned, HoldersRecorded
<1>10. pc'[h] = next
  BY <1>4 DEF TypeOK, Await
<1>11. AtCurrent(h, c)'
  BY <1>2, <1>4, <1>6, <1>10 DEF AtCurrent, LayerOneDone, LayerOneAlerts
<1>12. next \in {"send_watch", "assess", "send_danger"} => DeployerOnRecord(h, c)'
  BY <1>3, <1>4, <1>6 DEF DeployerOnRecord
<1>13. Good(h)'
  BY <1>1, <1>4, <1>5, <1>7, <1>8, <1>9, <1>11, <1>12, Stays
<1>14. ASSUME NEW g \in Handlers \ {h} PROVE Keeps(g)
  BY <1>4, AwaitKeeps DEF Keeps
<1> QED
  BY <1>5, <1>8, <1>13, <1>14 DEF Sound

LEMMA WatchRecordedSound ==
    ASSUME TypeOK, NEW h \in Handlers, Good(h), WatchRecorded(h)
    PROVE  Sound(h)
<1>1. PICK c \in Tokens : current[h] = c
  BY Working DEF WatchRecorded
<1>2. /\ verdict[h][c].verdict = "WATCH" /\ verdict[h][c].scanned
      /\ level[h][c] = "none" /\ sent[h][c] = {}
  BY <1>1, Working DEF WatchRecorded, AtCurrent
<1>3. /\ kind' = kind /\ launch' = launch /\ verdict' = verdict /\ level' = level
      /\ sent' = sent /\ Await(h, "send_watch") /\ DeployerRecorded(h)
  BY DEF WatchRecorded
<1>4. TypeOK'
  BY <1>1, <1>3, DeployerRows, AwaitType DEF TypeOK, Places
<1>5. RowsKept /\ Elsewhere(h, c) /\ Scanned(h)'
  BY <1>1, <1>3, DeployerRows, Working DEF Elsewhere, Scanned, WatchRecorded
<1>6. pc'[h] = "send_watch"
  BY <1>3 DEF TypeOK, Await
<1>7. AtCurrent(h, c)'
  BY <1>2, <1>3, <1>6 DEF AtCurrent
<1>8. DeployerOnRecord(h, c)'
  BY <1>1, <1>3, DeployerRows DEF DeployerOnRecord
<1>9. Good(h)'
  BY <1>1, <1>3, <1>4, <1>5, <1>7, <1>8, Stays
<1>10. ASSUME NEW g \in Handlers \ {h} PROVE Keeps(g)
  BY <1>1, <1>3, DeployerRows, AwaitKeeps DEF Keeps
<1> QED
  BY <1>4, <1>5, <1>9, <1>10 DEF Sound

\* What an alert for c changes.
LEMMA SentTo ==
    ASSUME TypeOK, NEW h \in Handlers, NEW c \in Tokens, current[h] = c,
           NEW alert \in {"PASS", "WATCH", "DANGER"}, Sent(h, alert)
    PROVE  /\ sent' \in [Handlers -> [Tokens -> SUBSET {"PASS", "WATCH", "DANGER"}]]
           /\ sent'[h][c] = sent[h][c] \cup {alert}
           /\ \A t \in Tokens \ {c} : sent'[h][t] = sent[h][t]
           /\ \A g \in Handlers \ {h} : sent'[g] = sent[g]
<1>1. sent \in [Handlers -> [Tokens -> SUBSET {"PASS", "WATCH", "DANGER"}]]
  BY DEF TypeOK
<1>2. sent' = [sent EXCEPT ![h][c] = sent[h][c] \cup {alert}]
  BY DEF Sent
<1> QED
  BY <1>1, <1>2

LEMMA LayerOneAlertedSound ==
    ASSUME TypeOK, NEW h \in Handlers, Good(h), LayerOneAlerted(h)
    PROVE  Sound(h)
<1>1. PICK c \in Tokens : current[h] = c
  BY Working DEF LayerOneAlerted
<1>2. PICK alert \in {"PASS", "WATCH"} : Sent(h, alert) /\
        (\/ pc[h] = "send_pass" /\ alert = "PASS"
         \/ pc[h] = "send_watch" /\ alert = "WATCH")
  BY DEF LayerOneAlerted
<1>3. /\ verdict[h][c].verdict = alert /\ (alert = "WATCH" => verdict[h][c].scanned)
      /\ level[h][c] = "none" /\ sent[h][c] = {}
  BY <1>1, <1>2, Working DEF AtCurrent
<1>4. /\ kind' = kind /\ launch' = launch /\ verdict' = verdict /\ level' = level
      /\ rows' = rows /\ unrecorded' = unrecorded /\ Await(h, "assess")
  BY DEF LayerOneAlerted
<1>5. TypeOK'
  BY <1>1, <1>2, <1>4, SentTo, AwaitType DEF TypeOK, Places
<1>6. RowsKept /\ Elsewhere(h, c) /\ Scanned(h)'
  BY <1>1, <1>2, <1>4, SentTo, Working DEF RowsKept, Elsewhere, Scanned
<1>7. pc'[h] = "assess"
  BY <1>4 DEF TypeOK, Await
<1>8. sent'[h][c] = {alert}
  BY <1>1, <1>2, <1>3, SentTo
<1>9. AtCurrent(h, c)'
  BY <1>3, <1>4, <1>7, <1>8 DEF AtCurrent, LayerOneDone, LayerOneAlerts
<1>10. DeployerOnRecord(h, c)'
  BY <1>1, <1>2, <1>3, <1>4, Working DEF DeployerOnRecord
<1>11. Good(h)'
  BY <1>1, <1>4, <1>5, <1>6, <1>9, <1>10, Stays
<1>12. ASSUME NEW g \in Handlers \ {h} PROVE Keeps(g)
  BY <1>1, <1>2, <1>4, SentTo, AwaitKeeps DEF Keeps
<1> QED
  BY <1>5, <1>6, <1>11, <1>12 DEF Sound

LEMMA AssessedSound ==
    ASSUME TypeOK, NEW h \in Handlers, Good(h), Assessed(h)
    PROVE  Sound(h)
<1>1. PICK c \in Tokens : current[h] = c
  BY Working DEF Assessed
<1>2. level[h][c] = "none" /\ LayerOneDone(h, c) /\ DeployerOnRecord(h, c)
  BY <1>1, Working DEF Assessed, AtCurrent
<1>3. PICK l \in Levels(c) :
        /\ level' = [level EXCEPT ![h][c] = l]
        /\ \/ l = "critical" /\ Await(h, "send_danger")
           \/ l # "critical" /\ NextToken(h)
  BY <1>1 DEF Assessed
<1>4. l \in {"other", "critical"}
  BY DEF Levels, Outcomes
<1>5. /\ kind' = kind /\ launch' = launch /\ verdict' = verdict /\ rows' = rows
      /\ sent' = sent /\ unrecorded' = unrecorded
  BY DEF Assessed
<1>6. /\ level' \in [Handlers -> [Tokens -> {"none", "other", "critical"}]]
      /\ level'[h][c] = l
      /\ \A t \in Tokens \ {c} : level'[h][t] = level[h][t]
      /\ \A g \in Handlers \ {h} : level'[g] = level[g]
  <2>1. level \in [Handlers -> [Tokens -> {"none", "other", "critical"}]]
    BY DEF TypeOK
  <2> QED
    BY <1>3, <1>4, <2>1
<1>7. RowsKept /\ Elsewhere(h, c) /\ Scanned(h)'
  BY <1>5, <1>6, Working DEF RowsKept, Elsewhere, Scanned, Assessed
<1>8. DeployerOnRecord(h, c)' /\ LayerOneDone(h, c)'
  BY <1>2, <1>5 DEF DeployerOnRecord, LayerOneDone, LayerOneAlerts
<1>9. CASE l # "critical" /\ NextToken(h)
  <2>1. TypeOK'
    BY <1>1, <1>5, <1>6, <1>9, NextTokenType DEF TypeOK, Places
  <2>2. Done(h, c)'
    BY <1>4, <1>6, <1>8, <1>9 DEF Done, LayerOneDone
  <2>3. Good(h)'
    BY <1>1, <1>5, <1>7, <1>9, <2>1, <2>2, Finishes
  <2>4. ASSUME NEW g \in Handlers \ {h} PROVE Keeps(g)
    BY <1>5, <1>6, <1>9, NextTokenKeeps DEF Keeps
  <2> QED
    BY <1>7, <2>1, <2>3, <2>4 DEF Sound
<1>10. CASE l = "critical" /\ Await(h, "send_danger")
  <2>1. TypeOK'
    BY <1>5, <1>6, <1>10, AwaitType DEF TypeOK, Places
  <2>2. pc'[h] = "send_danger"
    BY <1>10 DEF TypeOK, Await
  <2>3. AtCurrent(h, c)'
    BY <1>6, <1>8, <1>10, <2>2 DEF AtCurrent
  <2>4. Good(h)'
    BY <1>1, <1>7, <1>8, <1>10, <2>1, <2>3, Stays
  <2>5. ASSUME NEW g \in Handlers \ {h} PROVE Keeps(g)
    BY <1>5, <1>6, <1>10, AwaitKeeps DEF Keeps
  <2> QED
    BY <1>7, <2>1, <2>4, <2>5 DEF Sound
<1> QED
  BY <1>3, <1>9, <1>10

LEMMA DangerAlertedSound ==
    ASSUME TypeOK, NEW h \in Handlers, Good(h), DangerAlerted(h)
    PROVE  Sound(h)
<1>1. PICK c \in Tokens : current[h] = c
  BY Working DEF DangerAlerted
<1>2. level[h][c] = "critical" /\ LayerOneDone(h, c) /\ DeployerOnRecord(h, c)
  BY <1>1, Working DEF DangerAlerted, AtCurrent
<1>3. /\ kind' = kind /\ launch' = launch /\ verdict' = verdict /\ level' = level
      /\ rows' = rows /\ unrecorded' = unrecorded /\ Sent(h, "DANGER") /\ NextToken(h)
  BY DEF DangerAlerted
<1>4. TypeOK'
  BY <1>1, <1>3, SentTo, NextTokenType DEF TypeOK, Places
<1>5. RowsKept /\ Elsewhere(h, c) /\ Scanned(h)'
  BY <1>1, <1>3, SentTo, Working DEF RowsKept, Elsewhere, Scanned, DangerAlerted
<1>6. Done(h, c)'
  <2>1. sent'[h][c] = sent[h][c] \cup {"DANGER"}
    BY <1>1, <1>3, SentTo
  <2> QED
    BY <1>2, <1>3, <2>1 DEF Done, LayerOneDone, LayerOneAlerts, DeployerOnRecord
<1>7. Good(h)'
  BY <1>1, <1>3, <1>4, <1>5, <1>6, Finishes
<1>8. ASSUME NEW g \in Handlers \ {h} PROVE Keeps(g)
  BY <1>1, <1>3, SentTo, NextTokenKeeps DEF Keeps
<1> QED
  BY <1>4, <1>5, <1>7, <1>8 DEF Sound

-----------------------------------------------------------------------------
(* The inductive invariant *)

LEMMA InitInv == Init => PipelineInv
<1> SUFFICES ASSUME Init PROVE PipelineInv
  OBVIOUS
<1>1. TypeOK
  BY DEF Init, TypeOK, NoVerdict
<1>2. ASSUME NEW h \in Handlers PROVE Good(h)
  <2>1. Position(h)
    BY HandledAssumption DEF Init, Position, NoVerdict
  <2>2. ASSUME NEW t \in Tokens PROVE Stage(h, t)
    BY HandledAssumption DEF Init, Stage, Untouched
  <2> QED
    BY <2>1, <2>2 DEF Good, Init
<1> QED
  BY <1>1, <1>2, PipelineInvByHandler

LEMMA StepInv == PipelineInv /\ [Next]_vars => PipelineInv'
<1> SUFFICES ASSUME PipelineInv, [Next]_vars PROVE PipelineInv'
  OBVIOUS
<1>1. TypeOK /\ \A h \in Handlers : Good(h)
  BY PipelineInvByHandler
<1>2. ASSUME NEW h \in Handlers, Sound(h) PROVE PipelineInv'
  <2>1. ASSUME NEW g \in Handlers \ {h} PROVE Good(g)'
    BY <1>1, <1>2, OthersKeep DEF Sound
  <2>2. TypeOK' /\ \A g \in Handlers : Good(g)'
    BY <1>2, <2>1 DEF Sound
  <2> QED
    BY <2>2 DEF PipelineInv, Positions, Stages, AlertsFollowVerdicts, DeployersOnRecord,
                Good, Position, Stage, Done
<1>3. CASE UNCHANGED vars
  <2>1. /\ kind' = kind /\ launch' = launch /\ rows' = rows
        /\ pc' = pc /\ todo' = todo /\ current' = current /\ verdict' = verdict
        /\ level' = level /\ sent' = sent /\ handled' = handled /\ unrecorded' = unrecorded
    BY <1>3 DEF vars
  <2>2. TypeOK'
    BY <1>1, <2>1 DEF TypeOK
  <2>3. ASSUME NEW h \in Handlers PROVE Good(h)'
    BY <1>1, <2>1, OthersKeep DEF Keeps, RowsKept
  <2> QED
    BY <2>2, <2>3 DEF PipelineInv, Positions, Stages, AlertsFollowVerdicts, DeployersOnRecord,
                      Good, Position, Stage, Done
<1>4. ASSUME NEW h \in Handlers, NEW batch \in SUBSET Brings[h], HandOver(h, batch)
      PROVE  PipelineInv'
  <2>1. batch \in SUBSET Tokens
    BY BringsAssumption
  <2> QED
    BY <1>1, <1>2, <1>4, <2>1, HandOverSound
<1>5. ASSUME NEW h \in Handlers, Handle(h) PROVE PipelineInv'
  <2>1. Sound(h)
    BY <1>1, <1>5, SolanaRecordedSound, ScreenedSound, RejectRecordedSound,
       HoldersRecordedSound, WatchRecordedSound, LayerOneAlertedSound,
       AssessedSound, DangerAlertedSound DEF Handle
  <2> QED
    BY <1>2, <2>1
<1> QED
  BY <1>3, <1>4, <1>5 DEF Next

\* What NextToken and Await do to the place of a handler.
LEMMA NextTokenEnds ==
    ASSUME TypeOK, NEW h \in Handlers, Good(h), pc[h] # "idle", NextToken(h)
    PROVE  Ends(h) /\ \A g \in Handlers \ {h} : Rests(g)
<1>1. /\ pc \in [Handlers -> Places] /\ todo \in [Handlers -> SUBSET Tokens]
      /\ current \in [Handlers -> Tokens \cup {NoToken}]
      /\ handled \in [Handlers -> SUBSET Tokens]
  BY DEF TypeOK, Places
<1>2. current[h] \notin handled[h]
  BY DEF Good, Position
<1>3. /\ handled' = [handled EXCEPT ![h] = @ \cup {current[h]}] /\ Continue(h, todo[h])
  BY DEF NextToken
<1>4. \A g \in Handlers \ {h} : Rests(g)
  BY <1>1, <1>3 DEF Continue, Rests
<1>5. Ends(h)
  <2>1. CASE todo[h] = {}
    <3>1. pc'[h] = "idle" /\ todo'[h] = {}
      BY <1>1, <1>3, <2>1 DEF Continue
    <3> QED
      BY <1>1, <1>2, <1>3, <2>1, <3>1 DEF Ends
  <2>2. CASE todo[h] # {}
    <3>1. PICK t \in todo[h] : /\ current' = [current EXCEPT ![h] = t]
                               /\ todo' = [todo EXCEPT ![h] = todo[h] \ {t}]
      BY <1>3, <2>2 DEF Continue
    <3> QED
      BY <1>1, <1>2, <1>3, <2>2, <3>1 DEF Ends
  <2> QED
    BY <2>1, <2>2
<1> QED
  BY <1>4, <1>5

LEMMA AwaitIsLater ==
    ASSUME TypeOK, NEW h \in Handlers, NEW next \in DOMAIN Order, Await(h, next),
           Order[next] > Order[pc[h]]
    PROVE  Later(h) /\ \A g \in Handlers \ {h} : Rests(g)
BY DEF TypeOK, Await, Later, Rests

\* A step of a handler ends its token or takes it to a later await.
LEMMA HandleMoves ==
    ASSUME TypeOK, NEW h \in Handlers, Good(h), Handle(h)
    PROVE  (Later(h) \/ Ends(h)) /\ \A g \in Handlers \ {h} : Rests(g)
<1> DEFINE Moves == (Later(h) \/ Ends(h)) /\ \A g \in Handlers \ {h} : Rests(g)
<1>1. current[h] \in Tokens
  BY Working DEF Handle, SolanaRecorded, Screened, RejectRecorded, HoldersRecorded, WatchRecorded,
     LayerOneAlerted, Assessed, DangerAlerted
<1>2. ASSUME NextToken(h), pc[h] # "idle" PROVE Moves
  BY <1>2, NextTokenEnds
<1>3. ASSUME NEW next \in DOMAIN Order, Await(h, next), Order[next] > Order[pc[h]] PROVE Moves
  BY <1>3, AwaitIsLater
<1> SUFFICES Moves
  OBVIOUS
<1> HIDE DEF Moves
<1>4. CASE SolanaRecorded(h)
  <2>1. pc[h] = "solana" /\ Await(h, "assess")
    BY <1>4 DEF SolanaRecorded
  <2>2. "assess" \in DOMAIN Order /\ Order["assess"] > Order["solana"]
    BY DEF Order
  <2> QED
    BY <1>3, <2>1, <2>2
<1>5. CASE Screened(h)
  <2>1. /\ pc[h] = "screen"
        /\ Await(h, "reject_edge") \/ Await(h, "holders") \/ NextToken(h)
    BY <1>5 DEF Screened
  <2>2. /\ "reject_edge" \in DOMAIN Order /\ Order["reject_edge"] > Order["screen"]
        /\ "holders" \in DOMAIN Order /\ Order["holders"] > Order["screen"]
    BY DEF Order
  <2> QED
    BY <1>2, <1>3, <2>1, <2>2
<1>6. CASE RejectRecorded(h)
  BY <1>2, <1>6 DEF RejectRecorded
<1>7. CASE HoldersRecorded(h)
  <2> DEFINE v == verdict[h][current[h]]
             next == AfterHolders(v)
  <2>1. pc[h] = "holders" /\ Await(h, next)
    BY <1>7 DEF HoldersRecorded
  <2>2. v.verdict \in {"PASS", "WATCH"} /\ v.scanned \in BOOLEAN /\ v.minter \in BOOLEAN
    <3>1. v \in VerdictType
      BY <1>1 DEF TypeOK, VerdictType
    <3>2. v.verdict \in {"PASS", "WATCH"}
      BY <1>1, <2>1, Working DEF AtCurrent
    <3> QED
      BY <3>1, <3>2 DEF VerdictType
  <2>3. next \in {"send_pass", "assess", "watch_edge", "send_watch"}
    <3>1. CASE v.verdict = "PASS"
      BY <3>1 DEF AfterHolders
    <3>2. CASE v.verdict # "PASS" /\ ~v.scanned
      BY <3>2 DEF AfterHolders
    <3>3. CASE v.verdict # "PASS" /\ v.scanned
      BY <3>3 DEF AfterHolders
    <3> QED
      BY <2>2, <3>1, <3>2, <3>3
  <2>4. next \in DOMAIN Order /\ Order[next] > Order["holders"]
    BY <2>3 DEF Order
  <2> HIDE DEF next
  <2> QED
    BY <1>3, <2>1, <2>4
<1>8. CASE WatchRecorded(h)
  <2>1. pc[h] = "watch_edge" /\ Await(h, "send_watch")
    BY <1>8 DEF WatchRecorded
  <2>2. "send_watch" \in DOMAIN Order /\ Order["send_watch"] > Order["watch_edge"]
    BY DEF Order
  <2> QED
    BY <1>3, <2>1, <2>2
<1>9. CASE LayerOneAlerted(h)
  <2>1. pc[h] \in {"send_pass", "send_watch"} /\ Await(h, "assess")
    BY <1>9 DEF LayerOneAlerted
  <2>2. /\ "assess" \in DOMAIN Order
        /\ Order["assess"] > Order["send_pass"] /\ Order["assess"] > Order["send_watch"]
    BY DEF Order
  <2> QED
    BY <1>3, <2>1, <2>2
<1>10. CASE Assessed(h)
  <2>1. pc[h] = "assess" /\ (Await(h, "send_danger") \/ NextToken(h))
    BY <1>10 DEF Assessed
  <2>2. "send_danger" \in DOMAIN Order /\ Order["send_danger"] > Order["assess"]
    BY DEF Order
  <2> QED
    BY <1>2, <1>3, <2>1, <2>2
<1>11. CASE DangerAlerted(h)
  BY <1>2, <1>11 DEF DangerAlerted
<1> QED
  BY <1>4, <1>5, <1>6, <1>7, <1>8, <1>9, <1>10, <1>11 DEF Handle

\* A batch takes its handler along and leaves the others.
LEMMA HandOverMoves ==
    ASSUME TypeOK, NEW h \in Handlers, NEW batch, HandOver(h, batch)
    PROVE  pc[h] = "idle" /\ \A g \in Handlers \ {h} : Rests(g)
BY DEF TypeOK, HandOver, Continue, Rests

\* NoTokenDropped: a token of a batch is worked on until its handler is done with
\* it, await by await and never back, and then the next is taken (main.py:176-347);
\* what raises, or what another handler does, drops none.
THEOREM TokensCarriedThrough == Spec => NoTokenDropped
<1>1. PipelineInv /\ [Next]_vars =>
        [\E h \in Handlers :
            /\ pc[h] = "idle" \/ Later(h) \/ Ends(h)
            /\ \A g \in Handlers \ {h} : Rests(g)]_vars
  <2> SUFFICES ASSUME PipelineInv, Next
               PROVE  \E h \in Handlers :
                        /\ pc[h] = "idle" \/ Later(h) \/ Ends(h)
                        /\ \A g \in Handlers \ {h} : Rests(g)
    OBVIOUS
  <2>1. TypeOK /\ \A h \in Handlers : Good(h)
    BY PipelineInvByHandler
  <2>2. PICK h \in Handlers : (\E batch \in SUBSET Brings[h] : HandOver(h, batch)) \/ Handle(h)
    BY DEF Next
  <2> QED
    BY <2>1, <2>2, HandleMoves, HandOverMoves
<1> QED
  BY <1>1, InitInv, StepInv, PTL DEF Spec, NoTokenDropped

\* TypeOK: every variable keeps its type; no wallet has two rows for one token and role.
THEOREM PipelineTypeCorrect == Spec => []TypeOK
<1>1. PipelineInv => TypeOK
  BY DEF PipelineInv
<1> QED
  BY <1>1, InitInv, StepInv, PTL DEF Spec

\* AlertsFollowVerdicts: when on_tokens_found is done with a token, the alerts
\* of PASS and DANGER that were sent are those its two verdicts call for, and it
\* was assessed unless rejected, whatever raised meanwhile.
THEOREM AlertsCorrect == Spec => []AlertsFollowVerdicts
<1>1. PipelineInv => AlertsFollowVerdicts
  BY DEF PipelineInv
<1> QED
  BY <1>1, InitInv, StepInv, PTL DEF Spec

\* DeployersOnRecord: the deployer of a rejected or watched token is on record
\* unless the store raised, whichever handlers brought the token and when.
THEOREM DeployersKept == Spec => []DeployersOnRecord
<1>1. PipelineInv => DeployersOnRecord
  BY DEF PipelineInv
<1> QED
  BY <1>1, InitInv, StepInv, PTL DEF Spec

-----------------------------------------------------------------------------
\* HoneypotScore: the order and the meaning of the levels.

\* The lesser and the greater of two numbers.
LEMMA MinOfTwo ==
    ASSUME NEW x \in Int, NEW y \in Int
    PROVE  Min({x, y}) = IF x <= y THEN x ELSE y
BY DEF Min

LEMMA MaxOfTwo ==
    ASSUME NEW x \in Int, NEW y \in Int
    PROVE  Max({x, y}) = IF x <= y THEN y ELSE x
BY DEF Max

\* What a key adds is counted once, and more keys never add less.
LEMMA SaidMore ==
    ASSUME NEW of, NEW key, of[key] \in Nat, NEW said, NEW more
    PROVE  /\ Said(of, key, said) \in Nat
           /\ Said(of, key, said) <= Said(of, key, said \cup more)
BY DEF Said

\* What is said outright adds up to more the more is said, 100 at least for a honeypot.
LEMMA DirectMore ==
    ASSUME NEW said, NEW more
    PROVE  /\ DirectPoints(said) \in Nat
           /\ DirectPoints(said) <= DirectPoints(said \cup more)
           /\ "is_honeypot" \in said => DirectPoints(said) >= 100
<1> DEFINE a(key) == Said(Direct, key, said)
           b(key) == Said(Direct, key, said \cup more)
           Ok(key) == a(key) \in Nat /\ b(key) \in Nat /\ a(key) <= b(key)
<1>1. /\ Direct["is_honeypot"] = 100 /\ Direct["cannot_buy"] = 60
      /\ Direct["honeypot_with_same_creator"] = 50
  BY DEF Direct
<1>0. ASSUME NEW key, Direct[key] \in Nat PROVE Ok(key)
  BY <1>0, SaidMore
<1>2. Ok("is_honeypot") /\ Ok("cannot_buy") /\ Ok("honeypot_with_same_creator")
  <2> HIDE DEF Ok
  <2> QED
    BY <1>0, <1>1
<1>3. "is_honeypot" \in said => a("is_honeypot") = 100
  BY <1>1 DEF Said
<1>4. /\ DirectPoints(said) = a("is_honeypot") + a("cannot_buy") + a("honeypot_with_same_creator")
      /\ DirectPoints(said \cup more)
             = b("is_honeypot") + b("cannot_buy") + b("honeypot_with_same_creator")
  BY DEF DirectPoints
<1> HIDE DEF a, b
<1> QED
  BY <1>2, <1>3, <1>4

\* So does what the owner may still do.
LEMMA MutabilityMore ==
    ASSUME NEW said, NEW more
    PROVE  /\ MutabilityPoints(said) \in Nat
           /\ MutabilityPoints(said) <= MutabilityPoints(said \cup more)
<1> DEFINE a(key) == Said(Mutability, key, said)
           b(key) == Said(Mutability, key, said \cup more)
           Ok(key) == a(key) \in Nat /\ b(key) \in Nat /\ a(key) <= b(key)
<1>1. ASSUME NEW key, Mutability[key] \in Nat PROVE Ok(key)
  BY <1>1, SaidMore
<1>2. /\ Ok("hidden_owner") /\ Ok("can_take_back_ownership") /\ Ok("owner_change_balance")
      /\ Ok("is_mintable") /\ Ok("transfer_pausable") /\ Ok("selfdestruct")
      /\ Ok("slippage_modifiable") /\ Ok("personal_slippage_modifiable") /\ Ok("is_blacklisted")
      /\ Ok("is_proxy") /\ Ok("external_call") /\ Ok("trading_cooldown") /\ Ok("closed_source")
  <2> HIDE DEF Ok
  <2> QED
    BY <1>1 DEF Mutability
<1> DEFINE p1 == a("hidden_owner") + a("can_take_back_ownership")
                     + a("owner_change_balance") + a("is_mintable")
           q1 == b("hidden_owner") + b("can_take_back_ownership")
                     + b("owner_change_balance") + b("is_mintable")
           p2 == p1 + a("transfer_pausable") + a("selfdestruct")
                     + a("slippage_modifiable") + a("personal_slippage_modifiable")
           q2 == q1 + b("transfer_pausable") + b("selfdestruct")
                     + b("slippage_modifiable") + b("personal_slippage_modifiable")
           p3 == p2 + a("is_blacklisted") + a("is_proxy")
                     + a("external_call") + a("trading_cooldown") + a("closed_source")
           q3 == q2 + b("is_blacklisted") + b("is_proxy")
                     + b("external_call") + b("trading_cooldown") + b("closed_source")
<1>3. MutabilityPoints(said) = p3 /\ MutabilityPoints(said \cup more) = q3
  BY Zenon DEF MutabilityPoints
<1> HIDE DEF a, b
<1>4. p1 \in Nat /\ q1 \in Nat /\ p1 <= q1
  BY <1>2
<1> HIDE DEF p1, q1
<1>5. p2 \in Nat /\ q2 \in Nat /\ p2 <= q2
  BY <1>2, <1>4
<1> HIDE DEF p2, q2
<1>6. p3 \in Nat /\ q3 \in Nat /\ p3 <= q3
  BY <1>2, <1>5
<1> QED
  BY <1>3, <1>6

\* The fields of a report.
LEMMA ReportFields ==
    ASSUME NEW r \in Reports
    PROVE  /\ r.direct \in SUBSET DOMAIN Direct /\ r.trust_list \in BOOLEAN
           /\ r.flags \in SUBSET Flags
           /\ r.sell_tax \in {"low", "from10", "from20"} /\ r.buy_tax \in {"low", "from20"}
           /\ r.top_holder \in {"low", "from15", "from30"}
           /\ r.holder_count \in {"from50", "from10", "from1", "zero", "unknown"}
<1>1. /\ DOMAIN SellTax = {"low", "from10", "from20"} /\ DOMAIN BuyTax = {"low", "from20"}
      /\ DOMAIN TopHolder = {"low", "from15", "from30"}
      /\ DOMAIN HolderCount = {"from50", "from10", "from1", "zero", "unknown"}
  BY DEF SellTax, BuyTax, TopHolder, HolderCount
<1> QED
  BY <1>1 DEF Reports

\* The points of the graded fields.
LEMMA Grades ==
    /\ SellTax["low"] = 0 /\ SellTax["from10"] = 15 /\ SellTax["from20"] = 30
    /\ BuyTax["low"] = 0 /\ BuyTax["from20"] = 15
    /\ TopHolder["low"] = 0 /\ TopHolder["from15"] = 10 /\ TopHolder["from30"] = 25
    /\ HolderCount["from50"] = 0 /\ HolderCount["from10"] = 5 /\ HolderCount["from1"] = 20
    /\ HolderCount["zero"] = 35 /\ HolderCount["unknown"] = 20
BY DEF SellTax, BuyTax, TopHolder, HolderCount

\* The score of what is said outright, case by case.
LEMMA DirectScoreIs ==
    ASSUME NEW r \in Reports
    PROVE  /\ DirectScore(r) \in Nat
           /\ DirectScore(r) = LET d == DirectPoints(r.direct)
                               IN  IF ~r.trust_list THEN d ELSE IF d >= 40 THEN d - 40 ELSE 0
<1> DEFINE d == DirectPoints(r.direct)
<1>1. d \in Nat
  BY DirectMore
<1>2. r.trust_list \in BOOLEAN
  BY ReportFields
<1>3. DirectScore(r) = Max({0, d - (IF r.trust_list THEN 40 ELSE 0)})
  BY DEF DirectScore
<1> HIDE DEF d
<1>4. CASE r.trust_list
  <2>1. DirectScore(r) = Max({0, d - 40})
    BY <1>3, <1>4
  <2>2. Max({0, d - 40}) = IF 0 <= d - 40 THEN d - 40 ELSE 0
    BY <1>1, MaxOfTwo
  <2> QED
    BY <1>1, <1>4, <2>1, <2>2 DEF d
<1>5. CASE ~r.trust_list
  <2>1. DirectScore(r) = Max({0, d - 0})
    BY <1>3, <1>5
  <2>2. Max({0, d - 0}) = IF 0 <= d - 0 THEN d - 0 ELSE 0
    BY <1>1, MaxOfTwo
  <2> QED
    BY <1>1, <1>5, <2>1, <2>2 DEF d
<1> QED
  BY <1>4, <1>5

\* Every part of the score is a natural number; who holds the token counts for 20
\* if nobody does or nobody knows.
LEMMA ReportScoreType ==
    ASSUME NEW r \in Reports
    PROVE  /\ ReportScore(r) \in Nat /\ ReportScore(r) >= DirectScore(r)
           /\ r.holder_count \in {"zero", "unknown"} => ReportScore(r) >= 20
<1>1. /\ SellTax[r.sell_tax] \in Nat /\ BuyTax[r.buy_tax] \in Nat
      /\ TopHolder[r.top_holder] \in Nat /\ HolderCount[r.holder_count] \in Nat
      /\ r.holder_count \in {"zero", "unknown"} => HolderCount[r.holder_count] >= 20
  BY ReportFields, Grades
<1>2. DirectScore(r) \in Nat /\ MutabilityPoints(r.flags) \in Nat
  BY DirectScoreIs, MutabilityMore
<1> QED
  BY <1>1, <1>2 DEF ReportScore

\* One more thing against the token, and the score is not less.
LEMMA WorseScore ==
    ASSUME NEW r \in Reports, NEW w \in Worse(r)
    PROVE  /\ w \in Reports /\ ReportScore(r) <= ReportScore(w)
           /\ "is_honeypot" \in r.direct => "is_honeypot" \in w.direct
<1> DEFINE Goal == /\ w \in Reports /\ ReportScore(r) <= ReportScore(w)
                   /\ "is_honeypot" \in r.direct => "is_honeypot" \in w.direct
           Rest(x) == SellTax[x.sell_tax] + BuyTax[x.buy_tax]
                          + TopHolder[x.top_holder] + HolderCount[x.holder_count]
<1>1. /\ DirectScore(r) \in Nat /\ MutabilityPoints(r.flags) \in Nat
      /\ SellTax[r.sell_tax] \in Nat /\ BuyTax[r.buy_tax] \in Nat
      /\ TopHolder[r.top_holder] \in Nat /\ HolderCount[r.holder_count] \in Nat
  <2>1. DirectScore(r) \in Nat /\ MutabilityPoints(r.flags) \in Nat
    BY DirectScoreIs, MutabilityMore
  <2>2. /\ SellTax[r.sell_tax] \in Nat /\ BuyTax[r.buy_tax] \in Nat
        /\ TopHolder[r.top_holder] \in Nat /\ HolderCount[r.holder_count] \in Nat
    BY ReportFields, Grades
  <2> QED
    BY <2>1, <2>2
<1>2. ASSUME NEW f \in DOMAIN Direct, w = [r EXCEPT !.direct = @ \cup {f}] PROVE Goal
  <2>1. w \in Reports
    BY <1>2 DEF Reports
  <2>2. /\ w.direct = r.direct \cup {f} /\ w.trust_list = r.trust_list /\ w.flags = r.flags
        /\ w.sell_tax = r.sell_tax /\ w.buy_tax = r.buy_tax
        /\ w.top_holder = r.top_holder /\ w.holder_count = r.holder_count
    BY <1>2 DEF Reports
  <2>3. DirectPoints(r.direct) \in Nat /\ DirectPoints(w.direct) \in Nat
        /\ DirectPoints(r.direct) <= DirectPoints(w.direct)
    BY <2>2, DirectMore
  <2>4. DirectScore(r) <= DirectScore(w) /\ DirectScore(w) \in Nat
    <3>1. DirectScore(r) = LET d == DirectPoints(r.direct)
                           IN  IF ~r.trust_list THEN d ELSE IF d >= 40 THEN d - 40 ELSE 0
      BY DirectScoreIs
    <3>2. DirectScore(w) = LET d == DirectPoints(w.direct)
                           IN  IF ~w.trust_list THEN d ELSE IF d >= 40 THEN d - 40 ELSE 0
      BY <2>1, DirectScoreIs
    <3> QED
      BY <2>2, <2>3, <3>1, <3>2
  <2> QED
    BY <1>1, <2>1, <2>2, <2>4 DEF ReportScore
<1>3. ASSUME NEW f \in Flags, w = [r EXCEPT !.flags = @ \cup {f}] PROVE Goal
  <2>1. w \in Reports
    BY <1>3 DEF Reports
  <2>2. /\ w.direct = r.direct /\ w.trust_list = r.trust_list /\ w.flags = r.flags \cup {f}
        /\ w.sell_tax = r.sell_tax /\ w.buy_tax = r.buy_tax
        /\ w.top_holder = r.top_holder /\ w.holder_count = r.holder_count
    BY <1>3 DEF Reports
  <2>3. MutabilityPoints(r.flags) <= MutabilityPoints(w.flags) /\ MutabilityPoints(w.flags) \in Nat
    BY <2>2, MutabilityMore
  <2>4. DirectScore(w) = DirectScore(r)
    BY <2>2 DEF DirectScore
  <2> QED
    BY <1>1, <2>1, <2>2, <2>3, <2>4 DEF ReportScore
<1>4. ASSUME w = [r EXCEPT !.trust_list = FALSE] PROVE Goal
  <2>1. w \in Reports
    BY <1>4 DEF Reports
  <2>2. /\ w.direct = r.direct /\ w.trust_list = FALSE /\ w.flags = r.flags
        /\ w.sell_tax = r.sell_tax /\ w.buy_tax = r.buy_tax
        /\ w.top_holder = r.top_holder /\ w.holder_count = r.holder_count
    BY <1>4 DEF Reports
  <2>3. DirectPoints(r.direct) \in Nat
    BY DirectMore
  <2>4. DirectScore(r) <= DirectScore(w) /\ DirectScore(w) \in Nat
    BY <2>1, <2>2, <2>3, ReportFields, DirectScoreIs
  <2> QED
    BY <1>1, <2>1, <2>2, <2>4 DEF ReportScore
<1>5. ASSUME NEW g \in Below(<<"low", "from10", "from20">>, r.sell_tax), w = [r EXCEPT !.sell_tax = g]
      PROVE  Goal
  <2>1. g \in {"low", "from10", "from20"} /\ SellTax[r.sell_tax] <= SellTax[g] /\ SellTax[g] \in Nat
    BY <1>5, ReportFields, Grades DEF Below
  <2>2. w \in Reports
    BY <1>5, <2>1 DEF Reports, SellTax
  <2>3. /\ w.direct = r.direct /\ w.trust_list = r.trust_list /\ w.flags = r.flags
        /\ w.sell_tax = g /\ w.buy_tax = r.buy_tax
        /\ w.top_holder = r.top_holder /\ w.holder_count = r.holder_count
    BY <1>5 DEF Reports
  <2>4. DirectScore(w) = DirectScore(r)
    BY <2>3 DEF DirectScore
  <2> QED
    BY <1>1, <2>1, <2>2, <2>3, <2>4 DEF ReportScore
<1>6. ASSUME NEW g \in Below(<<"low", "from20">>, r.buy_tax), w = [r EXCEPT !.buy_tax = g]
      PROVE  Goal
  <2>1. g \in {"low", "from20"} /\ BuyTax[r.buy_tax] <= BuyTax[g] /\ BuyTax[g] \in Nat
    BY <1>6, ReportFields, Grades DEF Below
  <2>2. w \in Reports
    BY <1>6, <2>1 DEF Reports, BuyTax
  <2>3. /\ w.direct = r.direct /\ w.trust_list = r.trust_list /\ w.flags = r.flags
        /\ w.sell_tax = r.sell_tax /\ w.buy_tax = g
        /\ w.top_holder = r.top_holder /\ w.holder_count = r.holder_count
    BY <1>6 DEF Reports
  <2>4. DirectScore(w) = DirectScore(r)
    BY <2>3 DEF DirectScore
  <2> QED
    BY <1>1, <2>1, <2>2, <2>3, <2>4 DEF ReportScore
<1>7. ASSUME NEW g \in Below(<<"low", "from15", "from30">>, r.top_holder), w = [r EXCEPT !.top_holder = g]
      PROVE  Goal
  <2>1. /\ g \in {"low", "from15", "from30"} /\ TopHolder[r.top_holder] <= TopHolder[g]
        /\ TopHolder[g] \in Nat
    BY <1>7, ReportFields, Grades DEF Below
  <2>2. w \in Reports
    BY <1>7, <2>1 DEF Reports, TopHolder
  <2>3. /\ w.direct = r.direct /\ w.trust_list = r.trust_list /\ w.flags = r.flags
        /\ w.sell_tax = r.sell_tax /\ w.buy_tax = r.buy_tax
        /\ w.top_holder = g /\ w.holder_count = r.holder_count
    BY <1>7 DEF Reports
  <2>4. DirectScore(w) = DirectScore(r)
    BY <2>3 DEF DirectScore
  <2> QED
    BY <1>1, <2>1, <2>2, <2>3, <2>4 DEF ReportScore
<1>8. ASSUME NEW g \in Below(<<"from50", "from10", "from1", "zero">>, r.holder_count),
             w = [r EXCEPT !.holder_count = g]
      PROVE  Goal
  <2>1. /\ g \in {"from50", "from10", "from1", "zero"}
        /\ HolderCount[r.holder_count] <= HolderCount[g] /\ HolderCount[g] \in Nat
    BY <1>8, ReportFields, Grades DEF Below
  <2>2. w \in Reports
    BY <1>8, <2>1 DEF Reports, HolderCount
  <2>3. /\ w.direct = r.direct /\ w.trust_list = r.trust_list /\ w.flags = r.flags
        /\ w.sell_tax = r.sell_tax /\ w.buy_tax = r.buy_tax
        /\ w.top_holder = r.top_holder /\ w.holder_count = g
    BY <1>8 DEF Reports
  <2>4. DirectScore(w) = DirectScore(r)
    BY <2>3 DEF DirectScore
  <2> QED
    BY <1>1, <2>1, <2>2, <2>3, <2>4 DEF ReportScore
<1> QED
  BY <1>2, <1>3, <1>4, <1>5, <1>6, <1>7, <1>8 DEF Worse

\* A score between 0 and 100.
Clamped(x) == IF x <= 0 THEN 0 ELSE IF x >= 100 THEN 100 ELSE x

\* Score keeps its sum between 0 and 100.
LEMMA ClampIs ==
    ASSUME NEW x \in Int
    PROVE  Min({100, Max({0, x})}) = Clamped(x)
<1>1. Max({0, x}) = IF 0 <= x THEN x ELSE 0
  BY MaxOfTwo
<1> DEFINE m == IF 0 <= x THEN x ELSE 0
<1>2. m \in Int
  OBVIOUS
<1>3. Min({100, m}) = IF 100 <= m THEN 100 ELSE m
  <2> HIDE DEF m
  <2> QED
    BY <1>2, MinOfTwo
<1> QED
  BY <1>1, <1>3 DEF Clamped

\* The score of a token that GoPlus knows.
LEMMA ScoreOfReport ==
    ASSUME NEW r \in Reports, NEW sim \in Simulations
    PROVE  /\ SimulationScore({r}, sim) =
                  IF sim = "reverted" THEN 60
                  ELSE IF sim = "sold" /\ "is_honeypot" \notin r.direct THEN -10 ELSE 0
           /\ Score({r}, sim) = Clamped(ReportScore(r) + SimulationScore({r}, sim))
           /\ Score({r}, sim) \in 0..100
<1>1. (CHOOSE x \in {r} : TRUE) = r /\ {r} # {}
  OBVIOUS
<1>2. SimulationScore({r}, sim) =
          IF sim = "reverted" THEN 60
          ELSE IF sim = "sold" /\ "is_honeypot" \notin r.direct THEN -10 ELSE 0
  BY DEF SimulationScore
<1>3. ReportScore(r) + SimulationScore({r}, sim) \in Int
  BY <1>2, ReportScoreType
<1>4. Score({r}, sim) = Min({100, Max({0, ReportScore(r) + SimulationScore({r}, sim)})})
  BY <1>1 DEF Score
<1>5. Score({r}, sim) = Clamped(ReportScore(r) + SimulationScore({r}, sim))
  BY <1>3, <1>4, ClampIs
<1> DEFINE x == ReportScore(r) + SimulationScore({r}, sim)
<1>6. Clamped(x) \in 0..100
  <2> HIDE DEF x
  <2> QED
    BY <1>3 DEF Clamped, x
<1> QED
  BY <1>2, <1>5, <1>6

\* The score of a token that GoPlus does not know.
LEMMA ScoreOfSilence ==
    ASSUME NEW sim \in Simulations
    PROVE  Score({}, sim) = IF sim = "reverted" THEN 60 ELSE 0
<1>1. SimulationScore({}, sim) = IF sim = "reverted" THEN 60 ELSE 0
  BY DEF SimulationScore
<1>2. Score({}, sim) = Min({100, Max({0, 0 + SimulationScore({}, sim)})})
  BY DEF Score
<1>3. 0 + SimulationScore({}, sim) \in Int
  BY <1>1
<1>4. Score({}, sim) = Clamped(0 + SimulationScore({}, sim))
  BY <1>2, <1>3, ClampIs
<1> QED
  BY <1>1, <1>4 DEF Clamped

\* The thresholds go up.
LEMMA ThresholdIs ==
    ASSUME NEW x \in 0..100
    PROVE  /\ Threshold(x) = IF x >= 70 THEN 5 ELSE IF x >= 45 THEN 4
                             ELSE IF x >= 20 THEN 3 ELSE IF x >= 1 THEN 2 ELSE 1
           /\ Threshold(x) \in 1..5
<1>1. CASE x >= 70
  BY <1>1 DEF Threshold
<1>2. CASE x \in 45..69
  BY <1>2 DEF Threshold
<1>3. CASE x \in 20..44
  BY <1>3 DEF Threshold
<1>4. CASE x \in 1..19
  BY <1>4 DEF Threshold
<1>5. CASE x = 0
  BY <1>5 DEF Threshold
<1> QED
  BY <1>1, <1>2, <1>3, <1>4, <1>5

\* How many sources there are.
LEMMA SourcesAre ==
    ASSUME NEW r, NEW sim \in Simulations
    PROVE  /\ NumSources({r}, sim) = IF sim = "none" THEN 1 ELSE 2
           /\ NumSources({}, sim) = IF sim = "none" THEN 0 ELSE 1
<1>1. Cardinality({r}) = 1 /\ Cardinality({}) = 0
  BY FS_Singleton, FS_EmptySet
<1> QED
  BY <1>1 DEF NumSources

\* RiskLevels has no level twice.
LEMMA Ranked ==
    ASSUME NEW answer, NEW sim, NEW i \in 1..5, Level(answer, sim) = RiskLevels[i]
    PROVE  Rank(answer, sim) = i
<1>1. Len(RiskLevels) = 5
  BY DEF RiskLevels
<1>2. \A j \in 1..5 : RiskLevels[j] = RiskLevels[i] => j = i
  BY DEF RiskLevels
<1> QED
  BY <1>1, <1>2 DEF Rank

\* The level of a token that GoPlus knows.
Place(score, sim) == IF sim = "none" /\ score = 0 THEN 2 ELSE Threshold(score)

\* It is a level, and Rank is its place.
LEMMA LevelOfReport ==
    ASSUME NEW r \in Reports, NEW sim \in Simulations
    PROVE  /\ Place(Score({r}, sim), sim) \in 1..5
           /\ Level({r}, sim) = RiskLevels[Place(Score({r}, sim), sim)]
           /\ Rank({r}, sim) = Place(Score({r}, sim), sim)
<1> DEFINE s == Score({r}, sim)
<1>1. s \in 0..100
  BY ScoreOfReport
<1>2. Threshold(s) \in 1..5 /\ (s = 0 <=> Threshold(s) = 1)
  BY <1>1, ThresholdIs
<1>3. NumSources({r}, sim) = IF sim = "none" THEN 1 ELSE 2
  BY SourcesAre
<1>4. Place(s, sim) \in 1..5
  BY <1>2 DEF Place
<1>5. Level({r}, sim) = RiskLevels[Place(s, sim)]
  <2>1. RiskLevels[2] = "LOW"
    BY DEF RiskLevels
  <2> QED
    BY <1>3, <2>1 DEF Level, Place
<1> QED
  BY <1>4, <1>5, Ranked

\* A higher score has no lower place.
LEMMA PlaceMore ==
    ASSUME NEW x \in 0..100, NEW y \in 0..100, x <= y, NEW sim
    PROVE  Place(x, sim) <= Place(y, sim)
BY ThresholdIs DEF Place

\* One more thing against a token never makes it look safer, for every report and
\* all of the flags.
THEOREM RanksAreOrdered == RanksOrdered
<1> SUFFICES ASSUME NEW r \in Reports
             PROVE  /\ \A sim \in Simulations : \A w \in Worse(r) : Rank({r}, sim) <= Rank({w}, sim)
                    /\ Rank({r}, "sold") <= Rank({r}, "none")
                    /\ Rank({r}, "none") <= Rank({r}, "reverted")
  BY DEF RanksOrdered
<1>1. ASSUME NEW sim \in Simulations, NEW w \in Worse(r) PROVE Rank({r}, sim) <= Rank({w}, sim)
  <2> DEFINE x == ReportScore(r) + SimulationScore({r}, sim)
             y == ReportScore(w) + SimulationScore({w}, sim)
  <2>1. w \in Reports /\ ReportScore(r) \in Nat /\ ReportScore(w) \in Nat
        /\ ReportScore(r) <= ReportScore(w)
    BY WorseScore, ReportScoreType
  <2>2. /\ SimulationScore({r}, sim) \in Int /\ SimulationScore({w}, sim) \in Int
        /\ SimulationScore({r}, sim) <= SimulationScore({w}, sim)
    BY <2>1, WorseScore, ScoreOfReport
  <2>3. x \in Int /\ y \in Int /\ x <= y
    BY <2>1, <2>2
  <2>4. Score({r}, sim) = Clamped(x) /\ Score({w}, sim) = Clamped(y)
    BY <2>1, ScoreOfReport
  <2>5. Score({r}, sim) \in 0..100 /\ Score({w}, sim) \in 0..100
    BY <2>1, ScoreOfReport
  <2> HIDE DEF x, y
  <2>6. Score({r}, sim) <= Score({w}, sim)
    BY <2>3, <2>4 DEF Clamped
  <2> QED
    BY <2>1, <2>5, <2>6, LevelOfReport, PlaceMore
<1> DEFINE n == ReportScore(r)
<1>2. n \in Nat
  BY ReportScoreType
<1>3. /\ Score({r}, "none") = Clamped(n + 0) /\ Score({r}, "reverted") = Clamped(n + 60)
      /\ Score({r}, "sold") \in {Clamped(n + 0), Clamped(n + (-10))}
  BY ScoreOfReport DEF Simulations
<1>4. \A sim \in Simulations : Score({r}, sim) \in 0..100 /\ Rank({r}, sim) = Place(Score({r}, sim), sim)
  BY ScoreOfReport, LevelOfReport
<1> HIDE DEF n
<1>5. Score({r}, "sold") <= Score({r}, "none")
  BY <1>2, <1>3 DEF Clamped
<1>6. Place(Score({r}, "sold"), "sold") <= Place(Score({r}, "none"), "none")
  BY <1>4, <1>5, ThresholdIs DEF Place, Simulations
<1>7. Score({r}, "none") <= Score({r}, "reverted") /\ Score({r}, "reverted") >= 60
  BY <1>2, <1>3 DEF Clamped
<1>8. Place(Score({r}, "none"), "none") <= Place(Score({r}, "reverted"), "reverted")
  BY <1>4, <1>7, ThresholdIs DEF Place, Simulations
<1> QED
  BY <1>1, <1>4, <1>6, <1>8 DEF Simulations

\* Every level means what it says.
THEOREM LevelsAreTruthful == LevelsTruthful
<1> DEFINE Truthful(answer, sim) ==
        LET l == Level(answer, sim)
        IN  /\ l = "UNKNOWN" <=> answer = {} /\ sim = "none"
            /\ l = "SAFE" => /\ sim = "sold"
                             /\ \E r \in answer : r.holder_count \notin {"zero", "unknown"}
            /\ sim = "reverted" => l \in {"HIGH", "CRITICAL"}
            /\ \A r \in answer : "is_honeypot" \in r.direct =>
                  l = "CRITICAL" \/ (l = "HIGH" /\ r.trust_list)
<1>0. /\ RiskLevels[1] = "SAFE" /\ RiskLevels[2] = "LOW" /\ RiskLevels[3] = "MEDIUM"
      /\ RiskLevels[4] = "HIGH" /\ RiskLevels[5] = "CRITICAL"
  BY DEF RiskLevels
<1>1. ASSUME NEW sim \in Simulations PROVE Truthful({}, sim)
  <2>1. NumSources({}, sim) = (IF sim = "none" THEN 0 ELSE 1)
    BY SourcesAre
  <2>2. Score({}, sim) = IF sim = "reverted" THEN 60 ELSE 0
    BY ScoreOfSilence
  <2>3. Threshold(60) = 4
    BY ThresholdIs
  <2>4. Level({}, sim) = IF sim = "none" THEN "UNKNOWN" ELSE IF sim = "sold" THEN "LOW" ELSE "HIGH"
    BY <1>0, <2>1, <2>2, <2>3 DEF Level, Simulations
  <2> QED
    BY <2>4
<1>2. ASSUME NEW r \in Reports, NEW sim \in Simulations PROVE Truthful({r}, sim)
  <2> DEFINE s == Score({r}, sim)
             p == Place(s, sim)
             n == ReportScore(r)
  <2>1. s \in 0..100 /\ p \in 1..5 /\ Level({r}, sim) = RiskLevels[p] /\ n \in Nat
    BY ScoreOfReport, LevelOfReport, ReportScoreType
  <2>2. s = Clamped(n + (IF sim = "reverted" THEN 60
                         ELSE IF sim = "sold" /\ "is_honeypot" \notin r.direct THEN -10 ELSE 0))
    BY ScoreOfReport
  <2>3. r.holder_count \in {"zero", "unknown"} => n >= 20
    BY ReportScoreType
  <2>4. "is_honeypot" \in r.direct => n >= 60 /\ (~r.trust_list => n >= 100)
    <3> DEFINE d == DirectPoints(r.direct)
    <3>1. d \in Nat /\ ("is_honeypot" \in r.direct => d >= 100)
      BY DirectMore
    <3>2. DirectScore(r) = IF ~r.trust_list THEN d ELSE IF d >= 40 THEN d - 40 ELSE 0
      BY DirectScoreIs
    <3>3. n >= DirectScore(r) /\ DirectScore(r) \in Nat
      BY ReportScoreType, DirectScoreIs
    <3> HIDE DEF d, n
    <3> QED
      BY <2>1, <3>1, <3>2, <3>3
  <2>5. p = IF sim = "none" /\ s = 0 THEN 2 ELSE
                IF s >= 70 THEN 5 ELSE IF s >= 45 THEN 4
                ELSE IF s >= 20 THEN 3 ELSE IF s >= 1 THEN 2 ELSE 1
    BY <2>1, ThresholdIs DEF Place
  <2> HIDE DEF s, p, n
  <2>6. Level({r}, sim) # "UNKNOWN"
    BY <1>0, <2>1
  <2>7. Level({r}, sim) = "SAFE" => sim = "sold" /\ r.holder_count \notin {"zero", "unknown"}
    <3> SUFFICES ASSUME Level({r}, sim) = "SAFE"
                 PROVE  sim = "sold" /\ r.holder_count \notin {"zero", "unknown"}
      OBVIOUS
    <3>1. p = 1
      BY <1>0, <2>1
    <3>2. s = 0 /\ sim # "none"
      BY <2>1, <2>5, <3>1
    <3>3. sim # "reverted" /\ n <= 10
      BY <2>1, <2>2, <3>2 DEF Clamped
    <3> QED
      BY <2>1, <2>3, <3>2, <3>3 DEF Simulations
  <2>8. sim = "reverted" => Level({r}, sim) \in {"HIGH", "CRITICAL"}
    <3> SUFFICES ASSUME sim = "reverted" PROVE p \in {4, 5}
      BY <1>0, <2>1
    <3>1. s >= 60
      BY <2>1, <2>2 DEF Clamped
    <3> QED
      BY <2>1, <2>5, <3>1
  <2>9. "is_honeypot" \in r.direct =>
            Level({r}, sim) = "CRITICAL" \/ (Level({r}, sim) = "HIGH" /\ r.trust_list)
    <3> SUFFICES ASSUME "is_honeypot" \in r.direct PROVE p = 5 \/ (p = 4 /\ r.trust_list)
      BY <1>0, <2>1
    <3>1. s >= 60 /\ (~r.trust_list => s >= 100)
      BY <2>1, <2>2, <2>4 DEF Clamped
    <3> QED
      BY <2>1, <2>5, <3>1
  <2> QED
    BY <2>6, <2>7, <2>8, <2>9
<1>3. ASSUME NEW answer \in Answers, NEW sim \in Simulations PROVE Truthful(answer, sim)
  <2>1. answer = {} \/ \E r \in Reports : answer = {r}
    BY DEF Answers
  <2> HIDE DEF Truthful
  <2> QED
    BY <1>1, <1>2, <2>1
<1> QED
  BY <1>3 DEF LevelsTruthful

-----------------------------------------------------------------------------
\* HolderScan: the chunks of a chain put together again, and what is made of them.

\* Induction, for a property given as the set of the numbers that have it.
LEMMA Induction == ASSUME NEW S, 0 \in S, \A n \in Nat : n \in S => n + 1 \in S PROVE Nat \subseteq S
<1> SUFFICES ASSUME Nat \ S # {} PROVE FALSE
  OBVIOUS
<1>1. PICK x \in Nat \ S : \A y \in Nat \ S : ~(<<y, x>> \in OpToRel(<, Nat))
  BY NatLessThanWellFounded, WFMin, Zenon
<1>2. x \in Nat /\ x \notin S
  BY <1>1
<1>3. x # 0 /\ x - 1 \in Nat
  BY <1>2
<1>4. <<x - 1, x>> \in OpToRel(<, Nat)
  BY <1>2, <1>3 DEF OpToRel
<1>5. x - 1 \in S
  BY <1>1, <1>3, <1>4
<1>6. (x - 1) + 1 \in S
  BY <1>3, <1>5
<1> QED
  BY <1>2, <1>6

\* What FlattenSeq builds step by step.
IsFlat(f, s, n) == f = [i \in 1..n |-> IF i = 1 THEN s[i] ELSE f[i - 1] \o s[i]]

\* One step of it.
LEMMA FlatAt ==
    ASSUME NEW s, NEW n \in Nat, NEW f, IsFlat(f, s, n), NEW i \in 1..n
    PROVE  f[i] = IF i = 1 THEN s[i] ELSE f[i - 1] \o s[i]
<1> DEFINE e(j) == IF j = 1 THEN s[j] ELSE f[j - 1] \o s[j]
<1>1. f = [j \in 1..n |-> e(j)]
  BY DEF IsFlat
<1> HIDE DEF e
<1>2. f[i] = e(i)
  BY <1>1
<1> QED
  BY <1>2 DEF e

\* There is such a function.
LEMMA FlatExists ==
    ASSUME NEW s, NEW n \in Nat
    PROVE  \E f : IsFlat(f, s, n)
<1> DEFINE S == {k \in Nat : \E f : IsFlat(f, s, k)}
<1>1. 0 \in S
  <2>1. IsFlat([i \in 1..0 |-> 0], s, 0)
    BY DEF IsFlat
  <2> QED
    BY <2>1
<1>2. ASSUME NEW k \in Nat, k \in S PROVE k + 1 \in S
  <2>1. PICK f : IsFlat(f, s, k)
    BY <1>2
  <2> DEFINE last == IF k = 0 THEN s[1] ELSE f[k] \o s[k + 1]
  <2> DEFINE g == [i \in 1..(k + 1) |-> IF i = k + 1 THEN last ELSE f[i]]
  <2>2. \A i \in 1..(k + 1) : g[i] = IF i = 1 THEN s[i] ELSE g[i - 1] \o s[i]
    <3> SUFFICES ASSUME NEW i \in 1..(k + 1) PROVE g[i] = IF i = 1 THEN s[i] ELSE g[i - 1] \o s[i]
      OBVIOUS
    <3>1. CASE i = k + 1
      <4>1. g[i] = last
        BY <3>1
      <4>2. k # 0 => g[k] = f[k]
        OBVIOUS
      <4> QED
        BY <3>1, <4>1, <4>2
    <3>2. CASE i # k + 1
      <4>1. i \in 1..k /\ (i # 1 => i - 1 \in 1..k)
        BY <3>2
      <4>2. g[i] = f[i] /\ (i # 1 => g[i - 1] = f[i - 1])
        BY <4>1
      <4>3. f[i] = IF i = 1 THEN s[i] ELSE f[i - 1] \o s[i]
        BY <2>1, <4>1, FlatAt
      <4> QED
        BY <4>2, <4>3
    <3> QED
      BY <3>1, <3>2
  <2>3. g = [i \in 1..(k + 1) |-> IF i = 1 THEN s[i] ELSE g[i - 1] \o s[i]]
    BY <2>2
  <2>4. IsFlat(g, s, k + 1)
    BY <2>3 DEF IsFlat
  <2> QED
    BY <2>4
<1> HIDE DEF S
<1>3. Nat \subseteq S
  BY <1>1, <1>2, Induction
<1> QED
  BY <1>3 DEF S

\* Two of them agree as far as their sequences do.
LEMMA FlatUnique ==
    ASSUME NEW s, NEW t, NEW f, NEW g, NEW m \in Nat, NEW n \in Nat,
           IsFlat(f, s, m), IsFlat(g, t, n), m <= n, \A i \in 1..m : s[i] = t[i]
    PROVE  \A i \in 1..m : f[i] = g[i]
<1> DEFINE S == {k \in Nat : k \in 1..m => f[k] = g[k]}
<1>1. 0 \in S
  OBVIOUS
<1>2. ASSUME NEW k \in Nat, k \in S PROVE k + 1 \in S
  <2> SUFFICES ASSUME k + 1 \in 1..m PROVE f[k + 1] = g[k + 1]
    OBVIOUS
  <2>1. f[k + 1] = IF k + 1 = 1 THEN s[k + 1] ELSE f[(k + 1) - 1] \o s[k + 1]
    BY FlatAt
  <2>2. g[k + 1] = IF k + 1 = 1 THEN t[k + 1] ELSE g[(k + 1) - 1] \o t[k + 1]
    BY FlatAt
  <2>3. k # 0 => f[k] = g[k]
    BY <1>2
  <2> QED
    BY <2>1, <2>2, <2>3
<1> HIDE DEF S
<1>3. Nat \subseteq S
  BY <1>1, <1>2, Induction
<1> QED
  BY <1>3 DEF S

\* FlattenSeq is the last value of one.
LEMMA FlattenIs ==
    ASSUME NEW s, Len(s) \in Nat \ {0}
    PROVE  \E f : IsFlat(f, s, Len(s)) /\ FlattenSeq(s) = f[Len(s)]
<1> DEFINE f == CHOOSE f : IsFlat(f, s, Len(s))
<1>1. IsFlat(f, s, Len(s))
  BY FlatExists
<1>2. FlattenSeq(s) = f[Len(s)]
  BY DEF FlattenSeq, IsFlat
<1> QED
  BY <1>1, <1>2

\* A sequence with one element more flattens to one with that element added.
LEMMA FlattenLast ==
    ASSUME NEW T, NEW s \in Seq(Seq(T)), NEW n \in Nat, Len(s) = n,
           NEW y \in Seq(Seq(T)), Len(y) = n + 1, \A i \in 1..n : s[i] = y[i]
    PROVE  FlattenSeq(y) = FlattenSeq(s) \o y[n + 1]
<1>1. PICK g : IsFlat(g, y, n + 1) /\ FlattenSeq(y) = g[n + 1]
  BY FlattenIs
<1>3. g[n + 1] = IF n + 1 = 1 THEN y[n + 1] ELSE g[(n + 1) - 1] \o y[n + 1]
  BY <1>1, FlatAt
<1>4. CASE n = 0
  <2>1. FlattenSeq(s) = <<>>
    BY <1>4 DEF FlattenSeq
  <2>2. y[n + 1] \in Seq(T)
    OBVIOUS
  <2> QED
    BY <1>1, <1>3, <1>4, <2>1, <2>2
<1>5. CASE n # 0
  <2>1. PICK f : IsFlat(f, s, n) /\ FlattenSeq(s) = f[n]
    BY <1>5, FlattenIs
  <2>2. f[n] = g[n]
    BY <1>1, <1>5, <2>1, FlatUnique
  <2>3. g[n + 1] = g[n] \o y[n + 1]
    <3>1. n + 1 # 1 /\ (n + 1) - 1 = n
      BY <1>5
    <3> QED
      BY <1>3, <3>1
  <2> QED
    BY <1>1, <2>1, <2>2, <2>3
<1> QED
  BY <1>4, <1>5

\* Sequences over a set flatten to a sequence over that set.
LEMMA FlattenType ==
    ASSUME NEW T, NEW s \in Seq(Seq(T))
    PROVE  FlattenSeq(s) \in Seq(T)
<1>1. CASE Len(s) = 0
  BY <1>1 DEF FlattenSeq
<1>2. CASE Len(s) # 0
  <2>1. PICK f : IsFlat(f, s, Len(s)) /\ FlattenSeq(s) = f[Len(s)]
    BY <1>2, FlattenIs
  <2> DEFINE n == Len(s)
             S == {k \in Nat : k \in 1..n => f[k] \in Seq(T)}
  <2>2. n \in Nat /\ n # 0 /\ (\A i \in 1..n : s[i] \in Seq(T)) /\ IsFlat(f, s, n)
    BY <1>2, <2>1
  <2> HIDE DEF n
  <2>3. 0 \in S
    OBVIOUS
  <2>4. ASSUME NEW k \in Nat, k \in S PROVE k + 1 \in S
    <3> SUFFICES ASSUME k + 1 \in 1..n PROVE f[k + 1] \in Seq(T)
      OBVIOUS
    <3>1. f[k + 1] = IF k + 1 = 1 THEN s[k + 1] ELSE f[(k + 1) - 1] \o s[k + 1]
      <4>1. n \in Nat /\ IsFlat(f, s, n)
        BY <2>2
      <4> QED
        BY <4>1, FlatAt
    <3>2. s[k + 1] \in Seq(T) /\ (k # 0 => f[k] \in Seq(T))
      BY <2>2, <2>4
    <3> QED
      BY <3>1, <3>2
  <2> HIDE DEF S
  <2>5. Nat \subseteq S
    BY <2>3, <2>4, Induction
  <2>6. f[n] \in Seq(T)
    BY <2>2, <2>5 DEF S
  <2> QED
    BY <2>1, <2>6 DEF n
<1> QED
  BY <1>1, <1>2

\* FlattenLast, for the beginnings of a sequence.
LEMMA FlattenPrefix ==
    ASSUME NEW T, NEW s \in Seq(Seq(T)), NEW n \in Nat, n + 1 <= Len(s)
    PROVE  FlattenSeq(SubSeq(s, 1, n + 1)) = FlattenSeq(SubSeq(s, 1, n)) \o s[n + 1]
<1> DEFINE p == SubSeq(s, 1, n)
           q == SubSeq(s, 1, n + 1)
<1>1. /\ p \in Seq(Seq(T)) /\ q \in Seq(Seq(T)) /\ Len(p) = n /\ Len(q) = n + 1
      /\ q[n + 1] = s[n + 1] /\ s[n + 1] \in Seq(T)
      /\ \A i \in 1..n : p[i] = q[i]
  OBVIOUS
<1> HIDE DEF p, q
<1>2. FlattenSeq(q) = FlattenSeq(p) \o q[n + 1]
  BY <1>1, FlattenLast
<1> QED
  BY <1>1, <1>2 DEF p, q

\* Empty sequences flatten to an empty one.
LEMMA FlattenNothing ==
    ASSUME NEW T, NEW s \in Seq(Seq(T)), \A i \in 1..Len(s) : s[i] = <<>>
    PROVE  FlattenSeq(s) = <<>>
<1> DEFINE S == {k \in Nat : k <= Len(s) => FlattenSeq(SubSeq(s, 1, k)) = <<>>}
<1>1. 0 \in S
  <2>1. SubSeq(s, 1, 0) = <<>>
    OBVIOUS
  <2>2. FlattenSeq(<<>>) = <<>>
    BY DEF FlattenSeq
  <2> QED
    BY <2>1, <2>2
<1>2. ASSUME NEW k \in Nat, k \in S PROVE k + 1 \in S
  <2> SUFFICES ASSUME k + 1 <= Len(s) PROVE FlattenSeq(SubSeq(s, 1, k + 1)) = <<>>
    OBVIOUS
  <2>1. FlattenSeq(SubSeq(s, 1, k + 1)) = FlattenSeq(SubSeq(s, 1, k)) \o s[k + 1]
    BY FlattenPrefix
  <2>2. k <= Len(s) /\ s[k + 1] = <<>>
    OBVIOUS
  <2>3. FlattenSeq(SubSeq(s, 1, k)) = <<>>
    BY <1>2, <2>2
  <2> QED
    BY <2>1, <2>2, <2>3
<1> HIDE DEF S
<1>3. Nat \subseteq S
  BY <1>1, <1>2, Induction
<1>4. SubSeq(s, 1, Len(s)) = s
  OBVIOUS
<1>5. Len(s) \in Nat /\ Len(s) <= Len(s)
  OBVIOUS
<1>6. Len(s) \in S
  BY <1>3, <1>5
<1>7. FlattenSeq(SubSeq(s, 1, Len(s))) = <<>>
  BY <1>5, <1>6 DEF S
<1> QED
  BY <1>4, <1>7

\* A beginning can be flattened in two parts.
LEMMA FlattenSplit ==
    ASSUME NEW T, NEW s \in Seq(Seq(T)), NEW a \in Nat, NEW b \in Nat, a <= b, b <= Len(s)
    PROVE  FlattenSeq(SubSeq(s, 1, b)) = FlattenSeq(SubSeq(s, 1, a)) \o FlattenSeq(SubSeq(s, a + 1, b))
<1> DEFINE S == {k \in Nat : a + k <= Len(s) =>
                    FlattenSeq(SubSeq(s, 1, a + k)) =
                        FlattenSeq(SubSeq(s, 1, a)) \o FlattenSeq(SubSeq(s, a + 1, a + k))}
<1>0. FlattenSeq(SubSeq(s, 1, a)) \in Seq(T)
  <2>1. SubSeq(s, 1, a) \in Seq(Seq(T))
    OBVIOUS
  <2> QED
    BY <2>1, FlattenType
<1>1. 0 \in S
  <2>1. SubSeq(s, a + 1, a + 0) = <<>> /\ a + 0 = a
    OBVIOUS
  <2>2. FlattenSeq(<<>>) = <<>>
    BY DEF FlattenSeq
  <2>3. FlattenSeq(SubSeq(s, 1, a)) = FlattenSeq(SubSeq(s, 1, a)) \o <<>>
    BY <1>0
  <2>4. FlattenSeq(SubSeq(s, 1, a + 0))
            = FlattenSeq(SubSeq(s, 1, a)) \o FlattenSeq(SubSeq(s, a + 1, a + 0))
    BY <2>1, <2>2, <2>3
  <2> QED
    BY <2>4
<1>2. ASSUME NEW k \in Nat, k \in S PROVE k + 1 \in S
  <2> SUFFICES ASSUME a + (k + 1) <= Len(s)
               PROVE  FlattenSeq(SubSeq(s, 1, a + (k + 1))) =
                          FlattenSeq(SubSeq(s, 1, a)) \o FlattenSeq(SubSeq(s, a + 1, a + (k + 1)))
    OBVIOUS
  <2> DEFINE p == SubSeq(s, a + 1, a + k)
             q == SubSeq(s, a + 1, a + (k + 1))
             x == s[a + (k + 1)]
  <2>1. /\ p \in Seq(Seq(T)) /\ q \in Seq(Seq(T)) /\ Len(p) = k /\ Len(q) = k + 1
        /\ q[k + 1] = x /\ x \in Seq(T)
        /\ \A i \in 1..k : p[i] = q[i]
    OBVIOUS
  <2>2. FlattenSeq(SubSeq(s, 1, (a + k) + 1)) = FlattenSeq(SubSeq(s, 1, a + k)) \o s[(a + k) + 1]
    <3>1. a + k \in Nat /\ (a + k) + 1 <= Len(s)
      OBVIOUS
    <3> QED
      BY <3>1, FlattenPrefix
  <2>3. (a + k) + 1 = a + (k + 1) /\ a + k <= Len(s)
    OBVIOUS
  <2>4. FlattenSeq(SubSeq(s, 1, a + k)) = FlattenSeq(SubSeq(s, 1, a)) \o FlattenSeq(p)
    BY <1>2, <2>3
  <2>5. FlattenSeq(SubSeq(s, 1, a + (k + 1))) = FlattenSeq(SubSeq(s, 1, a + k)) \o x
    BY <2>2, <2>3
  <2> HIDE DEF p, q, x
  <2>6. FlattenSeq(q) = FlattenSeq(p) \o x
    BY <2>1, FlattenLast
  <2>7. FlattenSeq(p) \in Seq(T) /\ x \in Seq(T)
    BY <2>1, FlattenType
  <2>8. (FlattenSeq(SubSeq(s, 1, a)) \o FlattenSeq(p)) \o x
              = FlattenSeq(SubSeq(s, 1, a)) \o (FlattenSeq(p) \o x)
    BY <1>0, <2>7
  <2>9. FlattenSeq(SubSeq(s, 1, a + (k + 1))) = FlattenSeq(SubSeq(s, 1, a)) \o FlattenSeq(q)
    BY <2>4, <2>5, <2>6, <2>8
  <2> QED
    BY <2>9 DEF q
<1> HIDE DEF S
<1>3. Nat \subseteq S
  BY <1>1, <1>2, Induction
<1>4. b - a \in Nat /\ a + (b - a) = b
  OBVIOUS
<1> QED
  BY <1>3, <1>4 DEF S

\* A finite set of integers has a greatest element.
LEMMA MaxOfFinite ==
    ASSUME NEW F, IsFiniteSet(F), F \subseteq Int, F # {}
    PROVE  Max(F) \in F /\ \A y \in F : Max(F) >= y
<1> DEFINE Greatest(G) == \E x \in G : \A y \in G : x >= y
           S == {n \in Nat : \A G \in SUBSET F : Cardinality(G) = n /\ G # {} => Greatest(G)}
<1>1. 0 \in S
  <2>1. \A G \in SUBSET F : IsFiniteSet(G)
    BY FS_Subset
  <2> QED
    BY <2>1, FS_EmptySet
<1>2. ASSUME NEW n \in Nat, n \in S PROVE n + 1 \in S
  <2> SUFFICES ASSUME NEW G \in SUBSET F, Cardinality(G) = n + 1, G # {} PROVE Greatest(G)
    OBVIOUS
  <2>1. PICK x : x \in G
    OBVIOUS
  <2>2. x \in Int
    BY <2>1
  <2>3. G \ {x} \in SUBSET F /\ Cardinality(G \ {x}) = n
    <3>1. IsFiniteSet(G)
      BY FS_Subset
    <3>2. Cardinality(G \ {x}) = Cardinality(G) - 1
      BY <2>1, <3>1, FS_RemoveElement
    <3>3. G \ {x} \in SUBSET F
      OBVIOUS
    <3>4. Cardinality(G \ {x}) = n
      BY <3>2
    <3> QED
      BY <3>3, <3>4
  <2>4. CASE G \ {x} = {}
    BY <2>1, <2>2, <2>4
  <2>5. CASE G \ {x} # {}
    <3>1. Greatest(G \ {x})
      BY <1>2, <2>3, <2>5
    <3>2. PICK z \in G \ {x} : \A y \in G \ {x} : z >= y
      BY <3>1
    <3>3. z \in Int /\ z \in G
      BY <3>2
    <3>4. CASE z >= x
      BY <3>2, <3>3, <3>4
    <3>5. CASE x > z
      <4>1. \A y \in G : y \in Int /\ x >= y
        BY <2>2, <3>2, <3>3, <3>5
      <4> QED
        BY <2>1, <4>1
    <3> QED
      BY <2>2, <3>3, <3>4, <3>5
  <2> QED
    BY <2>4, <2>5
<1> HIDE DEF S
<1>3. Nat \subseteq S
  BY <1>1, <1>2, Induction
<1>4. Cardinality(F) \in Nat /\ F \in SUBSET F
  BY FS_CardinalityType
<1>5. Greatest(F)
  BY <1>3, <1>4 DEF S
<1> QED
  BY <1>5 DEF Max

\* A nonempty set of natural numbers has a least element.
LEMMA Least ==
    ASSUME NEW P \in SUBSET Nat, P # {}
    PROVE  \E x \in P : \A y \in P : x <= y
<1>1. PICK x \in P : \A y \in P : ~(<<y, x>> \in OpToRel(<, Nat))
  BY NatLessThanWellFounded, WFMin, Zenon
<1>2. \A y \in P : ~(y < x)
  <2> SUFFICES ASSUME NEW y \in P, y < x PROVE FALSE
    OBVIOUS
  <2>1. <<y, x>> \in OpToRel(<, Nat)
    BY DEF OpToRel
  <2> QED
    BY <1>1, <2>1
<1> QED
  BY <1>2

\* The fields of a transfer.
LEMMA TransferFields ==
    ASSUME NEW x \in Transfers
    PROVE  x.from \in Addresses /\ x.to \in Addresses /\ x.value \in Nat
BY DEF Transfers

\* What the sum of Balance is.
Gains(x, a) == (IF x.to = a THEN x.value ELSE 0)
Losses(x, a) == (IF x.from = a THEN x.value ELSE 0)
IsSum(f, list, a) ==
    f = [i \in 0..Len(list) |-> IF i = 0 THEN 0 ELSE f[i - 1] + Gains(list[i], a) - Losses(list[i], a)]

\* One step of such a sum.
LEMMA SumAt ==
    ASSUME NEW list \in Seq(Transfers), NEW a, NEW f, IsSum(f, list, a)
    PROVE  /\ f[0] = 0
           /\ \A i \in 1..Len(list) : f[i] = f[i - 1] + Gains(list[i], a) - Losses(list[i], a)
<1> DEFINE e(j) == IF j = 0 THEN 0 ELSE f[j - 1] + Gains(list[j], a) - Losses(list[j], a)
<1>1. f = [j \in 0..Len(list) |-> e(j)]
  BY DEF IsSum
<1> HIDE DEF e
<1>2. \A j \in 0..Len(list) : f[j] = e(j)
  BY <1>1
<1>3. f[0] = e(0)
  BY <1>2
<1>4. \A i \in 1..Len(list) : f[i] = e(i)
  BY <1>2
<1>5. \A i \in 1..Len(list) : e(i) = f[i - 1] + Gains(list[i], a) - Losses(list[i], a)
  BY DEF e
<1>6. e(0) = 0
  BY DEF e
<1> QED
  BY <1>3, <1>4, <1>5, <1>6

\* There is such a sum.
LEMMA SumExists ==
    ASSUME NEW a, NEW list \in Seq(Transfers)
    PROVE  \E f : IsSum(f, list, a)
<1> DEFINE S == {k \in Nat : k <= Len(list) => \E f : IsSum(f, SubSeq(list, 1, k), a)}
<1>1. 0 \in S
  <2>1. Len(SubSeq(list, 1, 0)) = 0
    OBVIOUS
  <2>2. IsSum([i \in 0..0 |-> 0], SubSeq(list, 1, 0), a)
    BY <2>1 DEF IsSum
  <2> QED
    BY <2>2
<1>2. ASSUME NEW k \in Nat, k \in S PROVE k + 1 \in S
  <2> SUFFICES ASSUME k + 1 <= Len(list) PROVE \E f : IsSum(f, SubSeq(list, 1, k + 1), a)
    OBVIOUS
  <2> DEFINE p == SubSeq(list, 1, k)
             q == SubSeq(list, 1, k + 1)
  <2>1. PICK f : IsSum(f, p, a)
    BY <1>2
  <2>2. /\ p \in Seq(Transfers) /\ q \in Seq(Transfers) /\ Len(p) = k /\ Len(q) = k + 1
        /\ \A i \in 1..k : p[i] = q[i]
    OBVIOUS
  <2> HIDE DEF p, q
  <2> DEFINE last == f[k] + Gains(q[k + 1], a) - Losses(q[k + 1], a)
             g == [i \in 0..(k + 1) |-> IF i = k + 1 THEN last ELSE f[i]]
  <2>3. f[0] = 0 /\ \A i \in 1..k : f[i] = f[i - 1] + Gains(p[i], a) - Losses(p[i], a)
    BY <2>1, <2>2, SumAt
  <2>4. \A i \in 0..(k + 1) :
            g[i] = IF i = 0 THEN 0 ELSE g[i - 1] + Gains(q[i], a) - Losses(q[i], a)
    <3> SUFFICES ASSUME NEW i \in 0..(k + 1)
                 PROVE  g[i] = IF i = 0 THEN 0 ELSE g[i - 1] + Gains(q[i], a) - Losses(q[i], a)
      OBVIOUS
    <3>1. CASE i = k + 1
      <4>1. g[i] = last /\ g[i - 1] = f[k] /\ i # 0
        BY <3>1
      <4> QED
        BY <3>1, <4>1
    <3>2. CASE i = 0
      BY <2>3, <3>2
    <3>3. CASE i # k + 1 /\ i # 0
      <4>1. i \in 1..k /\ i - 1 \in 0..k
        BY <3>3
      <4>2. g[i] = f[i] /\ g[i - 1] = f[i - 1]
        BY <4>1
      <4>3. f[i] = f[i - 1] + Gains(p[i], a) - Losses(p[i], a) /\ p[i] = q[i]
        BY <2>2, <2>3, <4>1
      <4> HIDE DEF g
      <4> QED
        BY <3>3, <4>2, <4>3
    <3> QED
      BY <3>1, <3>2, <3>3
  <2>5. g = [i \in 0..(k + 1) |-> IF i = 0 THEN 0 ELSE g[i - 1] + Gains(q[i], a) - Losses(q[i], a)]
    BY <2>4
  <2>6. IsSum(g, q, a)
    BY <2>2, <2>5 DEF IsSum
  <2> QED
    BY <2>6 DEF q
<1> HIDE DEF S
<1>3. Nat \subseteq S
  BY <1>1, <1>2, Induction
<1>4. SubSeq(list, 1, Len(list)) = list
  OBVIOUS
<1>5. Len(list) \in S /\ Len(list) <= Len(list)
  BY <1>3
<1>6. \E f : IsSum(f, SubSeq(list, 1, Len(list)), a)
  BY <1>5 DEF S
<1> QED
  BY <1>4, <1>6

\* The sums are numbers.
LEMMA SumType ==
    ASSUME NEW list \in Seq(Transfers), NEW a, NEW f, IsSum(f, list, a)
    PROVE  \A i \in 0..Len(list) : f[i] \in Int
<1> DEFINE S == {k \in Nat : k <= Len(list) => f[k] \in Int}
<1>1. 0 \in S
  BY SumAt
<1>2. ASSUME NEW k \in Nat, k \in S PROVE k + 1 \in S
  <2> SUFFICES ASSUME k + 1 <= Len(list) PROVE f[k + 1] \in Int
    OBVIOUS
  <2>1. k + 1 \in 1..Len(list) /\ (k + 1) - 1 = k /\ list[k + 1] \in Transfers
    OBVIOUS
  <2>2. f[k + 1] = f[k] + Gains(list[k + 1], a) - Losses(list[k + 1], a)
    BY <2>1, SumAt
  <2>3. f[k] \in Int
    BY <1>2
  <2>4. Gains(list[k + 1], a) \in Int /\ Losses(list[k + 1], a) \in Int
    BY <2>1, TransferFields DEF Gains, Losses
  <2> QED
    BY <2>2, <2>3, <2>4
<1> HIDE DEF S
<1>3. Nat \subseteq S
  BY <1>1, <1>2, Induction
<1> QED
  BY <1>3 DEF S

\* One transfer, from one to the other.
LEMMA BookedIs ==
    ASSUME NEW g \in [Addresses -> Int], NEW x \in Transfers
    PROVE  Booked(g, x) = [a \in Addresses |-> g[a] + Gains(x, a) - Losses(x, a)]
<1> DEFINE p == [g EXCEPT ![x.from] = g[x.from] - x.value]
           h == [p EXCEPT ![x.to] = p[x.to] + x.value]
<1>1. x.from \in Addresses /\ x.to \in Addresses /\ x.value \in Nat
  BY TransferFields
<1>2. ASSUME NEW a \in Addresses PROVE h[a] = g[a] + Gains(x, a) - Losses(x, a)
  <2>1. \A c \in Addresses : g[c] \in Int
    OBVIOUS
  <2>2. p[a] = g[a] - Losses(x, a)
    BY <1>1, <2>1 DEF Losses
  <2>3. p \in [Addresses -> Int]
    BY <1>1, <2>1
  <2> HIDE DEF p
  <2>4. h[a] = p[a] + Gains(x, a)
    BY <1>1, <2>3 DEF Gains
  <2>5. Gains(x, a) \in Int /\ Losses(x, a) \in Int /\ g[a] \in Int
    BY <1>1 DEF Gains, Losses
  <2> QED
    BY <2>2, <2>4, <2>5
<1>3. h = [a \in Addresses |-> h[a]]
  OBVIOUS
<1> HIDE DEF h
<1>4. h = [a \in Addresses |-> g[a] + Gains(x, a) - Losses(x, a)]
  BY <1>2, <1>3
<1> QED
  BY <1>4 DEF h, p, Booked

\* The books of Balances, transfer by transfer.
IsBooks(b, list) ==
    b = [i \in 0..Len(list) |-> IF i = 0 THEN [a \in Addresses |-> 0] ELSE Booked(b[i - 1], list[i])]

\* A sum of every address.
Sums(list) == [a \in Addresses |-> CHOOSE f : IsSum(f, list, a)]

\* Each of them is the sum of its address, the last value its balance.
LEMMA SumsAre ==
    ASSUME NEW list \in Seq(Transfers), NEW a \in Addresses
    PROVE  /\ Sums(list)[a][0] = 0
           /\ \A i \in 0..Len(list) : Sums(list)[a][i] \in Int
           /\ \A i \in 1..Len(list) :
                Sums(list)[a][i] = Sums(list)[a][i - 1] + Gains(list[i], a) - Losses(list[i], a)
           /\ Balance(list, a) = Sums(list)[a][Len(list)]
<1> DEFINE f == CHOOSE f : IsSum(f, list, a)
<1>1. IsSum(f, list, a)
  BY SumExists
<1>2. Balance(list, a) = f[Len(list)]
  BY DEF Balance, IsSum, Gains, Losses
<1>3. Sums(list)[a] = f
  BY DEF Sums
<1> HIDE DEF f
<1>4. /\ f[0] = 0
      /\ \A i \in 1..Len(list) : f[i] = f[i - 1] + Gains(list[i], a) - Losses(list[i], a)
  BY <1>1, SumAt
<1>5. \A i \in 0..Len(list) : f[i] \in Int
  BY <1>1, SumType
<1> QED
  BY <1>2, <1>3, <1>4, <1>5

\* A transfer takes the sums of all addresses to the next ones.
LEMMA BooksOfSums ==
    ASSUME NEW list \in Seq(Transfers), NEW i \in 1..Len(list)
    PROVE  Booked([a \in Addresses |-> Sums(list)[a][i - 1]], list[i])
               = [a \in Addresses |-> Sums(list)[a][i]]
<1> DEFINE g == [a \in Addresses |-> Sums(list)[a][i - 1]]
<1>1. g \in [Addresses -> Int] /\ list[i] \in Transfers
  <2>1. i - 1 \in 0..Len(list)
    OBVIOUS
  <2>2. \A a \in Addresses : Sums(list)[a][i - 1] \in Int
    BY <2>1, SumsAre
  <2> QED
    BY <2>2
<1>2. \A a \in Addresses : Sums(list)[a][i] = g[a] + Gains(list[i], a) - Losses(list[i], a)
  BY SumsAre
<1> HIDE DEF g
<1>3. Booked(g, list[i]) = [a \in Addresses |-> g[a] + Gains(list[i], a) - Losses(list[i], a)]
  BY <1>1, BookedIs
<1>4. Booked(g, list[i]) = [a \in Addresses |-> Sums(list)[a][i]]
  BY <1>2, <1>3
<1> QED
  BY <1>4 DEF g

\* What is left on the books of an address is its balance.
LEMMA BalancesAre ==
    ASSUME NEW list \in Seq(Transfers)
    PROVE  Balances(list) = [a \in Addresses |-> Balance(list, a)]
<1> DEFINE n == Len(list)
           b == CHOOSE b : IsBooks(b, list)
           page(i) == [a \in Addresses |-> Sums(list)[a][i]]
           c == [i \in 0..n |-> page(i)]
<1>0. n \in Nat
  OBVIOUS
<1>1. page(0) = [a \in Addresses |-> 0]
  BY SumsAre
<1>2. \A i \in 1..n : page(i) = Booked(page(i - 1), list[i])
  BY BooksOfSums
<1> HIDE DEF page, n
<1>3. IsBooks(b, list)
  <2>1. \A i \in 0..n : c[i] = IF i = 0 THEN [a \in Addresses |-> 0] ELSE Booked(c[i - 1], list[i])
    <3> SUFFICES ASSUME NEW i \in 0..n
                 PROVE  c[i] = IF i = 0 THEN [a \in Addresses |-> 0] ELSE Booked(c[i - 1], list[i])
      OBVIOUS
    <3>1. CASE i = 0
      BY <1>0, <1>1, <3>1
    <3>2. CASE i # 0
      <4>1. i \in 1..n /\ i - 1 \in 0..n
        BY <1>0, <3>2
      <4>2. c[i] = page(i) /\ c[i - 1] = page(i - 1)
        BY <4>1
      <4> QED
        BY <1>2, <3>2, <4>1, <4>2
    <3> QED
      BY <3>1, <3>2
  <2>2. c = [i \in 0..n |-> IF i = 0 THEN [a \in Addresses |-> 0] ELSE Booked(c[i - 1], list[i])]
    BY <2>1
  <2>3. IsBooks(c, list)
    BY <2>2 DEF IsBooks, n
  <2> QED
    BY <2>3
<1>4. Balances(list) = b[n]
  BY DEF Balances, IsBooks, n
<1> HIDE DEF b, c
<1> DEFINE e(i) == IF i = 0 THEN [a \in Addresses |-> 0] ELSE Booked(b[i - 1], list[i])
<1>5. \A i \in 0..n : b[i] = e(i)
  <2>1. b = [i \in 0..n |-> e(i)]
    BY <1>3 DEF IsBooks, n
  <2> HIDE DEF e
  <2> QED
    BY <2>1
<1> DEFINE S == {k \in Nat : k <= n => b[k] = page(k)}
<1>6. 0 \in S
  BY <1>0, <1>1, <1>5
<1>7. ASSUME NEW k \in Nat, k \in S PROVE k + 1 \in S
  <2> SUFFICES ASSUME k + 1 <= n PROVE b[k + 1] = page(k + 1)
    OBVIOUS
  <2>1. k + 1 \in 1..n /\ k + 1 \in 0..n /\ (k + 1) - 1 = k /\ k + 1 # 0 /\ k <= n
    BY <1>0
  <2>2. b[k + 1] = e(k + 1)
    BY <1>5, <2>1
  <2>3. e(k + 1) = Booked(b[k], list[k + 1])
    BY <2>1
  <2>4. page(k + 1) = Booked(page(k), list[k + 1])
    BY <1>2, <2>1
  <2>5. b[k] = page(k)
    BY <1>7, <2>1
  <2> QED
    BY <2>2, <2>3, <2>4, <2>5
<1> HIDE DEF S
<1>8. Nat \subseteq S
  BY <1>6, <1>7, Induction
<1>9. b[n] = page(n)
  BY <1>0, <1>8 DEF S
<1>10. page(n) = [a \in Addresses |-> Balance(list, a)]
  BY SumsAre DEF page, n
<1> QED
  BY <1>4, <1>9, <1>10

\* A chain is a sequence of blocks that are sequences of transfers.
LEMMA ChainType ==
    ASSUME NEW chain \in Chains
    PROVE  chain \in Seq(Seq(Transfers)) /\ Len(chain) \in Nat \ {0}
<1>1. PICK h \in 1..MaxHeight : chain \in [1..h -> Blocks]
  BY DEF Chains
<1>2. h \in Nat \ {0}
  BY <1>1, HolderAssumption
<1>3. chain \in Seq(Blocks) /\ Len(chain) = h
  BY <1>1, <1>2
<1>4. chain \in Seq(Seq(Transfers))
  BY <1>3, BlockAssumption
<1> QED
  BY <1>2, <1>3, <1>4

\* The last chunk is where the chain ends.
LEMMA RangesReachTheEnd ==
    ASSUME NEW chain, Len(chain) \in Nat \ {0}
    PROVE  /\ NumRanges(chain) \in Nat \ {0}
           /\ NumRanges(chain) * ChunkSize >= Len(chain)
           /\ (NumRanges(chain) - 1) * ChunkSize < Len(chain)
<1> DEFINE n == Len(chain)
<1>1. n \in Nat \ {0} /\ ChunkSize \in Nat \ {0}
  BY HolderAssumption
<1>2. NumRanges(chain) = (n + ChunkSize - 1) \div ChunkSize
  BY DEF NumRanges
<1> HIDE DEF n
<1> DEFINE k == (n + ChunkSize - 1) \div ChunkSize
<1>3. k \in Nat \ {0}
  BY <1>1
<1>4. k * ChunkSize >= n
  BY <1>1
<1>5. (k - 1) * ChunkSize < n
  BY <1>1
<1> HIDE DEF k
<1>6. NumRanges(chain) = k
  BY <1>2 DEF k
<1> QED
  BY <1>3, <1>4, <1>5, <1>6 DEF n

\* What the blocks whose query was answered say of the token.
Answered(chain, failed) ==
    [h \in 1..Len(chain) |-> IF (h - 1) \div ChunkSize + 1 \in failed THEN <<>> ELSE chain[h]]

\* The answered blocks have the length of the chain.
LEMMA AnsweredType ==
    ASSUME NEW chain \in Seq(Seq(Transfers)), NEW failed
    PROVE  /\ Answered(chain, failed) \in Seq(Seq(Transfers))
           /\ Len(Answered(chain, failed)) = Len(chain)
           /\ \A h \in 1..Len(chain) : Answered(chain, failed)[h] =
                   IF (h - 1) \div ChunkSize + 1 \in failed THEN <<>> ELSE chain[h]
<1>1. Answered(chain, failed) \in [1..Len(chain) -> Seq(Transfers)]
  BY DEF Answered
<1> QED
  BY <1>1 DEF Answered

\* A product of natural numbers is one.
LEMMA Product ==
    ASSUME NEW x \in Nat, NEW y \in Nat
    PROVE  x * y \in Nat
OBVIOUS

\* The elements of a part of a sequence.
LEMMA SubSeqIs ==
    ASSUME NEW T, NEW s \in Seq(T), NEW m \in Nat, NEW n \in m..Len(s)
    PROVE  /\ SubSeq(s, m + 1, n) \in Seq(T) /\ Len(SubSeq(s, m + 1, n)) = n - m
           /\ \A i \in 1..(n - m) : SubSeq(s, m + 1, n)[i] = s[m + i]
OBVIOUS

\* The blocks of one chunk: what is read of them is what the answered ones say.
LEMMA ChunkRead ==
    ASSUME NEW chain \in Seq(Seq(Transfers)), NEW failed, NEW k \in Nat, NEW first \in Nat,
           NEW last \in Nat, first = k * ChunkSize, first <= last, last <= Len(chain),
           last <= (k + 1) * ChunkSize
    PROVE  FlattenSeq(SubSeq(Answered(chain, failed), first + 1, last)) =
               IF k + 1 \in failed THEN <<>> ELSE FlattenSeq(SubSeq(chain, first + 1, last))
<1> DEFINE A == Answered(chain, failed)
           p == SubSeq(A, first + 1, last)
           q == SubSeq(chain, first + 1, last)
<1>1. ChunkSize \in Nat \ {0}
  BY HolderAssumption
<1>2. /\ A \in Seq(Seq(Transfers)) /\ Len(A) = Len(chain)
      /\ \A h \in 1..Len(chain) : A[h] =
              IF (h - 1) \div ChunkSize + 1 \in failed THEN <<>> ELSE chain[h]
  BY AnsweredType
<1> HIDE DEF A
<1>3. ASSUME NEW h \in (first + 1)..last PROVE (h - 1) \div ChunkSize + 1 = k + 1
  <2> DEFINE r == (h - 1) - k * ChunkSize
  <2>1. (k + 1) * ChunkSize = k * ChunkSize + ChunkSize
    BY <1>1
  <2>2. r \in 0..(ChunkSize - 1) /\ k * ChunkSize + r = h - 1
    BY <1>1, <2>1
  <2> HIDE DEF r
  <2>3. (k * ChunkSize + r) \div ChunkSize = k
    BY <1>1, <2>2
  <2> QED
    BY <2>2, <2>3
<1>4. /\ p \in Seq(Seq(Transfers)) /\ Len(p) = last - first
      /\ \A i \in 1..(last - first) : p[i] = A[first + i]
  <2>1. last \in first..Len(A)
    BY <1>2
  <2>2. /\ SubSeq(A, first + 1, last) \in Seq(Seq(Transfers))
        /\ Len(SubSeq(A, first + 1, last)) = last - first
        /\ \A i \in 1..(last - first) : SubSeq(A, first + 1, last)[i] = A[first + i]
    <3>1. A \in Seq(Seq(Transfers))
      BY <1>2
    <3> QED
      BY <2>1, <3>1, SubSeqIs
  <2> QED
    BY <2>2
<1>5. /\ q \in Seq(Seq(Transfers)) /\ Len(q) = last - first
      /\ \A i \in 1..(last - first) : q[i] = chain[first + i]
  OBVIOUS
<1>6. ASSUME NEW i \in 1..(last - first)
      PROVE  p[i] = IF k + 1 \in failed THEN <<>> ELSE q[i]
  <2>1. first + i \in (first + 1)..last /\ first + i \in 1..Len(chain)
    OBVIOUS
  <2> QED
    BY <1>2, <1>3, <1>4, <1>5, <2>1
<1> HIDE DEF p, q
<1>7. CASE k + 1 \in failed
  <2>1. \A i \in 1..Len(p) : p[i] = <<>>
    BY <1>4, <1>6, <1>7
  <2>2. FlattenSeq(p) = <<>>
    BY <1>4, <2>1, FlattenNothing
  <2> QED
    BY <1>7, <2>2 DEF A, p
<1>8. CASE k + 1 \notin failed
  <2>1. p = q
    BY <1>4, <1>5, <1>6, <1>8
  <2> QED
    BY <1>8, <2>1 DEF A, p, q
<1> QED
  BY <1>7, <1>8

\* The chunks side by side are the chain: what the answered ones hold, in order.
LEMMA ResultsAre ==
    ASSUME NEW chain \in Seq(Seq(Transfers)), Len(chain) \in Nat \ {0}, NEW failed,
           ~Capped(chain)
    PROVE  FlattenSeq(Results(chain, failed)) = FlattenSeq(Answered(chain, failed))
<1> DEFINE A == Answered(chain, failed)
           R == Results(chain, failed)
           n == Len(chain)
           num == NumRanges(chain)
           end(k) == IF k * ChunkSize <= n THEN k * ChunkSize ELSE n
           S == {k \in Nat : k <= num => FlattenSeq(SubSeq(R, 1, k)) = FlattenSeq(SubSeq(A, 1, end(k)))}
<1>1. n \in Nat \ {0} /\ num \in Nat \ {0} /\ ChunkSize \in Nat \ {0}
  BY RangesReachTheEnd, HolderAssumption
<1>2. num * ChunkSize >= n /\ (num - 1) * ChunkSize < n
  BY RangesReachTheEnd
<1>3. A \in Seq(Seq(Transfers)) /\ Len(A) = n
  BY AnsweredType
<1>4. ASSUME NEW k \in Nat
      PROVE  Min({k * ChunkSize, n}) = end(k) /\ end(k) \in 0..n
  BY <1>1, MinOfTwo
<1>5. /\ R \in Seq(Seq(Transfers)) /\ Len(R) = num
      /\ \A k \in 1..num : R[k] = IF k \in failed THEN <<>> ELSE FlattenSeq(ChunkRange(chain, k))
  <2> DEFINE result(k) == IF k \in failed THEN <<>> ELSE FlattenSeq(ChunkRange(chain, k))
  <2>1. FirstRange(chain) = 1
    BY DEF FirstRange
  <2>2. R = [k \in 1..(num - 1 + 1) |-> IF 1 + k - 1 \in failed THEN <<>>
                                          ELSE FlattenSeq(ChunkRange(chain, 1 + k - 1))]
    BY <2>1 DEF Results
  <2>3. num - 1 + 1 = num /\ \A k \in 1..num : 1 + k - 1 = k
    BY <1>1
  <2>4. R = [k \in 1..num |-> result(k)]
    BY <2>2, <2>3
  <2>5. ASSUME NEW k \in 1..num PROVE result(k) \in Seq(Transfers)
    <3>1. ChunkRange(chain, k) \in Seq(Seq(Transfers))
      <4> DEFINE m == (k - 1) * ChunkSize + 1
                 e == Min({k * ChunkSize, n})
      <4>1. k \in Nat /\ k - 1 \in Nat
        BY <1>1
      <4>2. m \in Nat \ {0}
        <5>1. (k - 1) * ChunkSize \in Nat
          BY <1>1, <4>1, Product
        <5> QED
          BY <5>1
      <4>3. e \in 0..n
        BY <1>4, <4>1
      <4> HIDE DEF m, e
      <4>4. SubSeq(chain, m, e) \in Seq(Seq(Transfers))
        BY <4>2, <4>3
      <4> QED
        BY <4>4 DEF ChunkRange, m, e
    <3> QED
      BY <3>1, FlattenType
  <2> HIDE DEF result
  <2>6. R \in [1..num -> Seq(Transfers)]
    BY <2>4, <2>5
  <2>7. \A k \in 1..num : R[k] = result(k)
    BY <2>4
  <2> HIDE DEF R, num
  <2>8. R \in Seq(Seq(Transfers)) /\ Len(R) = num
    BY <1>1, <2>6
  <2> QED
    BY <2>7, <2>8 DEF result
<1> HIDE DEF A, R, n, num
<1>6. 0 \in S
  <2>1. SubSeq(R, 1, 0) = <<>> /\ SubSeq(A, 1, end(0)) = <<>>
    BY <1>1, <1>3, <1>5
  <2> QED
    BY <2>1
<1>7. ASSUME NEW k \in Nat, k \in S PROVE k + 1 \in S
  <2> SUFFICES ASSUME k + 1 <= num
               PROVE  FlattenSeq(SubSeq(R, 1, k + 1)) = FlattenSeq(SubSeq(A, 1, end(k + 1)))
    OBVIOUS
  <2>1. k * ChunkSize <= (num - 1) * ChunkSize
    BY <1>1
  <2>2. end(k) = k * ChunkSize /\ k <= num
    BY <1>1, <1>2, <2>1
  <2>3. (k + 1) * ChunkSize = k * ChunkSize + ChunkSize
    BY <1>1
  <2>4. /\ end(k) \in Nat /\ end(k + 1) \in Nat /\ end(k) <= end(k + 1)
        /\ end(k + 1) <= n /\ end(k + 1) <= (k + 1) * ChunkSize
    BY <1>1, <1>2, <2>1, <2>2, <2>3
  <2>5. FlattenSeq(SubSeq(R, 1, k + 1)) = FlattenSeq(SubSeq(R, 1, k)) \o R[k + 1]
    BY <1>5, FlattenPrefix
  <2>6. FlattenSeq(SubSeq(R, 1, k)) = FlattenSeq(SubSeq(A, 1, end(k)))
    BY <1>7, <2>2
  <2>7. FlattenSeq(SubSeq(A, 1, end(k + 1)))
            = FlattenSeq(SubSeq(A, 1, end(k))) \o FlattenSeq(SubSeq(A, end(k) + 1, end(k + 1)))
    BY <1>3, <2>4, FlattenSplit
  <2>8. ChunkRange(chain, k + 1) = SubSeq(chain, end(k) + 1, end(k + 1))
    <3>1. Min({(k + 1) * ChunkSize, n}) = end(k + 1) /\ (k + 1) - 1 = k
      BY <1>4
    <3> QED
      BY <2>2, <3>1 DEF ChunkRange, n
  <2>9. FlattenSeq(SubSeq(A, end(k) + 1, end(k + 1)))
            = IF k + 1 \in failed THEN <<>> ELSE FlattenSeq(SubSeq(chain, end(k) + 1, end(k + 1)))
    <3> HIDE DEF end
    <3> QED
      BY <2>2, <2>4, ChunkRead DEF A, n
  <2>10. R[k + 1] = IF k + 1 \in failed THEN <<>> ELSE FlattenSeq(ChunkRange(chain, k + 1))
    BY <1>5
  <2> HIDE DEF end
  <2>11. R[k + 1] = FlattenSeq(SubSeq(A, end(k) + 1, end(k + 1)))
    <3>1. CASE k + 1 \in failed
      BY <2>9, <2>10, <3>1
    <3>2. CASE k + 1 \notin failed
      BY <2>8, <2>9, <2>10, <3>2
    <3> QED
      BY <3>1, <3>2
  <2> QED
    BY <2>5, <2>6, <2>7, <2>11
<1> HIDE DEF S
<1>8. Nat \subseteq S
  BY <1>6, <1>7, Induction
<1>9. FlattenSeq(SubSeq(R, 1, num)) = FlattenSeq(SubSeq(A, 1, end(num)))
  <2>1. num \in S /\ num <= num
    BY <1>1, <1>8
  <2> QED
    BY <2>1 DEF S
<1>10. end(num) = n
  BY <1>1, <1>2
<1>11. SubSeq(R, 1, num) = R /\ SubSeq(A, 1, n) = A
  BY <1>3, <1>5
<1> QED
  BY <1>9, <1>10, <1>11 DEF A, R

IsMint(x) == x.from = "zero" /\ x.to # "zero"

\* Who gets the first mint of a list is its first minter.
LEMMA FirstMinterIs ==
    ASSUME NEW read \in Seq(Transfers), NEW i \in 1..Len(read), IsMint(read[i]),
           \A j \in 1..Len(read) : j < i => ~IsMint(read[j])
    PROVE  FirstMinter(read) = {read[i].to}
<1> DEFINE mints == {j \in 1..Len(read) : read[j].from = "zero" /\ read[j].to # "zero"}
<1>1. i \in mints /\ \A k \in mints : i <= k
  BY DEF IsMint
<1>2. {j \in mints : \A k \in mints : j <= k} = {i}
  BY <1>1
<1>3. FirstMinter(read) = {read[j].to : j \in {j \in mints : \A k \in mints : j <= k}}
  BY DEF FirstMinter
<1> QED
  BY <1>2, <1>3

\* A list without a mint has none.
LEMMA NoFirstMinter ==
    ASSUME NEW read \in Seq(Transfers), \A j \in 1..Len(read) : ~IsMint(read[j])
    PROVE  FirstMinter(read) = {}
BY DEF FirstMinter, IsMint

\* The places of the mints in a sequence of blocks.
LEMMA MintsAre ==
    ASSUME NEW seen \in Seq(Seq(Transfers))
    PROVE  /\ \A m \in Mints(seen) : \E h \in 1..Len(seen) : \E k \in 1..Len(seen[h]) : m = <<h, k>>
           /\ \A h \in 1..Len(seen) : \A k \in 1..Len(seen[h]) :
                  <<h, k>> \in Mints(seen) <=> IsMint(seen[h][k])
BY DEF Mints, IsMint

\* A mint before which there is none is the only first one.
LEMMA FirstMintsIs ==
    ASSUME NEW seen \in Seq(Seq(Transfers)), NEW h \in 1..Len(seen), NEW k \in 1..Len(seen[h]),
           IsMint(seen[h][k]),
           \A j \in 1..(k - 1) : ~IsMint(seen[h][j]),
           \A g \in 1..(h - 1) : \A j \in 1..Len(seen[g]) : ~IsMint(seen[g][j])
    PROVE  FirstMints(seen) = {<<h, k>>}
<1>1. <<h, k>> \in Mints(seen)
  BY MintsAre
<1>2. ASSUME NEW m \in Mints(seen)
      PROVE  \E g \in 1..Len(seen) : \E j \in 1..Len(seen[g]) :
                 m = <<g, j>> /\ (h < g \/ (h = g /\ k <= j))
  <2>1. PICK g \in 1..Len(seen) : \E j \in 1..Len(seen[g]) : m = <<g, j>>
    BY MintsAre
  <2>2. PICK j \in 1..Len(seen[g]) : m = <<g, j>>
    BY <2>1
  <2>3. IsMint(seen[g][j])
    BY <2>2, MintsAre
  <2>4. ~(g < h) /\ ~(g = h /\ j < k)
    BY <2>3
  <2> QED
    BY <2>2, <2>4
<1>3. <<h, k>> \in FirstMints(seen)
  <2>1. \A n \in Mints(seen) : h < n[1] \/ (h = n[1] /\ k <= n[2])
    BY <1>2
  <2> QED
    BY <1>1, <2>1 DEF FirstMints
<1>4. ASSUME NEW m \in FirstMints(seen) PROVE m = <<h, k>>
  <2>1. m \in Mints(seen) /\ (m[1] < h \/ (m[1] = h /\ m[2] <= k))
    BY <1>1 DEF FirstMints
  <2>2. PICK g \in 1..Len(seen) : \E j \in 1..Len(seen[g]) :
            m = <<g, j>> /\ (h < g \/ (h = g /\ k <= j))
    BY <1>2, <2>1
  <2>3. PICK j \in 1..Len(seen[g]) : m = <<g, j>> /\ (h < g \/ (h = g /\ k <= j))
    BY <2>2
  <2> QED
    BY <2>1, <2>3
<1> QED
  BY <1>3, <1>4

\* A sequence whose elements lie in a set is a sequence over it.
LEMMA SeqWithin ==
    ASSUME NEW U, NEW T, NEW s \in Seq(U), \A i \in 1..Len(s) : s[i] \in T
    PROVE  s \in Seq(T)
<1>1. PICK n \in Nat : s \in [1..n -> U]
  BY SeqDef
<1>2. Len(s) = n /\ s = [i \in 1..n |-> s[i]]
  BY <1>1
<1>3. s \in [1..n -> T]
  BY <1>2
<1> QED
  BY <1>3

\* Blocks without a mint flatten to a list without one.
LEMMA FlattenNoMint ==
    ASSUME NEW s \in Seq(Seq(Transfers)),
           \A h \in 1..Len(s) : \A k \in 1..Len(s[h]) : ~IsMint(s[h][k])
    PROVE  \A i \in 1..Len(FlattenSeq(s)) : ~IsMint(FlattenSeq(s)[i])
<1> DEFINE T == {x \in Transfers : ~IsMint(x)}
<1>1. ASSUME NEW h \in 1..Len(s) PROVE s[h] \in Seq(T)
  <2>1. s[h] \in Seq(Transfers)
    OBVIOUS
  <2>2. \A k \in 1..Len(s[h]) : s[h][k] \in T
    BY <2>1
  <2> HIDE DEF T
  <2> QED
    BY <2>1, <2>2, SeqWithin
<1>2. s \in Seq(Seq(T))
  BY <1>1
<1>3. FlattenSeq(s) \in Seq(T)
  BY <1>2, FlattenType
<1>4. \A i \in 1..Len(FlattenSeq(s)) : FlattenSeq(s)[i] \in T
  BY <1>3
<1> QED
  BY <1>4

\* Whoever comes first in the list is the first in the blocks.
LEMMA MinterIs ==
    ASSUME NEW seen \in Seq(Seq(Transfers))
    PROVE  /\ FirstMinter(FlattenSeq(seen)) = {seen[m[1]][m[2]].to : m \in FirstMints(seen)}
           /\ FirstMinter(FlattenSeq(seen)) = {} \/ \E x : FirstMinter(FlattenSeq(seen)) = {x}
<1> DEFINE F == FlattenSeq(seen)
           with == {h \in 1..Len(seen) : \E k \in 1..Len(seen[h]) : IsMint(seen[h][k])}
<1>0. F \in Seq(Transfers)
  BY FlattenType
<1>1. CASE with = {}
  <2>1. \A h \in 1..Len(seen) : \A k \in 1..Len(seen[h]) : ~IsMint(seen[h][k])
    BY <1>1
  <2>2. FirstMinter(F) = {}
    BY <1>0, <2>1, FlattenNoMint, NoFirstMinter
  <2>3. FirstMints(seen) = {}
    BY <2>1, MintsAre DEF FirstMints
  <2> QED
    BY <2>2, <2>3
<1>2. CASE with # {}
  <2>0. with \in SUBSET Nat
    OBVIOUS
  <2>1. PICK h \in with : \A g \in with : h <= g
    BY <1>2, <2>0, Least
  <2> DEFINE places == {k \in 1..Len(seen[h]) : IsMint(seen[h][k])}
  <2>2. h \in 1..Len(seen) /\ seen[h] \in Seq(Transfers) /\ places # {} /\ places \in SUBSET Nat
    <3>1. h \in 1..Len(seen) /\ \E k \in 1..Len(seen[h]) : IsMint(seen[h][k])
      BY <2>1
    <3>2. seen[h] \in Seq(Transfers)
      BY <3>1
    <3>3. places \in SUBSET Nat
      OBVIOUS
    <3> QED
      BY <3>1, <3>2, <3>3
  <2>3. PICK k \in places : \A j \in places : k <= j
    BY <2>2, Least
  <2>4. k \in 1..Len(seen[h]) /\ IsMint(seen[h][k])
    BY <2>3
  <2>5. \A j \in 1..(k - 1) : ~IsMint(seen[h][j])
    BY <2>2, <2>3, <2>4
  <2>6. \A g \in 1..(h - 1) : \A j \in 1..Len(seen[g]) : ~IsMint(seen[g][j])
    <3> SUFFICES ASSUME NEW g \in 1..(h - 1), NEW j \in 1..Len(seen[g]), IsMint(seen[g][j])
                 PROVE  FALSE
      OBVIOUS
    <3>1. g \in 1..Len(seen) /\ g < h
      BY <2>2
    <3>2. g \in with
      BY <3>1
    <3> QED
      BY <2>1, <2>2, <3>1, <3>2
  <2>7. FirstMints(seen) = {<<h, k>>}
    BY <2>2, <2>4, <2>5, <2>6, FirstMintsIs
  <2> HIDE DEF places, with
  <2> DEFINE before == FlattenSeq(SubSeq(seen, 1, h - 1))
             after == FlattenSeq(SubSeq(seen, h + 1, Len(seen)))
             p == Len(before) + k
  <2>8. before \in Seq(Transfers) /\ after \in Seq(Transfers)
    <3>1. SubSeq(seen, 1, h - 1) \in Seq(Seq(Transfers))
      BY <2>2
    <3>2. SubSeq(seen, h + 1, Len(seen)) \in Seq(Seq(Transfers))
      BY <2>2
    <3> QED
      BY <3>1, <3>2, FlattenType
  <2>9. F = (before \o seen[h]) \o after
    <3>1. SubSeq(seen, 1, Len(seen)) = seen
      OBVIOUS
    <3>2. h \in Nat /\ h - 1 \in Nat /\ (h - 1) + 1 = h /\ h <= Len(seen) /\ Len(seen) \in Nat
      BY <2>2
    <3>3. FlattenSeq(SubSeq(seen, 1, Len(seen))) = FlattenSeq(SubSeq(seen, 1, h)) \o after
      BY <3>2, FlattenSplit
    <3>4. FlattenSeq(SubSeq(seen, 1, (h - 1) + 1)) = before \o seen[(h - 1) + 1]
      BY <3>2, FlattenPrefix
    <3>5. FlattenSeq(SubSeq(seen, 1, h)) = before \o seen[h]
      BY <3>2, <3>4
    <3> QED
      BY <3>1, <3>3, <3>5
  <2>10. \A j \in 1..Len(before) : ~IsMint(before[j])
    <3> DEFINE s == SubSeq(seen, 1, h - 1)
    <3>1. /\ s \in Seq(Seq(Transfers)) /\ Len(s) = h - 1
          /\ \A g \in 1..(h - 1) : s[g] = seen[g]
      BY <2>2
    <3> HIDE DEF s
    <3>2. \A g \in 1..Len(s) : \A j \in 1..Len(s[g]) : ~IsMint(s[g][j])
      BY <2>6, <3>1
    <3>3. \A j \in 1..Len(FlattenSeq(s)) : ~IsMint(FlattenSeq(s)[j])
      BY <3>1, <3>2, FlattenNoMint
    <3> QED
      BY <3>3 DEF s
  <2> HIDE DEF F, before, after
  <2>11. p \in 1..Len(F) /\ F[p] = seen[h][k]
    <3>1. (before \o seen[h]) \in Seq(Transfers)
      BY <2>2, <2>8
    <3>2. p \in 1..Len(before \o seen[h]) /\ (before \o seen[h])[p] = seen[h][k]
      BY <2>2, <2>4, <2>8
    <3> HIDE DEF p
    <3> QED
      BY <2>8, <2>9, <3>1, <3>2
  <2>12. ASSUME NEW j \in 1..Len(F), j < p PROVE ~IsMint(F[j])
    <3>1. CASE j <= Len(before)
      <4>1. F[j] = before[j] /\ j \in 1..Len(before)
        BY <2>2, <2>8, <2>9, <3>1
      <4> QED
        BY <2>10, <4>1
    <3>2. CASE j > Len(before)
      <4>1. j - Len(before) \in 1..(k - 1) /\ F[j] = seen[h][j - Len(before)]
        BY <2>2, <2>4, <2>8, <2>9, <2>12, <3>2
      <4> QED
        BY <2>5, <4>1
    <3> QED
      BY <2>8, <3>1, <3>2
  <2>13. FirstMinter(F) = {F[p].to}
    <3> HIDE DEF p
    <3> QED
      BY <1>0, <2>4, <2>11, <2>12, FirstMinterIs
  <2>14. FirstMinter(F) = {seen[h][k].to}
    BY <2>11, <2>13
  <2>15. {seen[m[1]][m[2]].to : m \in FirstMints(seen)} = {seen[h][k].to}
    BY <2>7
  <2> QED
    BY <2>14, <2>15 DEF F
<1> QED
  BY <1>1, <1>2

\* What is read, if it is not truncated, is what the answered blocks hold.
LEMMA ReadIs ==
    ASSUME NEW chain \in Chains, NEW failed, ~Truncated(chain, failed)
    PROVE  Read(chain, failed) = FlattenSeq(Answered(chain, failed))
<1> DEFINE logs == Reachable(chain, failed)
           all == FlattenSeq(Answered(chain, failed))
<1>1. chain \in Seq(Seq(Transfers)) /\ Len(chain) \in Nat \ {0}
  BY ChainType
<1>2. ~Capped(chain) /\ ~(Len(logs) > MaxTransfers)
  BY DEF Truncated
<1>3. logs = all
  BY <1>1, <1>2, ResultsAre DEF Reachable
<1>4. all \in Seq(Transfers)
  BY <1>1, AnsweredType, FlattenType
<1>5. Read(chain, failed) = SubSeq(logs, 1, Min({Len(logs), MaxTransfers}))
  BY DEF Read
<1> HIDE DEF logs, all
<1>6. Min({Len(logs), MaxTransfers}) = Len(logs)
  <2>1. Len(logs) \in Nat /\ MaxTransfers \in Nat
    BY <1>3, <1>4, HolderAssumption
  <2> QED
    BY <1>2, <2>1, MinOfTwo
<1> QED
  BY <1>3, <1>4, <1>5, <1>6 DEF all

\* A balance is a number.
LEMMA BalanceType ==
    ASSUME NEW list \in Seq(Transfers), NEW a \in Addresses
    PROVE  Balance(list, a) \in Int
<1>1. Len(list) \in 0..Len(list)
  OBVIOUS
<1> QED
  BY <1>1, SumsAre

\* What is reported of a list of transfers, beside what is truncated.
LEMMA HoldersAre ==
    ASSUME NEW list \in Seq(Transfers)
    PROVE  Holders(Balances(list)) = {w \in Wallets : Balance(list, w) > 1}
<1>1. Addresses \ Excluded = Wallets
  BY WalletAssumption DEF Addresses
<1>2. \A w \in Wallets : w \in Addresses
  BY DEF Addresses
<1> QED
  BY <1>1, <1>2, BalancesAre DEF Holders

\* The largest balance of some of the wallets.
LEMMA LargestIs ==
    ASSUME NEW W \in SUBSET Wallets, NEW b \in [Wallets -> Nat]
    PROVE  /\ \A w \in W : b[w] <= Max({0} \cup {b[a] : a \in W})
           /\ W # {} => \E w \in W : b[w] = Max({0} \cup {b[a] : a \in W})
<1> DEFINE B == {b[a] : a \in W}
           F == {0} \cup B
<1>1. IsFiniteSet(W)
  BY WalletAssumption, FS_Subset
<1>2. IsFiniteSet(B)
  <2>1. [a \in W |-> b[a]] \in Surjection(W, B)
    BY DEF Surjection
  <2> QED
    BY <1>1, <2>1, FS_Surjection
<1>3. IsFiniteSet(F)
  <2>1. F = B \cup {0}
    OBVIOUS
  <2> HIDE DEF B, F
  <2> QED
    BY <1>2, <2>1, FS_AddElement
<1>4. F \subseteq Int /\ F # {}
  OBVIOUS
<1> HIDE DEF F
<1>5. Max(F) \in F /\ \A y \in F : Max(F) >= y
  BY <1>3, <1>4, MaxOfFinite
<1> USE DEF F
<1>6. ASSUME NEW w \in W PROVE b[w] <= Max(F) /\ b[w] \in Nat
  <2>1. b[w] \in F /\ b[w] \in Nat
    OBVIOUS
  <2>2. Max(F) \in Int
    BY <1>4, <1>5
  <2> HIDE DEF F
  <2> QED
    BY <1>5, <2>1, <2>2
<1>7. W # {} => \E w \in W : b[w] = Max(F)
  <2> SUFFICES ASSUME NEW x \in W PROVE \E w \in W : b[w] = Max(F)
    OBVIOUS
  <2>1. CASE Max(F) \in B
    BY <2>1
  <2>2. CASE Max(F) = 0
    <3>1. b[x] <= 0 /\ b[x] \in Nat
      BY <1>6, <2>2
    <3>2. b[x] = 0
      BY <3>1
    <3> QED
      BY <2>2, <3>2
  <2> QED
    BY <1>5, <2>1, <2>2
<1> QED
  BY <1>6, <1>7

\* A report that is not truncated is exact.
LEMMA ReportExact ==
    ASSUME NEW chain \in Chains, NEW failed, ~Truncated(chain, failed)
    PROVE  Exact(Report(chain, failed), Answered(chain, failed))
<1> DEFINE seen == Answered(chain, failed)
           list == FlattenSeq(seen)
           held == Holders(Balances(list))
           r == Report(chain, failed)
<1>1. seen \in Seq(Seq(Transfers)) /\ list \in Seq(Transfers)
  BY ChainType, AnsweredType, FlattenType
<1>2. Read(chain, failed) = list
  BY ReadIs
<1>3. held = {w \in Wallets : Balance(list, w) > 1}
  BY <1>1, HoldersAre
<1>4. Balances(list) = [a \in Addresses |-> Balance(list, a)]
  BY <1>1, BalancesAre
<1>5. \A w \in held : w \in Addresses /\ Balance(list, w) \in Int /\ Balance(list, w) > 1
  BY <1>1, <1>3, BalanceType DEF Addresses
<1> HIDE DEF seen, held, list
<1>6. /\ r.holders = held
      /\ r.top_balance = Max({0} \cup {Balances(list)[a] : a \in held})
      /\ r.minter = FirstMinter(list)
      /\ r.minter_balance = {IF a \in held THEN Balances(list)[a] ELSE 0 : a \in FirstMinter(list)}
  BY <1>2 DEF Report, held
<1>7. /\ \A w \in held : Balance(list, w) <= r.top_balance
      /\ held # {} => \E w \in held : Balance(list, w) = r.top_balance
  <2> DEFINE b == [w \in Wallets |-> IF w \in held THEN Balance(list, w) ELSE 0]
  <2>1. b \in [Wallets -> Nat] /\ held \in SUBSET Wallets
    BY <1>3, <1>5
  <2>2. \A w \in held : b[w] = Balance(list, w) /\ b[w] = Balances(list)[w]
    BY <1>4, <1>5, <2>1
  <2> HIDE DEF b
  <2>3. {Balances(list)[a] : a \in held} = {b[a] : a \in held}
    BY <2>2
  <2>4. r.top_balance = Max({0} \cup {b[a] : a \in held})
    BY <1>6, <2>3
  <2>5. /\ \A w \in held : b[w] <= r.top_balance
        /\ held # {} => \E w \in held : b[w] = r.top_balance
    BY <2>1, <2>4, LargestIs
  <2> QED
    BY <2>2, <2>5
<1>8. r.minter = {seen[m[1]][m[2]].to : m \in FirstMints(seen)}
  BY <1>1, <1>6, MinterIs DEF list
<1>9. ASSUME NEW a \in r.minter
      PROVE  r.minter_balance = {IF a \in held THEN Balance(list, a) ELSE 0}
  <2>1. FirstMinter(list) = {a}
    BY <1>1, <1>6, <1>9, MinterIs DEF list
  <2>2. r.minter_balance = {IF a \in held THEN Balances(list)[a] ELSE 0}
    BY <1>6, <2>1
  <2>3. a \in held => Balances(list)[a] = Balance(list, a)
    BY <1>4, <1>5
  <2> QED
    BY <2>2, <2>3
<1>10. Exact(r, seen)
  <2> HIDE DEF r
  <2> QED
    BY <1>3, <1>6, <1>7, <1>8, <1>9 DEF Exact, list
<1> QED
  BY <1>10 DEF seen

\* Sequences no longer than others flatten to one no longer than theirs.
LEMMA FlattenShorter ==
    ASSUME NEW T, NEW s \in Seq(Seq(T)), NEW y \in Seq(Seq(T)), Len(s) = Len(y),
           \A i \in 1..Len(s) : Len(s[i]) <= Len(y[i])
    PROVE  Len(FlattenSeq(s)) <= Len(FlattenSeq(y))
<1> DEFINE S == {k \in Nat : k <= Len(s) =>
                    Len(FlattenSeq(SubSeq(s, 1, k))) <= Len(FlattenSeq(SubSeq(y, 1, k)))}
<1>1. 0 \in S
  <2>1. SubSeq(s, 1, 0) = <<>> /\ SubSeq(y, 1, 0) = <<>>
    OBVIOUS
  <2>2. FlattenSeq(<<>>) = <<>>
    BY DEF FlattenSeq
  <2>3. FlattenSeq(SubSeq(s, 1, 0)) = <<>> /\ FlattenSeq(SubSeq(y, 1, 0)) = <<>>
    BY <2>1, <2>2
  <2>4. Len(FlattenSeq(SubSeq(s, 1, 0))) <= Len(FlattenSeq(SubSeq(y, 1, 0)))
    BY <2>3
  <2> QED
    BY <2>4
<1>2. ASSUME NEW k \in Nat, k \in S PROVE k + 1 \in S
  <2> SUFFICES ASSUME k + 1 <= Len(s)
               PROVE  Len(FlattenSeq(SubSeq(s, 1, k + 1))) <= Len(FlattenSeq(SubSeq(y, 1, k + 1)))
    OBVIOUS
  <2> DEFINE p == FlattenSeq(SubSeq(s, 1, k))
             q == FlattenSeq(SubSeq(y, 1, k))
  <2>1. /\ FlattenSeq(SubSeq(s, 1, k + 1)) = p \o s[k + 1]
        /\ FlattenSeq(SubSeq(y, 1, k + 1)) = q \o y[k + 1]
    BY FlattenPrefix
  <2>2. p \in Seq(T) /\ q \in Seq(T)
    <3>1. SubSeq(s, 1, k) \in Seq(Seq(T)) /\ SubSeq(y, 1, k) \in Seq(Seq(T))
      OBVIOUS
    <3> QED
      BY <3>1, FlattenType
  <2>3. Len(p) <= Len(q)
    BY <1>2
  <2>4. /\ s[k + 1] \in Seq(T) /\ y[k + 1] \in Seq(T)
        /\ Len(s[k + 1]) <= Len(y[k + 1])
    OBVIOUS
  <2> HIDE DEF p, q
  <2>5. /\ Len(p \o s[k + 1]) = Len(p) + Len(s[k + 1])
        /\ Len(q \o y[k + 1]) = Len(q) + Len(y[k + 1])
    BY <2>2, <2>4
  <2>6. {Len(p), Len(q), Len(s[k + 1]), Len(y[k + 1])} \subseteq Nat
    BY <2>2, <2>4
  <2> QED
    BY <2>1, <2>3, <2>4, <2>5, <2>6
<1> HIDE DEF S
<1>3. Nat \subseteq S
  BY <1>1, <1>2, Induction
<1>4. SubSeq(s, 1, Len(s)) = s /\ SubSeq(y, 1, Len(s)) = y /\ Len(s) \in Nat
  OBVIOUS
<1>5. Len(s) \in S
  BY <1>3, <1>4
<1>6. Len(FlattenSeq(SubSeq(s, 1, Len(s)))) <= Len(FlattenSeq(SubSeq(y, 1, Len(s))))
  BY <1>4, <1>5 DEF S
<1> QED
  BY <1>4, <1>6

\* A product grows with its factor.
LEMMA ProductGrows ==
    ASSUME NEW a \in Nat, NEW b \in Nat, NEW c \in Nat, a <= b
    PROVE  a * c <= b * c
<1>1. PICK d \in Nat : b = a + d
  <2>1. b - a \in Nat /\ b = a + (b - a)
    OBVIOUS
  <2> QED
    BY <2>1
<1>2. b * c = a * c + d * c /\ d * c \in Nat /\ a * c \in Nat
  BY <1>1
<1> QED
  BY <1>2

\* There are too many chunks if and only if the chain has too many blocks.
LEMMA CappedIs ==
    ASSUME NEW chain, Len(chain) \in Nat \ {0}
    PROVE  Capped(chain) <=> Len(chain) > MaxChunks * ChunkSize
<1> DEFINE n == Len(chain)
           k == NumRanges(chain)
<1>1. /\ n \in Nat /\ k \in Nat \ {0} /\ MaxChunks \in Nat /\ ChunkSize \in Nat
      /\ k * ChunkSize >= n /\ (k - 1) * ChunkSize < n
  BY RangesReachTheEnd, HolderAssumption
<1> HIDE DEF n, k
<1>2. /\ MaxChunks * ChunkSize \in Nat /\ k * ChunkSize \in Nat
      /\ k - 1 \in Nat /\ (k - 1) * ChunkSize \in Nat
  BY <1>1, Product
<1>3. CASE k > MaxChunks
  <2>1. MaxChunks * ChunkSize <= (k - 1) * ChunkSize
    <3>1. MaxChunks <= k - 1
      BY <1>1, <1>3
    <3> QED
      BY <1>1, <1>2, <3>1, ProductGrows
  <2>2. n > MaxChunks * ChunkSize
    BY <1>1, <1>2, <2>1
  <2> QED
    BY <1>3, <2>2 DEF Capped, n, k
<1>4. CASE ~(k > MaxChunks)
  <2>1. k * ChunkSize <= MaxChunks * ChunkSize
    <3>1. k <= MaxChunks
      BY <1>1, <1>4
    <3> QED
      BY <1>1, <3>1, ProductGrows
  <2>2. ~(n > MaxChunks * ChunkSize)
    BY <1>1, <1>2, <2>1
  <2> QED
    BY <1>4, <2>2 DEF Capped, n, k
<1> QED
  BY <1>3, <1>4

\* When every query is answered, what is answered is the chain.
LEMMA AllAnswered ==
    ASSUME NEW chain \in Seq(Seq(Transfers))
    PROVE  Answered(chain, {}) = chain
<1>1. /\ Answered(chain, {}) \in Seq(Seq(Transfers))
      /\ Len(Answered(chain, {})) = Len(chain)
      /\ \A h \in 1..Len(chain) : Answered(chain, {})[h] = chain[h]
  BY AnsweredType
<1> HIDE DEF Answered
<1> QED
  BY <1>1

\* A scan is truncated only if its chain is oversized, and if every query is
\* answered whenever it is.
LEMMA TruncatedIs ==
    ASSUME NEW chain \in Chains, NEW failed
    PROVE  /\ Truncated(chain, failed) => Oversized(chain)
           /\ failed = {} /\ Oversized(chain) => Truncated(chain, failed)
<1> DEFINE seen == Answered(chain, failed)
<1>1. chain \in Seq(Seq(Transfers)) /\ Len(chain) \in Nat \ {0}
  BY ChainType
<1>2. Capped(chain) <=> Len(chain) > MaxChunks * ChunkSize
  BY <1>1, CappedIs
<1>3. ~Capped(chain) => Reachable(chain, failed) = FlattenSeq(seen)
  BY <1>1, ResultsAre DEF Reachable
<1>4. /\ Len(FlattenSeq(seen)) \in Nat /\ Len(FlattenSeq(chain)) \in Nat
      /\ Len(FlattenSeq(seen)) <= Len(FlattenSeq(chain))
  <2>1. /\ seen \in Seq(Seq(Transfers)) /\ Len(seen) = Len(chain)
        /\ \A h \in 1..Len(chain) : seen[h] = <<>> \/ seen[h] = chain[h]
    BY <1>1, AnsweredType
  <2> HIDE DEF seen
  <2>2. \A h \in 1..Len(seen) : Len(seen[h]) <= Len(chain[h])
    BY <1>1, <2>1
  <2>3. FlattenSeq(seen) \in Seq(Transfers) /\ FlattenSeq(chain) \in Seq(Transfers)
    BY <1>1, <2>1, FlattenType
  <2>4. Len(FlattenSeq(seen)) <= Len(FlattenSeq(chain))
    BY <1>1, <2>1, <2>2, FlattenShorter
  <2> QED
    BY <2>3, <2>4
<1>5. failed = {} => seen = chain
  BY <1>1, AllAnswered
<1>6. MaxTransfers \in Nat
  BY HolderAssumption
<1> HIDE DEF seen
<1> QED
  BY <1>2, <1>3, <1>4, <1>5, <1>6 DEF Truncated, Oversized

\* The flag of a holder report means what it says, and a report of a chain that
\* is not oversized, all queries answered, is exact: for every chain of any
\* length, and blocks of any size.
LEMMA ReportsExact == ScanExact
<1> SUFFICES ASSUME NEW chain \in Chains
             PROVE  /\ \A r \in Analyses(chain) : r.truncated => Oversized(chain)
                    /\ IF Oversized(chain) THEN Report(chain, {}).truncated
                                            ELSE Exact(Report(chain, {}), chain)
  BY DEF ScanExact
<1>1. ASSUME NEW r \in Analyses(chain), r.truncated PROVE Oversized(chain)
  <2>1. r # NoReport
    BY <1>1 DEF NoReport
  <2>2. PICK failed \in SUBSET (1..NumRanges(chain)) : r = Report(chain, failed)
    BY <2>1 DEF Analyses
  <2>3. Truncated(chain, failed)
    BY <1>1, <2>2 DEF Report
  <2> QED
    BY <2>3, TruncatedIs
<1>2. CASE Oversized(chain)
  <2>1. Truncated(chain, {})
    BY <1>2, TruncatedIs
  <2>2. Report(chain, {}).truncated
    BY <2>1 DEF Report
  <2> QED
    BY <1>1, <1>2, <2>2
<1>3. CASE ~Oversized(chain)
  <2>1. ~Truncated(chain, {})
    BY <1>3, TruncatedIs
  <2>2. Exact(Report(chain, {}), Answered(chain, {}))
    BY <2>1, ReportExact
  <2>3. Answered(chain, {}) = chain
    BY ChainType, AllAnswered
  <2> QED
    BY <1>1, <1>3, <2>2, <2>3
<1> QED
  BY <1>2, <1>3

-----------------------------------------------------------------------------
\* Whenever a token was assessed, the levels are ordered: DangersNeverLowerLevel.
THEOREM DangersOrdered == Spec => []DangersNeverLowerLevel
<1>1. DangersNeverLowerLevel
  BY RanksAreOrdered DEF DangersNeverLowerLevel
<1> QED
  BY <1>1, PTL DEF Spec

\* Whenever a token was assessed, its level can be taken at its word:
\* LevelsKeepTheirWord.
THEOREM LevelsTrusted == Spec => []LevelsKeepTheirWord
<1>1. LevelsKeepTheirWord
  BY LevelsAreTruthful DEF LevelsKeepTheirWord
<1> QED
  BY <1>1, PTL DEF Spec

\* Whenever a handler awaits the top holders, a report is flagged for being too
\* large only, and one whose queries were all answered is exact or flagged:
\* HolderReportExact.
THEOREM HoldersExact == Spec => []HolderReportExact
<1>1. HolderReportExact
  BY ReportsExact DEF HolderReportExact
<1> QED
  BY <1>1, PTL DEF Spec
=============================================================================
