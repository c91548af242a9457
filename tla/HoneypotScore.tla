---------------------------- MODULE HoneypotScore ----------------------------
(***************************************************************************)
(* HoneypotDetector of ai/honeypot.py as operators: the risk level of a    *)
(* token from GoPlus's report and from a simulated sale.                   *)
(*                                                                         *)
(* A report is told apart as far as the score tells it apart: a percentage *)
(* stands for the range it begins. What GoPlus answers is the set of its   *)
(* reports, empty if it failed, or does not know the token.                *)
(***************************************************************************)
EXTENDS Integers, Sequences, FiniteSets, FiniteSetsExt

CONSTANT Flags          \* bound: the keys of Mutability that reports may set

\* Points of what the report says outright, and of what the owner may still do;
\* closed_source is is_open_source with the answer "0".
Direct == [is_honeypot |-> 100, cannot_buy |-> 60, honeypot_with_same_creator |-> 50]
Mutability ==
    [hidden_owner |-> 25, can_take_back_ownership |-> 25, owner_change_balance |-> 30,
     is_mintable |-> 15, transfer_pausable |-> 20, selfdestruct |-> 20,
     slippage_modifiable |-> 15, personal_slippage_modifiable |-> 15,
     is_blacklisted |-> 15, is_proxy |-> 10, external_call |-> 5, trading_cooldown |-> 5,
     closed_source |-> 20]

ASSUME FlagsAssumption == Flags \subseteq DOMAIN Mutability

\* Mutant of HolderCount: a count of zero is falsy.
HolderCountFalsy == [from50 |-> 0, from10 |-> 5, from1 |-> 20, zero |-> 0, unknown |-> 20]

\* Points by tax, by the share of the largest holder that is no contract, and
\* by holder_count, which may be missing or no number.
SellTax == [low |-> 0, from10 |-> 15, from20 |-> 30]
BuyTax == [low |-> 0, from20 |-> 15]
TopHolder == [low |-> 0, from15 |-> 10, from30 |-> 25]
HolderCount == [from50 |-> 0, from10 |-> 5, from1 |-> 20, zero |-> 35, unknown |-> 20]

Reports ==
    [direct : SUBSET DOMAIN Direct, trust_list : BOOLEAN, flags : SUBSET Flags,
     sell_tax : DOMAIN SellTax, buy_tax : DOMAIN BuyTax,
     top_holder : DOMAIN TopHolder, holder_count : DOMAIN HolderCount]

Answers == {{}} \cup {{r} : r \in Reports}

\* can_sell_now, or "none" if nothing was simulated or the simulation raised.
Simulations == {"none", "sold", "reverted"}

-----------------------------------------------------------------------------
\* flag_bool.
Said(of, key, said) == IF key \in said THEN of[key] ELSE 0

DirectPoints(said) ==
    Said(Direct, "is_honeypot", said) + Said(Direct, "cannot_buy", said)
      + Said(Direct, "honeypot_with_same_creator", said)

MutabilityPoints(said) ==
    LET by(key) == Said(Mutability, key, said)
    IN  by("hidden_owner") + by("can_take_back_ownership") + by("owner_change_balance")
          + by("is_mintable") + by("transfer_pausable") + by("selfdestruct")
          + by("slippage_modifiable") + by("personal_slippage_modifiable")
          + by("is_blacklisted") + by("is_proxy") + by("external_call")
          + by("trading_cooldown") + by("closed_source")

\* Mutant of DirectScore: the trusted token's score is not kept from falling
\* below zero.
DirectScoreUnclamped(r) ==
    DirectPoints(r.direct) - (IF r.trust_list THEN 40 ELSE 0)

\* The list of trusted tokens takes from what the report says outright, and
\* only from that.
DirectScore(r) ==
    Max({0, DirectPoints(r.direct) - (IF r.trust_list THEN 40 ELSE 0)})

ReportScore(r) ==
    DirectScore(r) + MutabilityPoints(r.flags) + SellTax[r.sell_tax] + BuyTax[r.buy_tax]
      + TopHolder[r.top_holder] + HolderCount[r.holder_count]

\* A sale that reverted costs points whatever the answer; one that went through
\* earns some if there is a report that does not say honeypot.
SimulationScore(answer, sim) ==
    IF sim = "reverted" THEN 60
    ELSE IF sim = "sold" /\ \E r \in answer : "is_honeypot" \notin r.direct THEN -10
    ELSE 0

Score(answer, sim) ==
    LET said == IF answer = {} THEN 0 ELSE ReportScore(CHOOSE r \in answer : TRUE)
    IN  Min({100, Max({0, said + SimulationScore(answer, sim)})})

\* data_sources: a simulation that raised is none.
NumSources(answer, sim) == Cardinality(answer) + (IF sim = "none" THEN 0 ELSE 1)

RiskLevels == <<"SAFE", "LOW", "MEDIUM", "HIGH", "CRITICAL">>

\* The place of the score's level in RiskLevels.
Threshold(score) ==
    CASE score >= 70 -> 5
      [] score \in 45..69 -> 4
      [] score \in 20..44 -> 3
      [] score \in 1..19 -> 2
      [] score <= 0 -> 1

\* Without a source nothing is known, and one source alone calls no token safe.
Level(answer, sim) ==
    IF NumSources(answer, sim) = 0 THEN "UNKNOWN"
    ELSE IF NumSources(answer, sim) = 1 /\ Score(answer, sim) = 0 THEN "LOW"
    ELSE RiskLevels[Threshold(Score(answer, sim))]

-----------------------------------------------------------------------------
\* What is worse than a grade, the grades going from the best to the worst.
Below(grades, g) ==
    {grades[j] : j \in {j \in DOMAIN grades : \E i \in DOMAIN grades : i < j /\ grades[i] = g}}

\* The reports that say one thing more against the token. An unknown number of
\* holders is neither better nor worse than a known one.
Worse(r) ==
    {[r EXCEPT !.direct = @ \cup {f}] : f \in DOMAIN Direct}
    \cup {[r EXCEPT !.flags = @ \cup {f}] : f \in Flags}
    \cup {[r EXCEPT !.trust_list = FALSE]}
    \cup {[r EXCEPT !.sell_tax = g] : g \in Below(<<"low", "from10", "from20">>, r.sell_tax)}
    \cup {[r EXCEPT !.buy_tax = g] : g \in Below(<<"low", "from20">>, r.buy_tax)}
    \cup {[r EXCEPT !.top_holder = g] : g \in Below(<<"low", "from15", "from30">>, r.top_holder)}
    \cup {[r EXCEPT !.holder_count = g] :
              g \in Below(<<"from50", "from10", "from1", "zero">>, r.holder_count)}

Rank(answer, sim) == CHOOSE i \in 1..Len(RiskLevels) : RiskLevels[i] = Level(answer, sim)

\* No deduction, clamp, range or confidence gate turns the order around.
RanksOrdered ==
    \A r \in Reports :
        /\ \A sim \in Simulations : \A w \in Worse(r) : Rank({r}, sim) <= Rank({w}, sim)
        /\ Rank({r}, "sold") <= Rank({r}, "none")
        /\ Rank({r}, "none") <= Rank({r}, "reverted")

\* What the comments of honeypot.py say of a level.
LevelsTruthful ==
    \A answer \in Answers : \A sim \in Simulations :
        LET l == Level(answer, sim)
        IN  /\ l = "UNKNOWN" <=> answer = {} /\ sim = "none"
            /\ l = "SAFE" => /\ sim = "sold"
                             /\ \E r \in answer : r.holder_count \notin {"zero", "unknown"}
            /\ sim = "reverted" => l \in {"HIGH", "CRITICAL"}
            /\ \A r \in answer : "is_honeypot" \in r.direct =>
                  l = "CRITICAL" \/ (l = "HIGH" /\ r.trust_list)
=============================================================================
