----------------------------- MODULE Retrieval -----------------------------
(***************************************************************************)
(* One retrieval over the injection candidates of the belief store:         *)
(* `select_for_injection` stage by stage, the frozen gate's verdict it      *)
(* ranks with, the operating point's decision, and the two answers made of  *)
(* it (the daemon's `Retrieved`, the eval adapter's response); beside it    *)
(* the `recall` tool, which reads the same beliefs by lexical score alone.  *)
(*                                                                          *)
(* A belief is its place in id order; `hot` are the matured ones in the     *)
(* scope of the request.  Cue scores, token costs and logits are small      *)
(* integers; z-scores and reciprocal ranks are compared exactly, as         *)
(* fractions.  A cross-encoder may fail on a candidate, or on a batch.      *)
(***************************************************************************)
EXTENDS Integers, Sequences, FiniteSets, FiniteSetsExt, SequencesExt

CONSTANTS
    Pools,          \* [n, hot, at, lex, den, made, eff, cost]: the beliefs of one query
    Coverages,      \* of "declared", "full"
    Artifacts,      \* gate artifacts a build could embed
    Curves,         \* the gate's calibration: cue -> sequence of <<bound, precision>>
    PassAt,         \* THRESHOLD of the gate
    Certain,        \* the precision 1.0
    Gap,            \* SESSION_GAP_MS
    PruneTopN, RerankBudget, CascadeSlate, CascadeNarrow, AdmitTopK, MaxBatch,
    RrfK,           \* RRF_K
    Logits,         \* what a cross-encoder can say
    Margin,         \* the declared operating point
    MaxTokens, RecallLimit

NoReason == "none"       \* for a name
UserAsserted == 3    \* the top of the trust order
AgentObserved == 2
NoAnswer == [injected |-> <<>>]
NoRecall == [found |-> <<>>, floor |-> -1]
Fail == -99          \* no logit

(* No logit is as low as none, and what is cut off leaves one at least *)
ASSUME RetrievalAssumption ==
    /\ Logits \subseteq Int /\ \A x \in Logits : x > Fail
    /\ {AdmitTopK, RrfK, MaxBatch, PruneTopN} \subseteq Nat \ {0}
    /\ {RerankBudget, CascadeSlate, CascadeNarrow, Gap, Certain} \subseteq Nat
    /\ {PassAt, Margin} \subseteq Int

VARIABLES
    stage,       \* the probe's stages: "prune", "rerank", "fuse", "assemble", "done";
                 \* "recalled" when the request was a `recall`
    pool, plan, coverage, batched,
    survived,    \* candidates that survived session pruning
    logit,       \* rerank_score: candidate -> logit or Fail
    second,      \* the fusion partner's logit (or Fail) of each narrowed candidate
    rank,        \* fusion_rank: candidate -> rank, only for the fused ones
    answer,      \* the Selection
    recalled     \* the answer of `recall`

retrievalVars == <<stage, pool, plan, coverage, batched, survived, logit, second, rank, answer,
          recalled>>

(* What a request may find, the empty store among it *)
ASSUME PoolsAssumption ==
    /\ \E p \in Pools : p.n = 0
    /\ \A p \in Pools : /\ p.n \in Nat /\ p.hot \subseteq 1..p.n
                        /\ {p.at, p.lex, p.den} \subseteq [1..p.n -> Int]
                        /\ p.eff \in [1..p.n -> 0..UserAsserted] /\ p.cost \in [1..p.n -> Nat]
    /\ MaxTokens \in Nat /\ RecallLimit \in Nat

All == pool.hot

(* sort_by, which is stable: one after the other goes before the first it ranks above *)
Placed(s, x, above) ==
    InsertAt(s, Min({i \in DOMAIN s : <<x, s[i]>> \in above} \cup {Len(s) + 1}), x)
Arranged(S, above) ==
    MapThenFoldSet(LAMBDA x, s : Placed(s, x, above), <<>>, LAMBDA x : x, LAMBDA T : Max(T), S)
SortedBy(S, above(_, _)) == Arranged(S, {p \in S \X S : above(p[1], p[2])})
Take(s, k) == SubSeq(s, 1, Min({k, Len(s)}))

-----------------------------------------------------------------------------
(* The gate: an artifact is read only if it is this build's, and only one    *)
(* constructor reads it (`FrozenGate::from_artifact`)                        *)

CueFeatures  == <<"lexical", "dense">>        \* a cue by its margin, which is calibrated
RankFeatures == <<"lexical z", "dense z">>    \* what decides the order
FeatureNames == CueFeatures \o RankFeatures \o <<"trust">>
Fitted == [state |-> "fitted", version |-> "frozen-v5", fusion |-> "per query", threshold |-> PassAt,
           names |-> FeatureNames, cues |-> CueFeatures, ranks |-> RankFeatures]

(* Names in order, not by their number: a transposition disagrees *)
Agrees(g) == \A field \in DOMAIN Fitted : g[field] = Fitted[field]

(* validate_curve: precisions that exist, bounds that rise, a fit that never falls *)
validate_curve(curve) ==
    /\ curve # <<>>
    /\ \A k \in DOMAIN curve : curve[k][2] \in 0..Certain
    /\ \A k \in 2..Len(curve) : /\ curve[k - 1][1] < curve[k][1]
                               /\ curve[k - 1][2] <= curve[k][2]

(* Every cue has a curve, and no curve goes unread *)
CurvesRead(g) == /\ DOMAIN g.curves = Range(CueFeatures)
                 /\ \A c \in DOMAIN g.curves : validate_curve(g.curves[c])

(* What is neither calibrated nor ordered by is declared inert, and only that *)
InertDeclared(g) == /\ g.inert \subseteq Range(FeatureNames)
                    /\ g.inert \cap Range(CueFeatures \o RankFeatures) = {}
                    /\ Range(FeatureNames) \subseteq g.inert \cup Range(CueFeatures \o RankFeatures)

max_calibrated_precision(g) == Max({0} \cup {Last(g.curves[c])[2] : c \in DOMAIN g.curves})

(* The interlock: a fusion that failed its floor may not be able to inject *)
FloorInterlock(g) == /\ g.floor \in {"pass", "fail", "unmeasured"}
                     /\ ~(g.floor = "fail" /\ max_calibrated_precision(g) >= PassAt)

from_artifact(g) ==
    Agrees(g) /\ CurvesRead(g) /\ InertDeclared(g) /\ FloorInterlock(g) /\ g.provenance

ASSUME GateAssumption ==
    /\ \E g \in Artifacts : from_artifact(g) /\ g.curves = Curves
    /\ \A g \in Artifacts : \A c \in DOMAIN g.curves : g.curves[c] \in Seq(Int \X Int)

-----------------------------------------------------------------------------
(* Features: a cue's margin over its runner-up, and its z-score as the       *)
(* fraction num / sqrt(var)                                                  *)

Sum(scores) ==
    MapThenFoldSet(LAMBDA x, y : x + y, 0, LAMBDA i : scores[i], LAMBDA T : Max(T), DOMAIN scores)

RunnerUp(scores, i) ==
    LET top == Max(Range(scores))
        below == {j \in DOMAIN scores : j # i}
    IN  IF scores[i] = top /\ \A j \in below : scores[j] < top
        THEN IF below = {} THEN 0 ELSE Max({scores[j] : j \in below})
        ELSE top

CueMargin(scores, i) == scores[i] - RunnerUp(scores, i)

Z(scores, i) ==
    LET n == Cardinality(DOMAIN scores)
        sum == Sum(scores)
    IN  [num |-> n * scores[i] - sum,
         var |-> n * Sum([j \in DOMAIN scores |-> scores[j] * scores[j]]) - sum * sum]

SignedSquare(x) == IF x < 0 THEN -(x * x) ELSE x * x
(* A cue with no spread scores everybody zero *)
ZNum(z) == IF z.var = 0 THEN 0 ELSE z.num
ZVar(z) == IF z.var = 0 THEN 1 ELSE z.var
ZGreater(y, z) == SignedSquare(ZNum(y)) * ZVar(z) > SignedSquare(ZNum(z)) * ZVar(y)
ZEqual(y, z) == ~ZGreater(y, z) /\ ~ZGreater(z, y)

(* FrozenGate::calibrate_cue: the first breakpoint not below the value *)
calibrate_cue(curve, value) ==
    LET at == {k \in DOMAIN curve : curve[k][1] >= value}
    IN  curve[IF at = {} THEN Len(curve) ELSE Min(at)][2]

CueOf(c) == Restrict(IF c = "lexical" THEN pool.lex ELSE pool.den, All)
Reading(curves, c, i) ==
    [cue |-> c, p |-> calibrate_cue(curves[c], CueMargin(CueOf(c), i)), z |-> Z(CueOf(c), i),
     margin |-> CueMargin(CueOf(c), i)]

(* judge: the better calibrated cue speaks for the candidate, the larger     *)
(* z-score between equals                                                    *)
judgeBy(curves, i) ==
    LET lexical == Reading(curves, "lexical", i)
        dense == Reading(curves, "dense", i)
    IN  IF dense.p > lexical.p \/ (dense.p = lexical.p /\ ZGreater(dense.z, lexical.z))
        THEN dense ELSE lexical
judge(i) == judgeBy(Curves, i)

-----------------------------------------------------------------------------
(* Sessions: a scan in order of time opens a new one at every long gap *)

LongGap(a, b) == b - a > Gap

session_keys ==
    LET order == SortedBy(All, LAMBDA a, b : \/ pool.at[a] < pool.at[b]
                                             \/ pool.at[a] = pool.at[b] /\ a < b)
        scan(acc, i) ==
            LET group == IF acc.seen /\ LongGap(acc.previous, pool.at[i]) THEN acc.group + 1 ELSE acc.group
            IN  [keys |-> [acc.keys EXCEPT ![i] = group], group |-> group,
                 previous |-> pool.at[i], seen |-> TRUE]
    IN  FoldLeft(scan, [keys |-> [i \in All |-> 0], group |-> 0, previous |-> 0, seen |-> FALSE],
                 order).keys

(* surviving_sessions: for each cue the sessions of its best scores *)
Best(keys, scores, k) == Max({scores[i] : i \in {i \in All : keys[i] = k}})

TopSessions(keys, scores) ==
    LET ranked == SortedBy(Range(keys),
                      LAMBDA k, l : \/ Best(keys, scores, k) > Best(keys, scores, l)
                                    \/ Best(keys, scores, k) = Best(keys, scores, l) /\ k < l)
    IN  Range(Take(ranked, PruneTopN))

surviving_sessions(keys) ==
    IF Cardinality(Range(keys)) <= PruneTopN THEN Range(keys)
    ELSE TopSessions(keys, pool.lex) \cup TopSessions(keys, pool.den)

Gated == plan # "dump"

Prune ==
    /\ stage = "prune"
    /\ survived' = IF Gated THEN {i \in All : session_keys[i] \in surviving_sessions(session_keys)}
                   ELSE All
    /\ stage' = "rerank"
    /\ UNCHANGED <<pool, plan, coverage, batched, logit, second, rank, answer, recalled>>

-----------------------------------------------------------------------------
(* Reranking *)

draw_slate(budget) ==
    Take(SortedBy(survived,
             LAMBDA a, b :
                 \/ ZGreater(judge(a).z, judge(b).z)
                 \/ /\ ZEqual(judge(a).z, judge(b).z)
                    /\ \/ judge(a).margin > judge(b).margin
                       \/ judge(a).margin = judge(b).margin /\ a < b), budget)

(* score_slate: candidate by candidate, or by batches that fail as one *)
SameBatch(slate, i, j) == (i - 1) \div MaxBatch = (j - 1) \div MaxBatch
Scorings(slate) ==
    {f \in [DOMAIN slate -> Logits \cup {Fail}] :
        batched => \A i, j \in DOMAIN slate :
                       SameBatch(slate, i, j) => (f[i] = Fail <=> f[j] = Fail)}

Slate == draw_slate(IF plan = "cascade" THEN CascadeSlate ELSE RerankBudget)

WriteBack(slate, f) ==
    [i \in All |-> IF i \in Range(slate)
                   THEN f[CHOOSE k \in DOMAIN slate : slate[k] = i] ELSE Fail]

Rerank ==
    /\ stage = "rerank"
    /\ IF plan \in {"shipped", "cascade"}
       THEN \E f \in Scorings(Slate) : logit' = WriteBack(Slate, f)
       ELSE logit' = [i \in All |-> Fail]
    /\ stage' = IF plan = "cascade" THEN "fuse" ELSE "assemble"
    /\ UNCHANGED <<pool, plan, coverage, batched, survived, second, rank, answer, recalled>>

(* ... and the first graph's logit stands in where the partner failed *)
StandIn(i, score) == IF score = Fail THEN logit[i] ELSE score

Scored == {i \in All : logit[i] # Fail}
ByLogit(a, b) == logit[a] > logit[b] \/ (logit[a] = logit[b] /\ a < b)
Narrowed == Take(SortedBy(Scored, ByLogit), CascadeNarrow)

(* cascade_fusion_order: reciprocal ranks added, as one fraction *)
fusion(p, q) == [num |-> 2 * RrfK + p + q, den |-> (RrfK + p) * (RrfK + q)]
FusionAbove(x, y) == x.num * y.den > y.num * x.den

cascade_fusion_order(secondary) ==
    LET opinion == SortedBy(DOMAIN Narrowed,
                      LAMBDA a, b : \/ secondary[a] > secondary[b]
                                    \/ secondary[a] = secondary[b] /\ Narrowed[a] < Narrowed[b])
        worth(a) == fusion(a - 1, (CHOOSE k \in DOMAIN opinion : opinion[k] = a) - 1)
    IN  SortedBy(DOMAIN Narrowed,
            LAMBDA a, b : \/ FusionAbove(worth(a), worth(b))
                          \/ /\ ~FusionAbove(worth(b), worth(a))
                             /\ Narrowed[a] < Narrowed[b])

(* The fusion partner scores the narrowed ones *)
Fuse ==
    /\ stage = "fuse"
    /\ \E f \in Scorings(Narrowed) :
         LET order == cascade_fusion_order([k \in DOMAIN Narrowed |-> StandIn(Narrowed[k], f[k])])
         IN  /\ second' = [i \in Range(Narrowed) |-> WriteBack(Narrowed, f)[i]]
             /\ rank' = [i \in Range(Narrowed) |->
                           (CHOOSE k \in DOMAIN order : Narrowed[order[k]] = i) - 1]
    /\ stage' = "assemble"
    /\ UNCHANGED <<pool, plan, coverage, batched, survived, logit, answer, recalled>>

-----------------------------------------------------------------------------
(* The order, the decision and the budget *)

RankOf(i) == IF i \in DOMAIN rank THEN rank[i] ELSE pool.n
LogitOf(i) == logit[i]

(* Survivors, then the fused rank, then the logit, then what the slate was   *)
(* drawn by.  Having no rank or no logit is last.                            *)
RanksAbove(a, b) ==
    LET cues == \/ ZGreater(judge(a).z, judge(b).z)
                \/ /\ ZEqual(judge(a).z, judge(b).z)
                   /\ judge(a).margin > judge(b).margin \/ (judge(a).margin = judge(b).margin /\ a < b)
    IN  IF (a \in survived) # (b \in survived) THEN a \in survived
        ELSE IF RankOf(a) # RankOf(b) THEN RankOf(a) < RankOf(b)
        ELSE IF LogitOf(a) # LogitOf(b) THEN LogitOf(a) > LogitOf(b)
        ELSE cues

Order ==
    IF Gated THEN SortedBy(All, RanksAbove)
    ELSE SortedBy(All, LAMBDA a, b : pool.made[a] > pool.made[b]
                                     \/ (pool.made[a] = pool.made[b] /\ a < b))

(* mutant: the cut is on the first logit, not on its lead *)
decideAbsolute(order) ==
    IF order = <<>> THEN "no candidates"
    ELSE IF plan = "off" THEN "no reranker"
    ELSE IF Len(order) < 2 THEN "no runner-up"
    ELSE IF logit[order[1]] = Fail \/ logit[order[2]] = Fail THEN "margin undefined"
    ELSE IF coverage = "declared" /\ logit[order[1]] < Margin THEN "below threshold"
    ELSE "admit"

(* operating_point::decide: "admit", or why not *)
decide(order) ==
    IF order = <<>> THEN "no candidates"
    ELSE IF plan = "off" THEN "no reranker"
    ELSE IF Len(order) < 2 THEN "no runner-up"
    ELSE IF logit[order[1]] = Fail \/ logit[order[2]] = Fail THEN "margin undefined"
    ELSE IF coverage = "declared" /\ logit[order[1]] - logit[order[2]] < Margin THEN "below threshold"
    ELSE "admit"

Admitted(order) ==
    IF ~Gated THEN order
    ELSE IF decide(order) = "admit" THEN Take(order, AdmitTopK) ELSE <<>>

(* Whole memories while they fit; the first that does not ends it *)
Fill(admitted, cost) ==
    LET add(acc, i) ==
            IF acc.full \/ acc.tokens + cost[i] > MaxTokens THEN [acc EXCEPT !.full = TRUE]
            ELSE [acc EXCEPT !.tokens = @ + cost[i], !.injected = Append(@, i)]
    IN  FoldLeft(add, [injected |-> <<>>, tokens |-> 0, full |-> FALSE], admitted)

(* The adapter's response: nothing injected is an abstention with a reason *)
above_threshold == {i \in All : Gated => judge(i).p >= PassAt}
(* mutant: the operating point's verdict is not looked at *)
ReasonByGate(filled, verdict) ==
    IF filled.injected # <<>> THEN NoReason
    ELSE IF All # {} /\ above_threshold = {} THEN "NoCandidateAboveThreshold"
    ELSE "NoCandidates"

AbstentionReason(filled, verdict) ==
    IF filled.injected # <<>> THEN NoReason
    ELSE IF Gated /\ verdict = "no candidates" THEN "NoCandidates"
    ELSE IF Gated /\ verdict # "admit" THEN "NoCandidateAboveThreshold"
    ELSE IF filled.full THEN "BudgetExhausted"
    ELSE IF All # {} /\ above_threshold = {} THEN "NoCandidateAboveThreshold"
    ELSE "NoCandidates"

(* DaemonMemory::retrieve: the block is worth its least trusted memory *)
Floor(injected) == Min({pool.eff[i] : i \in Range(injected)} \cup {UserAsserted})

Assemble ==
    /\ stage = "assemble"
    /\ \E order \in {Order} :
       LET verdict == decide(order)
           filled == Fill(Admitted(order), pool.cost)
       IN  answer' = [order |-> order, injected |-> filled.injected, tokens |-> filled.tokens,
                      full |-> filled.full,
                      abstention |-> IF Gated /\ verdict # "admit" THEN verdict ELSE NoReason,
                      reason |-> AbstentionReason(filled, verdict),
                      floor |-> Floor(filled.injected)]
    /\ stage' = "done"
    /\ UNCHANGED <<pool, plan, coverage, batched, survived, logit, second, rank, recalled>>

-----------------------------------------------------------------------------
(* RecallTools::recall: every belief that shares a word with the query, the  *)
(* ones injection passes over included                                       *)

Recall ==
    /\ stage = "prune"
    /\ LET found == Take(SortedBy({i \in 1..pool.n : pool.lex[i] > 0},
                             LAMBDA a, b : pool.lex[a] > pool.lex[b]
                                           \/ (pool.lex[a] = pool.lex[b] /\ a < b)), RecallLimit)
       IN  recalled' = [found |-> found,
                        floor |-> IF found = <<>> THEN AgentObserved ELSE Floor(found)]
    /\ stage' = "recalled"
    /\ UNCHANGED <<pool, plan, coverage, batched, survived, logit, second, rank, answer>>

-----------------------------------------------------------------------------

RetrievalNext == Prune \/ Rerank \/ Fuse \/ Assemble \/ Recall

-----------------------------------------------------------------------------

(* The scan of `session_keys` groups exactly what a chain of short gaps      *)
(* connects: two candidates share a session unless some gap longer than the  *)
(* limit lies between them, whatever the order of ids.                       *)
SessionsWhole ==
    \A i, j \in All :
        pool.at[i] <= pool.at[j] =>
            (session_keys[i] = session_keys[j] <=>
               \A k \in All : pool.at[i] <= pool.at[k] /\ pool.at[k] < pool.at[j] =>
                   \E m \in All : pool.at[m] - pool.at[k] \in 1..Gap)

(* Pruning never loses either cue's best: a candidate nobody outscores on a  *)
(* cue survives, or one that equals it does (`surviving_sessions` keeps the  *)
(* union of the cues' top sessions by their maximum).                        *)
BestSurvives ==
    stage \notin {"prune", "recalled"} =>
        \A scores \in {pool.lex, pool.den} : \A i \in All :
            (\A j \in All : scores[j] <= scores[i]) =>
                \E j \in survived : scores[j] = scores[i]

(* A reranked survivor is never passed by a candidate that got no logit, so  *)
(* the two logits the declared point compares are the two best there are:    *)
(* on the shipped plan an injection leads every scored rival by the margin.  *)
ConfidentLead ==
    stage = "done" /\ plan = "shipped" /\ coverage = "declared" /\ answer.injected # <<>> =>
        \A i \in Scored \ {answer.injected[1]} :
            logit[answer.injected[1]] - logit[i] >= Margin

(* The margin is undefined only when fewer than two candidates got a logit:  *)
(* a failed pair costs its own place and nobody else's (`order`, `decide`).  *)
UndefinedOnlyUnscored ==
    stage = "done" /\ answer.abstention = "margin undefined" => Cardinality(Scored) < 2

(* The fusion keeps what both graphs agree on: of two narrowed candidates    *)
(* the one the first graph prefers stays ahead when the second prefers it    *)
(* too, and when the second could score neither (`cascade_fusion_order`).    *)
AgreementKept ==
    \A i, j \in DOMAIN rank :
        /\ ByLogit(i, j)
        /\ \/ second[i] = Fail /\ second[j] = Fail
           \/ /\ second[i] # Fail /\ second[j] # Fail
              /\ second[i] > second[j] \/ (second[i] = second[j] /\ i < j)
        => rank[i] < rank[j]

(* Whatever gate a build loads, nobody is called surer than the gate says it *)
(* ever is, a wider margin never reads as less sure, and a fusion that       *)
(* failed its floor lets nobody pass (`from_artifact`'s interlock looks at   *)
(* the curves' ends only; `judge` reads them anywhere).                      *)
GateIsSound ==
    stage = "prune" =>
        \A g \in {g \in Artifacts : from_artifact(g)} :
            /\ \A i \in All : judgeBy(g.curves, i).p <= max_calibrated_precision(g)
            /\ g.floor = "fail" => \A i \in All : judgeBy(g.curves, i).p < PassAt
            /\ \A c \in DOMAIN g.curves : \A i, j \in All :
                  CueMargin(CueOf(c), i) <= CueMargin(CueOf(c), j) =>
                      Reading(g.curves, c, i).p <= Reading(g.curves, c, j).p

(* The order is earned: pruning drops whole sessions and neither cue's best, *)
(* a lead is a lead over every scored rival, a failed pair costs its own     *)
(* place only, where the two graphs agree the fusion does too, and the gate  *)
(* that ranks is sound.                                                      *)
OrderIsEarned ==
    SessionsWhole /\ BestSurvives /\ ConfidentLead /\ UndefinedOnlyUnscored /\ AgreementKept /\ GateIsSound

(* The injected memories fit the budget and each of them fits whole; what    *)
(* was left out did not fit (`budget_exhausted`).                            *)
WithinBudget ==
    stage = "done" =>
        /\ answer.tokens = Sum(Restrict(pool.cost, Range(answer.injected)))
        /\ answer.tokens <= MaxTokens
        /\ answer.full =>
             pool.cost[answer.order[Len(answer.injected) + 1]] + answer.tokens > MaxTokens

(* An empty injection has a reason and a full one has none, and a reason     *)
(* that blames the store is given only when the store had nothing to offer   *)
(* (CONTRACTS 4.2's exclusivity, `check_exclusivity`).                       *)
EmptyExplained ==
    stage = "done" =>
        /\ answer.reason = NoReason <=> answer.injected # <<>>
        /\ answer.reason = "NoCandidates" <=> All = {}
        /\ answer.reason = "BudgetExhausted" => answer.full /\ answer.abstention = NoReason

(* Neither the injected block nor the recall result claims more trust than   *)
(* the least trusted memory in it.                                           *)
FloorIsLeast ==
    /\ stage = "done" => \A i \in Range(answer.injected) : answer.floor <= pool.eff[i]
    /\ \A i \in Range(recalled.found) : recalled.floor <= pool.eff[i]

(* The answer accounts for itself: it fits the budget, says why it is empty, *)
(* and is worth no more than its least trusted memory.                       *)
AnswerAccounts == WithinBudget /\ EmptyExplained /\ FloorIsLeast
=============================================================================
