--------------------------- MODULE RetrievalRanking ---------------------------
(***************************************************************************)
(* The ranking of a retrieval: the fusion of the two routes of a           *)
(* collection, the merge of several bases, their weighting, deduplication  *)
(* and diversity, and the decisions around a search: the plan of           *)
(* sub-queries, the rewrite, the recommended weights.                      *)
(*                                                                         *)
(* Each is a function of its input; a step takes one input and keeps it    *)
(* with the result, and the invariants relate the two.  Results are        *)
(* sequences of distinct chunks beside a function of their scores, which   *)
(* are integers: RkScale is a multiple of what reciprocal ranks divide by, *)
(* weights and rates are in per cent.                                      *)
(***************************************************************************)
EXTENDS Integers, Sequences, FiniteSets

CONSTANTS
  RkChunks,      \* chunk ids: numbers, in the order of an index
  RkBaseOf,      \* the base of a chunk, a number
  RkWeights,     \* weights of the two routes: pairs <<vector, bm25>>
  RkScale,       \* what a reciprocal rank of one is in scores
  RkScores,      \* scores of fused results
  RkHealth,      \* health scores of a base; NoHealth when there is none
  RkTops,        \* how many results a caller asks for (top_k, at least one)
  RkRates        \* rates of hits and of adoption

RrfK     == 60
NoHealth == 1000
ASSUME RankingAssumption ==
  /\ IsFiniteSet(RkChunks) /\ RkChunks \subseteq Nat /\ RkBaseOf \in [RkChunks -> Nat]
  /\ RkWeights \subseteq Nat \X Nat /\ RkScores \subseteq Nat \ {0}
  /\ RkHealth \subseteq (0..100) \cup {NoHealth}
  /\ RkTops \subseteq Nat \ {0} /\ RkRates \subseteq Nat
  /\ RkScale \in Nat /\ \A n \in {20} \cup {RrfK + i : i \in 1..Cardinality(RkChunks)} : RkScale % n = 0

VARIABLES rkCase, rkOut
rankingVars == <<rkCase, rkOut>>

\* Sequences of distinct chunks: what a route returns.
Orders == UNION {{s \in [1..n -> RkChunks] : \A i, j \in 1..n : i # j => s[i] # s[j]} : n \in 0..Cardinality(RkChunks)}
Pos(s, c)  == CHOOSE i \in DOMAIN s : s[i] = c
In(s, c)   == \E i \in DOMAIN s : s[i] = c
Shown(s)   == {s[i] : i \in DOMAIN s}
Least(m, n) == IF m < n THEN m ELSE n
Cut(s, k)  == [i \in 1..Least(Len(s), k) |-> s[i]]

\* The elements of S in order; after[a]: those that come after a.
Listed(S, after) ==
  CHOOSE s \in [1..Cardinality(S) -> S] : \A i, j \in 1..Cardinality(S) : i < j => s[j] \in after[s[i]]

\* Python's sort by a score, highest first, which keeps the order of equals.
Lower(s, score) ==
  [a \in Shown(s) |-> {b \in Shown(s) : \/ score[a] > score[b]
                                        \/ score[a] = score[b] /\ Pos(s, a) < Pos(s, b)}]
Sorted(s, score) == Listed(Shown(s), Lower(s, score))

-----------------------------------------------------------------------------
(***************************************************************************)
(* One collection: HybridSearcher.search.                                  *)
(***************************************************************************)
Boost == RkScale \div 20     \* tag_boost_weight = 0.05

\* mutant: a chunk that a route did not find counts as its first
RrfAbsentFirst(route, w, c) == (w * RkScale) \div (RrfK + (IF In(route, c) THEN Pos(route, c) ELSE 1))
Rrf(route, w, c) == IF In(route, c) THEN (w * RkScale) \div (RrfK + Pos(route, c)) ELSE 0

\* tagged: chunks with one tag among those nearest to the query.
Fused(dense, bm25, w, tagged, c) ==
  Rrf(dense, w[1], c) + Rrf(bm25, w[2], c) + (IF c \in tagged THEN Boost ELSE 0)

\* The rows of the dense route come first, then those only the other one has.
Entered(dense, bm25, a, b) ==
  IF In(dense, a) THEN In(dense, b) => Pos(dense, a) < Pos(dense, b)
                  ELSE ~In(dense, b) /\ Pos(bm25, a) < Pos(bm25, b)
Hits(dense, bm25) ==
  LET rows == Shown(dense) \cup Shown(bm25)
  IN  Listed(rows, [a \in rows |-> {b \in rows : Entered(dense, bm25, a, b)}])
Ranked(dense, bm25, w, tagged, k) ==
  Cut(Sorted(Hits(dense, bm25), [c \in RkChunks |-> Fused(dense, bm25, w, tagged, c)]), k)

RankCase ==
  \E dense, bm25 \in Orders, w \in RkWeights, tagged \in SUBSET RkChunks, k \in RkTops :
    /\ rkCase' = [kind |-> "rank", dense |-> dense, bm25 |-> bm25, w |-> w, tagged |-> tagged, k |-> k]
    /\ rkOut'  = Ranked(dense, bm25, w, tagged, k)

-----------------------------------------------------------------------------
(***************************************************************************)
(* Several bases: multi_kb_search, _apply_fusion, fuse_results.            *)
(***************************************************************************)

\* The answers of the bases one after the other; a base whose search raised is left out.
Gathered(failed) ==
  LET all == {c \in RkChunks : RkBaseOf[c] \notin failed}
  IN  Listed(all, [a \in all |-> {b \in all : RkBaseOf[a] < RkBaseOf[b] \/ (RkBaseOf[a] = RkBaseOf[b] /\ a < b)}])
Merged(score, failed, k) == Cut(Sorted(Gathered(failed), score), k)

\* health_to_weight, in per cent, and the scores weighted by it.
HealthWeight(h) ==
  IF h = NoHealth THEN 100 ELSE IF 50 + h > 150 THEN 150 ELSE IF 50 + h < 50 THEN 50 ELSE 50 + h
Weight(score, health) == [c \in RkChunks |-> score[c] * HealthWeight(health[RkBaseOf[c]])]

\* Of two redundant chunks the first stays: kept is who is redundant with none kept before it.
FirstOnes(s, pairs) ==
  CHOOSE K \in SUBSET Shown(s) :
    \A c \in Shown(s) : c \in K <=> \A d \in K : Pos(s, d) < Pos(s, c) => {c, d} \notin pairs
Deduped(s, pairs) ==
  LET K == FirstOnes(s, pairs) IN Listed(K, [a \in K |-> {b \in K : Pos(s, a) < Pos(s, b)}])

\* Maximal marginal relevance, lambda = 0.7, times 10 * the best score; similar: pairs
\* of chunks with the same words, other pairs share none.
Mmr(picked, c, score, best, similar) ==
  7 * score[c] - (IF \E d \in picked : {c, d} \in similar THEN 3 * best ELSE 0)

\* Of the candidates, in the order of their scores, the first of the greatest relevance.
PickNext(s, picked, score, best, similar) ==
  LET rest      == Shown(s) \ picked
      relevance == [c \in rest |-> Mmr(picked, c, score, best, similar)]
  IN  Listed(rest, [c \in rest |-> {d \in rest : \/ relevance[c] > relevance[d]
                                                 \/ relevance[c] = relevance[d] /\ Pos(s, c) < Pos(s, d)}])[1]
Before(p, i) == {p[j] : j \in 1..(i - 1)}
InTurn(p, s, score, best, similar) ==
  \A i \in DOMAIN p : p[i] = PickNext(s, Before(p, i), score, best, similar)
Diverse(s, score, k, similar) ==
  LET sorted == Sorted(s, score)
  IN  CHOOSE p \in [1..Least(Len(s), k) -> Shown(s)] : InTurn(p, sorted, score, score[sorted[1]], similar)

\* fuse_results; score: the weighted one
Fusion(s, score, pairs, similar, k) == Diverse(Deduped(Sorted(s, score), pairs), score, k, similar)

PairsOf == {{a, b} : a, b \in RkChunks} \ {{a} : a \in RkChunks}
Bases   == {RkBaseOf[c] : c \in RkChunks}

\* A search fuses as many as it fetched; the answer to a plan fuses what its sub-queries
\* fetched, and has neither weights nor pairs.
FuseCase ==
  \E score \in [RkChunks -> RkScores], failed \in SUBSET Bases, health \in [Bases -> RkHealth],
     pairs, similar \in SUBSET PairsOf, fetch, k \in RkTops :
    LET found == Merged(score, failed, fetch) IN
    /\ fetch = k \/ (pairs = {} /\ \A b \in Bases : health[b] = NoHealth)
    /\ rkCase' = [kind |-> "fuse", found |-> found, score |-> Weight(score, health), pairs |-> pairs, k |-> k]
    /\ rkOut'  = Fusion(found, Weight(score, health), pairs, similar, k)

-----------------------------------------------------------------------------
(***************************************************************************)
(* Decisions.  A reply of a model is what its JSON holds.                  *)
(***************************************************************************)

\* agentic_planner.plan: short or simple queries are never planned; only a reply with
\* two sub-queries or more decomposes, and at most four are kept.
MaxSubqueries == 4
Plan(query, reply) ==
  IF query.empty THEN [strategy |-> "single", subqueries |-> 0]
  ELSE IF query.short \/ ~query.compound \/ reply.kind # "decompose" \/ reply.subs < 2
    THEN [strategy |-> "single", subqueries |-> 1]
    ELSE [strategy |-> "decompose", subqueries |-> IF reply.subs > MaxSubqueries THEN MaxSubqueries ELSE reply.subs]

\* rewrite_query_v2: which query is searched.
Rewritten(query, history, reply) ==
  IF query.empty \/ ~history \/ (~query.hint /\ query.long) THEN "original"
  ELSE IF reply.kind = "rewrite" /\ reply.text # "" THEN reply.text ELSE "original"

Queries == {q \in [empty : BOOLEAN, short : BOOLEAN, long : BOOLEAN, compound : BOOLEAN, hint : BOOLEAN] :
              ~(q.short /\ q.long) /\ (q.empty => q.short /\ ~q.compound /\ ~q.hint)}
Replies == [kind : {"error", "garbled", "single"}, subs : {0}, text : {""}]
             \cup [kind : {"decompose"}, subs : 0..6, text : {""}]
             \cup [kind : {"rewrite"}, subs : {0}, text : {"", "rewritten"}]
PlanCase ==
  \E query \in Queries, history \in BOOLEAN, reply \in Replies :
    /\ rkCase' = [kind |-> "plan", query |-> query, history |-> history, reply |-> reply]
    /\ rkOut'  = <<Plan(query, reply), Rewritten(query, history, reply)>>

\* derive_recommendation, rates in per cent; base: the rule-based strategy of the type.
Strategies == {<<70, 5, TRUE>>, <<30, 6, TRUE>>, <<50, 5, TRUE>>, <<40, 4, FALSE>>, <<70, 5, FALSE>>}
MinSamples == 10
Nearest(x, d) == (2 * x + d) \div (2 * d)
Bounded(lo, x, hi) == IF x < lo THEN lo ELSE IF x > hi THEN hi ELSE x
Tuned(base, sample, hit, adopted) ==
  LET bm25 == Bounded(10, base[1] - Nearest(adopted - 40, 5), 90)
      more == IF base[2] + 3 > 12 THEN 12 ELSE base[2] + 3
  IN  IF sample < MinSamples THEN <<base[1], 100 - base[1], base[2], base[3]>>
      ELSE IF hit < 50      THEN <<base[1], 100 - base[1], more, TRUE>>
      ELSE IF adopted > 60  THEN <<base[1], 100 - base[1], base[2], base[3]>>
      ELSE <<bm25, 100 - bm25, base[2], base[3]>>

TuneCase ==
  \E base \in Strategies, sample \in {0, MinSamples - 1, MinSamples}, hit \in RkRates \cap 0..100, adopted \in RkRates :
    /\ rkCase' = [kind |-> "tune", base |-> base, sample |-> sample]
    /\ rkOut'  = Tuned(base, sample, hit, adopted)

RankingInit == rkCase = [kind |-> "none"] /\ rkOut = <<>>
RankingNext == rkCase.kind = "none" /\ (RankCase \/ FuseCase \/ PlanCase \/ TuneCase)
RankingSpec == RankingInit /\ [][RankingNext]_rankingVars

-----------------------------------------------------------------------------
\* A collection never ranks a chunk behind one that it beats: one that no route puts
\* before it and no tag favours, and what the cut drops is beaten by nothing it keeps.
Beats(q, a, b) ==
  LET ahead(route) == In(route, a) /\ (In(route, b) => Pos(route, a) < Pos(route, b))
      neither(route) == ~In(route, a) /\ ~In(route, b)
  IN  /\ \A route \in {q.dense, q.bm25} : ahead(route) \/ neither(route)
      /\ b \in q.tagged => a \in q.tagged
RankingSound ==
  rkCase.kind = "rank" =>
    /\ Len(rkOut) = Least(Len(Hits(rkCase.dense, rkCase.bm25)), rkCase.k)
    /\ \A a, b \in RkChunks : Beats(rkCase, a, b) /\ In(rkOut, b)
         => In(rkOut, a) /\ Pos(rkOut, a) < Pos(rkOut, b)

\* c is in an answer, or a result that scores no less is there in its place.
Represented(c, out, pairs, score) ==
  In(out, c) \/ \E r \in Shown(out) : {r, c} \in pairs /\ score[r] >= score[c]

\* A fused answer has no redundant pair; what is missing from an answer that is not full
\* is redundant with a result of the answer that scores no less; the best result leads.
WellFused(q, out) ==
  LET found == Sorted(q.found, q.score)
  IN  /\ \A r, t \in Shown(out) : {r, t} \notin q.pairs
      /\ \A i, j \in DOMAIN out : i # j => out[i] # out[j]
      /\ Len(out) <= q.k
      /\ found # <<>> => out # <<>> /\ out[1] = found[1]
      /\ Len(out) < q.k => \A c \in Shown(found) : Represented(c, out, q.pairs, q.score)
FusionSound == rkCase.kind = "fuse" => WellFused(rkCase, rkOut)

\* A plan always leaves something to search for, unless the query was empty, and a
\* recommendation stays within a tenth of the rule-based weights, which sum to one.
DecisionsSound ==
  /\ rkCase.kind = "plan" =>
       /\ rkOut[1].subqueries \in 0..MaxSubqueries /\ (rkOut[1].subqueries = 0 <=> rkCase.query.empty)
       /\ rkOut[1].strategy = "decompose" <=> rkOut[1].subqueries > 1
       /\ rkOut[2] # ""
  /\ rkCase.kind = "tune" => rkOut[1] + rkOut[2] = 100 /\ rkOut[1] \in (rkCase.base[1] - 10)..(rkCase.base[1] + 10)

\* Ranks, fused answers and decisions together.
RetrievalSound == RankingSound /\ FusionSound /\ DecisionsSound
=============================================================================
