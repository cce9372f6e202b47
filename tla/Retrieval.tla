------------------------------ MODULE Retrieval ------------------------------
(***************************************************************************)
(* How a query's chunks are found and scored: the exact vector index        *)
(* (index/memory.py), BM25, the fusion of the two, reranking (retrieval/),   *)
(* and the metrics of one ranking (evaluation/metrics.py). A chunk is its    *)
(* id, a number; what the embedder, BM25 and the cross-encoder make of a     *)
(* query and a chunk is a number each. Fractions are compared over a common  *)
(* denominator, and metrics without the divisor they share: k, or the number *)
(* of relevant chunks.                                                       *)
(***************************************************************************)
EXTENDS Integers, FiniteSets, SequencesExt

CONSTANTS
    Chunks,     \* what the index holds: ids are compared, as strings are
    TopK,       \* top_k
    RRFK,       \* rrf_k
    Discounts,  \* 1 / log2(rank + 1) for rank 1, 2, ..., in thousandths
    Retrievers  \* what a retriever_factory may build

ASSUME RetrievalAssumption ==
    /\ Chunks \subseteq Nat /\ IsFiniteSet(Chunks)
    /\ TopK \in 1..Cardinality(Chunks) /\ RRFK \in Nat
ASSUME DiscountsAssumption ==
    /\ Discounts \in Seq(Nat \ {0}) /\ Len(Discounts) >= TopK
    /\ \A i \in 1..(Len(Discounts) - 1) : Discounts[i + 1] < Discounts[i]

\* A retrieve call: the scores each stage gives the chunks, and the locals it fills.
VARIABLES call, retrieved

Rank(c, ranking) == CHOOSE i \in DOMAIN ranking : ranking[i] = c
In(c, ranking) == c \in Range(ranking)
Cut(ranking, k) == SubSeq(ranking, 1, Min({k, Len(ranking)}))

\* Up to c in the order of a sort: best first by a score, the lower id first of two equals
UpTo(c, candidates, score) ==
    {b \in candidates : score[b] > score[c] \/ (score[b] = score[c] /\ b <= c)}

Ordered(candidates, score) ==
    [i \in 1..Cardinality(candidates) |->
        CHOOSE c \in candidates : Cardinality(UpTo(c, candidates, score)) = i]

\* The sum of the first n of some numbers
SumTo(s, n) ==
    LET sum[i \in 0..n] == IF i = 0 THEN 0 ELSE sum[i - 1] + s[i] IN sum[n]

\* The product of k + 1, ..., k + n without k + skip: 1 / (k + skip), times all of them
Others(k, n, skip) ==
    LET product[i \in 0..n] ==
            IF i = 0 THEN 1 ELSE product[i - 1] * IF i = skip THEN 1 ELSE k + i
    IN product[n]

-----------------------------------------------------------------------------
(* argpartition, then a stable sort of what it left: ties in any order *)
Search(score, k) ==
    {r \in [1..Min({k, Cardinality(Chunks)}) -> Chunks] :
        /\ IsInjective(r)
        /\ \A i, j \in DOMAIN r : i < j => score[r[i]] >= score[r[j]]
        /\ \A c \in Chunks : \A i \in DOMAIN r : In(c, r) \/ score[c] <= score[r[i]]}

\* BM25Retriever.retrieve: what shares no term with the query comes last, and is left out
Lexical(score, k) ==
    {Cut(r, Cardinality({i \in DOMAIN r : score[r[i]] > 0})) : r \in Search(score, k)}

\* 1 / (k + rank)
Share(rank) == Others(RRFK, Cardinality(Chunks), rank)

\* A slip: the chunk keeps what the first arm gave it.
FirstArmRRF(rankings) ==
    LET found == UNION {Range(rankings[i]) : i \in DOMAIN rankings}
        first(c) == Min({i \in DOMAIN rankings : In(c, rankings[i])})
    IN Ordered(found, [c \in found |-> Share(Rank(c, rankings[first(c)]))])

ReciprocalRankFusion(rankings) ==
    LET found == UNION {Range(rankings[i]) : i \in DOMAIN rankings}
        share(c, r) == IF In(c, r) THEN Share(Rank(c, r)) ELSE 0
        total(c) == SumTo([i \in DOMAIN rankings |-> share(c, rankings[i])], Len(rankings))
    IN Ordered(found, [c \in found |-> total(c)])

\* _min_max: how far each chunk is above the lowest of a ranking, of the span of its scores;
\* 1 of 1 where all are tied, and 0 for a chunk that is not in the ranking
MinMax(ranking, score) ==
    LET scores == {score[c] : c \in Range(ranking)}
        tied == \A s, t \in scores : s = t
    IN [span |-> IF tied THEN 1 ELSE Max(scores) - Min(scores),
        above |-> [c \in Chunks |-> IF ~In(c, ranking) THEN 0
                                    ELSE IF tied THEN 1 ELSE score[c] - Min(scores)]]

\* alpha in hundredths
WeightedFusion(alpha, arms, dense, lexical) ==
    LET d == MinMax(arms.dense, dense)
        l == MinMax(arms.lexical, lexical)
    IN Ordered(Range(arms.dense) \cup Range(arms.lexical),
               [c \in Chunks |-> alpha * d.above[c] * l.span
                                    + (100 - alpha) * l.above[c] * d.span])

-----------------------------------------------------------------------------
(* DenseRetriever, HybridRetriever and RerankingRetriever.retrieve *)
First(r) == IF r.name = "reranked" THEN r.base ELSE r
FirstK(r) == IF r.name = "reranked" THEN Max({r.candidates, TopK}) ELSE TopK
Depth(r) == IF First(r).name = "hybrid" THEN FirstK(r) * First(r).multiplier ELSE FirstK(r)

\* Each arm of the first stage is run to its depth.
RunArms ==
    \E d \in Search(call.dense, Depth(call.retriever)) :
    \E l \in IF First(call.retriever).name = "hybrid"
             THEN Lexical(call.lexical, Depth(call.retriever)) ELSE {<<>>} :
        /\ call' = [call EXCEPT !.arms = [dense |-> d, lexical |-> l]]
        /\ UNCHANGED retrieved

Fused ==
    LET r == First(call.retriever)
    IN CASE r.name = "dense" -> call.arms.dense
         [] r.name = "hybrid" /\ r.method = "rrf" ->
               ReciprocalRankFusion(<<call.arms.dense, call.arms.lexical>>)
         [] r.name = "hybrid" /\ r.method = "weighted" ->
               WeightedFusion(r.alpha, call.arms, call.dense, call.lexical)

Fuse ==
    /\ call' = [call EXCEPT !.fused = Fused]
    /\ UNCHANGED retrieved

\* The first stage is cut to what was asked of it, rescored if there is a reranker.
Return ==
    LET r == call.retriever
        first == Cut(call.fused, FirstK(r))
    IN retrieved' = Cut(IF r.name = "reranked" THEN Ordered(Range(first), call.cross) ELSE first,
                        TopK)

(***************************************************************************)
(* The arms' agreement survives their fusion: a chunk that one arm puts     *)
(* before another, and the other does not put behind, comes first, though    *)
(* their scores cannot be compared and each arm sees only to its depth. By   *)
(* weights, when both put it first and both count: the last of an arm and    *)
(* what the arm did not find are alike there.                                *)
(***************************************************************************)
Beats(x, y, ranking) == In(x, ranking) /\ (In(y, ranking) => Rank(x, ranking) < Rank(y, ranking))
Outscores(x, y, ranking, score) ==
    In(x, ranking) /\ (In(y, ranking) => score[x] > score[y])

FusionAgrees ==
    call.fused # <<>> =>
    LET r == First(call.retriever)
        d == call.arms.dense
        l == call.arms.lexical
    IN r.name = "hybrid" =>
        \A x, y \in Range(call.fused) :
            (IF r.method = "rrf"
             THEN \/ Beats(x, y, d) /\ ~Beats(y, x, l)
                  \/ Beats(x, y, l) /\ ~Beats(y, x, d)
             ELSE /\ r.alpha \in 1..99
                  /\ Outscores(x, y, d, call.dense) /\ Outscores(x, y, l, call.lexical))
            => Beats(x, y, call.fused)

-----------------------------------------------------------------------------
(* evaluation/metrics.py: grade gives each judged chunk its grade *)
Relevant(grade) == {c \in Chunks : grade[c] > 0}

\* 2^g - 1
Gain[g \in Nat] == IF g = 0 THEN 0 ELSE 2 * Gain[g - 1] + 1

PrecisionHits(ranking, grade, k) ==
    Cardinality({i \in 1..Min({k, Len(ranking)}) : ranking[i] \in Relevant(grade)})

\* 1 / rank of the first relevant chunk: the rank, 0 for none
FirstHit(ranking, grade, k) ==
    LET hits == {i \in 1..Min({k, Len(ranking)}) : ranking[i] \in Relevant(grade)}
    IN IF hits = {} THEN 0 ELSE Min(hits)

DCG(grades) ==
    SumTo([i \in DOMAIN grades |-> Gain[grades[i]] * Discounts[i]], Len(grades))

\* A slip: the ideal is that of what was retrieved.
IdealRetrieved(ranking, grade, k) ==
    LET best == Ordered({c \in Range(Cut(ranking, k)) : grade[c] > 0}, grade)
    IN [i \in DOMAIN best |-> grade[best[i]]]

\* The grades of the k best of all judged chunks
Ideal(ranking, grade, k) ==
    LET best == Ordered(Relevant(grade), grade)
    IN [i \in DOMAIN Cut(best, k) |-> grade[best[i]]]

\* ndcg_at_k, as a fraction
NDCG(ranking, grade, k) ==
    LET top == Cut(ranking, k)
    IN <<DCG([i \in DOMAIN top |-> grade[top[i]]]), DCG(Ideal(ranking, grade, k))>>

\* average_precision, times the relevant chunks: at each of them, hits of i seen
AveragePrecision(ranking, grade, k) ==
    SumTo([i \in DOMAIN ranking |->
              IF ranking[i] \in Relevant(grade)
              THEN PrecisionHits(ranking, grade, i) * Others(0, TopK, i) ELSE 0],
          Min({k, Len(ranking)}))

\* No metric is lower for ranking a than for ranking b.
NotWorse(a, b, grade, k) ==
    LET x == NDCG(a, grade, k)
        y == NDCG(b, grade, k)
    IN /\ PrecisionHits(a, grade, k) >= PrecisionHits(b, grade, k)
       /\ FirstHit(b, grade, k) # 0 => FirstHit(a, grade, k) \in 1..FirstHit(b, grade, k)
       /\ AveragePrecision(a, grade, k) >= AveragePrecision(b, grade, k)
       /\ x[1] * y[2] >= y[1] * x[2]

Promoted(ranking, i) == [ranking EXCEPT ![i] = ranking[i + 1], ![i + 1] = ranking[i]]

\* Every chunk that is better than what is at place i was placed before it.
BestAt(i, ranking, grade) ==
    \A c \in Relevant(grade) :
        (i \in DOMAIN ranking => grade[c] > grade[ranking[i]])
            => \E j \in DOMAIN ranking : j < i /\ ranking[j] = c

(***************************************************************************)
(* What each query is scored by orders the conditions as a reader would:    *)
(* no metric at any cutoff falls when a more relevant chunk moves up a        *)
(* place, nDCG is 1 just for an order without a better one at its cutoff,    *)
(* however few chunks are relevant, and no average is above 1.               *)
(***************************************************************************)
MetricsSoundFor(ranking, grade) ==
    \A k \in 1..TopK :
        /\ \A i \in 1..(Len(ranking) - 1) :
              grade[ranking[i + 1]] > grade[ranking[i]] =>
                  NotWorse(Promoted(ranking, i), ranking, grade, k)
        /\ LET x == NDCG(ranking, grade, k)
           IN /\ x[1] <= x[2]
              /\ x[1] = x[2] <=> \A i \in 1..k : BestAt(i, ranking, grade)
        /\ AveragePrecision(ranking, grade, k)
              <= Cardinality(Relevant(grade)) * Others(0, TopK, 0)
=============================================================================
