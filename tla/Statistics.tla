------------------------------ MODULE Statistics ------------------------------
(***************************************************************************)
(* The comparison of the conditions of an experiment (evaluation/stats.py,  *)
(* compare_runs of evaluation/harness.py). A run is a function from the      *)
(* queries scored under a condition to a score on one metric; a p-value is   *)
(* in hundredths. Scores are 0 or 1: the differences are then all of one     *)
(* size, and the signed-rank p-value (exact or not, as ties and zeros have   *)
(* it) is one of the numbers of queries, of wins and of losses.              *)
(***************************************************************************)
EXTENDS Integers, FiniteSets, SequencesExt

CONSTANT PValue(_, _, _)  \* scipy's p-value of so many queries, wins and losses, not both none

\* The pairs of a key and a position up to x in the order of a stable sort, x with them
UpTo(S, x) == {y \in S : y[1] < x[1] \/ (y[1] = x[1] /\ y[2] <= x[2])}

\* A slip: the adjusted values are not made monotone.
HolmStepOnly(p) ==
    LET m == Len(p)
        order == {<<p[i], i>> : i \in 1..m}
        step(x) == (m - Cardinality(UpTo(order, x)) + 1) * x[1]
    IN [i \in 1..m |-> Min({100, step(<<p[i], i>>)})]

\* In the order of the p-values, the running maximum of (m - i) * p
HolmBonferroni(p) ==
    LET m == Len(p)
        order == {<<p[i], i>> : i \in 1..m}
        step(x) == (m - Cardinality(UpTo(order, x)) + 1) * x[1]
    IN [i \in 1..m |-> Min({100, Max({step(x) : x \in UpTo(order, <<p[i], i>>)})})]

\* cliffs_delta by midranks, over n * m: ranks are doubled
CliffsDelta(a, b) ==
    LET all == a \o b
        rank(x) == 2 * Cardinality({i \in DOMAIN all : all[i] < x})
                     + Cardinality({i \in DOMAIN all : all[i] = x}) + 1
        sum[k \in 0..Len(a)] == IF k = 0 THEN 0 ELSE sum[k - 1] + rank(a[k])
    IN (sum[Len(a)] - Len(a) * (Len(a) + 1)) - Len(a) * Len(b)

\* compare_paired of two score vectors; its means over n
ComparePaired(x, y, name_a, name_b) ==
    LET wins == Cardinality({i \in DOMAIN x : x[i] > y[i]})
        losses == Cardinality({i \in DOMAIN x : x[i] < y[i]})
    IN [a |-> name_a, b |-> name_b, n |-> Len(x), diff |-> wins - losses,
        p |-> IF wins + losses = 0 THEN 100 ELSE PValue(Len(x), wins, losses), adjusted |-> 0,
        effect |-> CliffsDelta(x, y)]

ApplyCorrection(comparisons) ==
    LET adjusted == HolmBonferroni([i \in DOMAIN comparisons |-> comparisons[i].p])
    IN [i \in DOMAIN comparisons |-> [comparisons[i] EXCEPT !.adjusted = adjusted[i]]]

\* The pairs of a list of names: all of them, or each with the baseline
Pairs(names, baseline) ==
    LET n == Len(names)
        of(i) == IF baseline = 0 THEN [j \in 1..(n - i) |-> <<names[i], names[i + j]>>]
                 ELSE IF names[i] = baseline THEN <<>> ELSE <<<<names[i], baseline>>>>
    IN FlattenSeq([i \in 1..n |-> of(i)])

\* common_query_ids, whose order is that of every vector of scores and tells nothing
Shared(scores) == {q \in UNION {DOMAIN scores[c] : c \in DOMAIN scores} :
                     \A c \in DOMAIN scores : q \in DOMAIN scores[c]}

\* A slip: a condition named twice counts its queries twice.
ComparePooled(scores, names, baseline) ==
    LET ids == SetToSeq(Shared(scores))
        vector(c) == FlattenSeq([k \in DOMAIN SelectSeq(names, LAMBDA n : n = c) |->
                                    [i \in DOMAIN ids |-> scores[c][ids[i]]]])
        pairs == Pairs(names, baseline)
    IN ApplyCorrection([i \in DOMAIN pairs |->
          ComparePaired(vector(pairs[i][1]), vector(pairs[i][2]), pairs[i][1], pairs[i][2])])

\* compare_runs: the pairs on the queries scored under every condition
Compare(scores, names, baseline) ==
    LET ids == SetToSeq(Shared(scores))
        vector == [c \in DOMAIN scores |-> [i \in DOMAIN ids |-> scores[c][ids[i]]]]
        pairs == Pairs(names, baseline)
    IN ApplyCorrection([i \in DOMAIN pairs |->
          ComparePaired(vector[pairs[i][1]], vector[pairs[i][2]], pairs[i][1], pairs[i][2])])
=============================================================================
