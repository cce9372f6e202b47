------------------------------ MODULE MCAnswers ------------------------------
(* Three chunks of two of three pages for Answers, and retrievers of each kind. *)
EXTENDS Answers

CONSTANTS d1, d2, d3

MCChunks == 1..3
MCDocs == {d1, d2, d3}
MCDocOf == <<d1, d1, d2>>
MCDiscounts == <<1000, 631, 500>>
MCSentenceWeight == <<4, 2, 1>>

Dense == [name |-> "dense"]
RRF(multiplier) == [name |-> "hybrid", method |-> "rrf", multiplier |-> multiplier]
ByWeight(alpha) == [name |-> "hybrid", method |-> "weighted", alpha |-> alpha, multiplier |-> 2]
Reranked(base, candidates) == [name |-> "reranked", base |-> base, candidates |-> candidates]

MCRetrievers ==
    {Dense, RRF(1), RRF(2), ByWeight(30), ByWeight(100), Reranked(Dense, 3), Reranked(RRF(2), 1)}
=============================================================================
