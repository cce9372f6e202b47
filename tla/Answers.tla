------------------------------- MODULE Answers -------------------------------
(***************************************************************************)
(* What is done with the chunks a query retrieves. `geolytics experiment`   *)
(* scores the ranking against the query's judgments. `geolytics calibrate`   *)
(* has a language model answer from them, resolves the [n] it cites to       *)
(* chunks (geo/engine.py), measures how much of the answers each page earned *)
(* (geo/visibility.py, calibration.py), and fits the signal weights to it    *)
(* (geo/scoring.py). An answer is a sequence of words, full stops and [n]    *)
(* markers; a marker may come before its sentence's full stop or after it.   *)
(***************************************************************************)
EXTENDS Retrieval

CONSTANTS
    Docs, DocOf,   \* the pages, and the page of each chunk
    Signals,       \* SIGNAL_NAMES
    Grades,        \* grades a judgment may have
    Scores,        \* scores a stage may give a chunk
    Coefficients,  \* what least squares may come to
    MaxQueries,    \* bound: queries of a run
    MaxTokens,     \* bound: tokens of an answer
    SentenceWeight,\* what a sentence weighs by its place, halving as _weight does
    Whole          \* the unit of a share: fine enough for the smallest an answer can have

ASSUME AnswersAssumption ==
    /\ IsFiniteSet(Docs) /\ DocOf \in [Chunks -> Docs]
    /\ Grades \subseteq Nat /\ Scores \subseteq Int /\ Coefficients \subseteq Nat
ASSUME WeightsAssumption ==
    /\ MaxTokens \in Nat /\ Whole \in Nat
    /\ SentenceWeight \in Seq(Nat \ {0}) /\ Len(SentenceWeight) >= MaxTokens
    /\ \A i \in DOMAIN SentenceWeight : SentenceWeight[i] * MaxTokens <= Whole
ASSUME RetrieversAssumption ==
    \A r \in Retrievers :
        /\ First(r).name = "hybrid" =>
              /\ First(r).method \in {"rrf", "weighted"}
              /\ First(r).method = "weighted" => First(r).alpha \in 0..100
              /\ First(r).multiplier \in Nat \ {0}
        /\ First(r).name \in {"dense", "hybrid"}
        /\ r.name = "reranked" => r.candidates \in Nat \ {0}

VARIABLES
    command,  \* "experiment" or "calibrate"
    at,       \* where the command is
    grades,   \* the judgments of the query just retrieved for
    answer,   \* the answer just given: its tokens and sentences
    asked,    \* queries answered so far
    earned,   \* totals: what each page earned, in units of 1 / Whole
    claimed,  \* pages that a marker of some answer stood for
    weights   \* what calibrate_weights fitted

vars == <<call, retrieved, command, at, grades, answer, asked, earned, claimed, weights>>

Stop == -1
Word == 0
Markers == 1..(TopK + 1)

NoCall == [retriever |-> [name |-> "none"], arms |-> <<>>, fused |-> <<>>]
NoAnswer == [tokens |-> <<>>, sentences |-> <<>>]

Init ==
    /\ command \in {"experiment", "calibrate"}
    /\ at = "query"
    /\ call = NoCall /\ retrieved = <<>>
    /\ grades = [c \in Chunks |-> 0]
    /\ answer = NoAnswer
    /\ asked = 0
    /\ earned = [d \in Docs |-> 0]
    /\ claimed = {}
    /\ weights = [fitted |-> FALSE, of |-> [s \in Signals |-> 0]]

-----------------------------------------------------------------------------
(* One query: retriever.retrieve(query.text). Only an experiment may have   *)
(* another retriever than the dense one.                                     *)
Asked ==
    /\ at = "query"
    /\ asked < MaxQueries
    /\ \E r \in Retrievers, d, l, x \in [Chunks -> Scores] :
          /\ command = "calibrate" => r.name = "dense"
          /\ First(r).name = "dense" => l = d
          /\ r.name # "reranked" => x = d
          /\ call' = [retriever |-> r, dense |-> d, lexical |-> l, cross |-> x,
                      arms |-> <<>>, fused |-> <<>>]
    /\ at' = "search"
    /\ UNCHANGED <<retrieved, command, grades, answer, asked, earned, claimed, weights>>

Searched ==
    /\ at = "search" /\ RunArms
    /\ at' = "fuse"
    /\ UNCHANGED <<command, grades, answer, asked, earned, claimed, weights>>

Merged ==
    /\ at = "fuse" /\ Fuse
    /\ at' = "return"
    /\ UNCHANGED <<command, grades, answer, asked, earned, claimed, weights>>

Returned ==
    /\ at = "return" /\ Return
    /\ call' = NoCall
    /\ at' = IF command = "experiment" THEN "score" ELSE "answer"
    /\ UNCHANGED <<command, grades, answer, asked, earned, claimed, weights>>

\* evaluate_ranking, for a query with a judged chunk
Evaluated ==
    /\ at = "score"
    /\ \E g \in [Chunks -> Grades] : Relevant(g) # {} /\ grades' = g
    /\ at' = "done"
    /\ UNCHANGED <<call, retrieved, command, answer, asked, earned, claimed, weights>>

-----------------------------------------------------------------------------
(* engine.py, visibility.py *)

\* split_sentences: after a full stop; a marker there opens the next sentence
SentenceAt(tokens, i) == 1 + Cardinality({j \in 1..(i - 1) : tokens[j] = Stop})

Sentences(tokens) ==
    [k \in 1..(IF tokens = <<>> THEN 0 ELSE SentenceAt(tokens, Len(tokens))) |->
        {i \in DOMAIN tokens : SentenceAt(tokens, i) = k}]

\* The words of a sentence, a marker's digits for one
WordsOf(tokens, sentence) == Cardinality({i \in sentence : tokens[i] # Stop})

\* A slip: a marker of no source stands for the last one.
ClampedCitations(tokens, hits) ==
    LET pieces == Sentences(tokens)
    IN [k \in DOMAIN pieces |->
          [words |-> WordsOf(tokens, pieces[k]),
           cites |-> {hits[Min({tokens[i], Len(hits)})] : i \in {j \in pieces[k] : tokens[j] \in Markers}}]]

\* Markers out of range are dropped.
ParseCitations(tokens, hits) ==
    LET pieces == Sentences(tokens)
    IN [k \in DOMAIN pieces |->
          [words |-> WordsOf(tokens, pieces[k]),
           cites |-> {hits[tokens[i]] : i \in {j \in pieces[k] : tokens[j] \in DOMAIN hits}}]]

\* The weighted words of some of the sentences
Weighted(sentences, some) ==
    SumTo([k \in DOMAIN sentences |->
              IF k \in some THEN SentenceWeight[k] * sentences[k].words ELSE 0],
          Len(sentences))

\* citation_visibility(...).position_adjusted_share, in units of 1 / Whole
PositionShare(sentences, target) ==
    LET all == Weighted(sentences, DOMAIN sentences)
        hit == Weighted(sentences, {k \in DOMAIN sentences : sentences[k].cites \cap target # {}})
    IN IF all = 0 THEN 0 ELSE (hit * Whole) \div all

\* citation_visibility(...): the citations of the target
CitationHits(sentences, target) ==
    SumTo([k \in DOMAIN sentences |-> Cardinality(sentences[k].cites \cap target)],
          Len(sentences))

ChunksOf(hits, d) == {c \in Range(hits) : DocOf[c] = d}

\* engine.answer, and measure_visibility's turn of its loop
Answered ==
    /\ at = "answer"
    /\ \E n \in 0..MaxTokens : \E tokens \in [1..n -> {Stop, Word} \cup Markers] :
          LET sentences == ParseCitations(tokens, retrieved)
          IN /\ answer' = [tokens |-> tokens, sentences |-> sentences]
             /\ earned' = [d \in Docs |-> earned[d]
                              + IF sentences = <<>> THEN 0
                                ELSE PositionShare(sentences, ChunksOf(retrieved, d))]
             /\ claimed' = claimed \cup
                   {DocOf[retrieved[m]] : m \in Range(tokens) \cap DOMAIN retrieved}
    /\ asked' = asked + 1
    /\ at' = "answered"
    /\ UNCHANGED <<call, retrieved, command, grades, weights>>

\* The next query, or the fit; the engine keeps nothing of an answer.
NextQuery ==
    /\ at = "answered"
    /\ answer' = NoAnswer /\ retrieved' = <<>>
    /\ at' = IF asked = MaxQueries THEN "fit" ELSE "query"
    /\ UNCHANGED <<call, command, grades, asked, earned, claimed, weights>>

-----------------------------------------------------------------------------
(* calibration.py, scoring.py *)
Visible == {d \in Docs : earned[d] > 0}

Uniform == [fitted |-> FALSE, of |-> [s \in Signals |-> 1]]

\* More pages than weights, and a target with some signal in it
Fittable == Cardinality(Docs) > Cardinality(Signals) /\ Cardinality(Visible) >= 2

\* SignalWeights.normalized: all zero, they become uniform and unfitted. The weights are kept
\* before they are divided by their total.
Normalized(w) == IF \A s \in Signals : w[s] = 0 THEN Uniform ELSE [fitted |-> TRUE, of |-> w]

\* fit_weights: any coefficients
Fitted == {Normalized(w) : w \in [Signals -> Coefficients]}

CalibrateWeights ==
    /\ at = "fit"
    /\ weights' \in IF Fittable THEN Fitted ELSE {Uniform}
    /\ at' = "done"
    /\ UNCHANGED <<call, retrieved, command, grades, answer, asked, earned, claimed>>

Next ==
    \/ Asked \/ Searched \/ Merged \/ Returned \/ Evaluated
    \/ Answered \/ NextQuery \/ CalibrateWeights

Spec == Init /\ [][Next]_vars

-----------------------------------------------------------------------------
MetricsSound == command = "experiment" /\ at = "done" => MetricsSoundFor(retrieved, grades)

(***************************************************************************)
(* A page is visible just when the model really cited it: over every        *)
(* answer and wherever a full stop falls, the pages that have earned a share *)
(* are those an in-range marker stood for, a [7] among five sources gives    *)
(* nobody anything, no page earns more than every answer whole, the          *)
(* citations of the pages add up to those made, and weights are called       *)
(* fitted only when two pages were cited.                                    *)
(***************************************************************************)
VisibilityEarned ==
    /\ Visible = claimed
    /\ \A d \in Docs : earned[d] <= asked * Whole
    /\ LET hits(d) == CitationHits(answer.sentences, ChunksOf(retrieved, d))
           made == CitationHits(answer.sentences, Chunks)
           markers == Range(answer.tokens) \cap DOMAIN retrieved
       IN /\ \A pages \in [1..Cardinality(Docs) -> Docs] :
                IsInjective(pages) =>
                    SumTo([i \in DOMAIN pages |-> hits(pages[i])], Cardinality(Docs)) = made
          /\ made >= Cardinality(markers)
    /\ weights.fitted => Cardinality(claimed) >= 2 /\ \E s \in Signals : weights.of[s] > 0
=============================================================================
