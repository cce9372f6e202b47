------------------------------- MODULE Judging -------------------------------
(***************************************************************************)
(* From a crawled page to a judged query set: the page is extracted and     *)
(* chunked, questions are written for units of a segmentation of their own   *)
(* (evaluation/qagen.py, heuristic_qagen.py), and the passage each question  *)
(* was written for is projected onto the chunks (evaluation/projection.py).  *)
(* A question is known by its unit; a page has one document.                 *)
(***************************************************************************)
EXTENDS Chunking

CONSTANTS
    GenerationChunker, \* DEFAULT_GENERATION_CHUNKER
    MinUnitTokens,     \* QAGenerationConfig.min_unit_tokens
    MaxUnits,          \* QAGenerationConfig.max_units
    MinCoverage,       \* min_coverage, in hundredths
    Templates          \* the question shapes of heuristic_qagen

ASSUME CoverageAssumption == MinCoverage \in 1..100
ASSUME GenerationAssumption ==
    /\ Plain(GenerationChunker) /\ GenerationChunker.name = "sentence"
    /\ GenerationChunker.overlap = 0
    /\ MinUnitTokens \in Int /\ MaxUnits \in Nat

VARIABLES
    page,     \* the page, as crawled
    chunker,  \* the chunker of this run
    document, \* the Document extract_document makes of it
    chunks,   \* what chunker.chunk(document) returned
    phase,    \* "crawled", "extracted", "chunked", "asked" or "projected"
    gold,     \* the passage of each query: queries[i].spans[0]
    judged    \* the chunks each query is judged to be answered by

vars == <<page, chunker, document, chunks, phase, gold, judged>>

Init ==
    /\ page \in Pages
    /\ chunker \in Chunkers
    /\ document = [words |-> <<>>, text |-> <<>>, sections |-> <<>>]
    /\ chunks = <<>>
    /\ phase = "crawled"
    /\ gold = <<>>
    /\ judged = <<>>

-----------------------------------------------------------------------------
(* evaluation/projection.py *)

\* _prefix_coverage: the longest prefix, or suffix, of the passage in the chunk
PrefixCoverage(chunk, span) ==
    LET n == Len(span.text)
        Has(s) == Occurs(span.words, s, chunk.words, chunk.text)
    IN Max({k \in 0..n : \/ Has(SubSeq(span.text, 1, k))
                         \/ Has(SubSeq(span.text, n - k + 1, n))})

\* A slip: the overlap is taken as a share of the chunk.
CoversChunk(chunk, span) ==
    LET overlap == Min({chunk.end, span.end}) - Max({chunk.start, span.start})
    IN \/ overlap > 0 /\ 100 * overlap >= MinCoverage * (chunk.end - chunk.start)
       \/ Occurs(span.words, span.text, chunk.words, chunk.text)
       \/ 100 * PrefixCoverage(chunk, span) >= MinCoverage * Len(span.text)

\* A slip: a passage that is cut is not looked for.
CoversWhole(chunk, span) == Occurs(span.words, span.text, chunk.words, chunk.text)

\* _covers: by the offsets, or else by the text
Covers(chunk, span) ==
    LET overlap == Min({chunk.end, span.end}) - Max({chunk.start, span.start})
    IN \/ overlap > 0 /\ 100 * overlap >= MinCoverage * (span.end - span.start)
       \/ Occurs(span.words, span.text, chunk.words, chunk.text)
       \/ 100 * PrefixCoverage(chunk, span) >= MinCoverage * Len(span.text)

ProjectQuery(span) == {i \in DOMAIN chunks : Covers(chunks[i], span)}

-----------------------------------------------------------------------------
Extract ==
    /\ phase = "crawled"
    /\ document' = ExtractDocument(page)
    /\ phase' = "extracted"
    /\ UNCHANGED <<page, chunker, chunks, gold, judged>>

\* run raises for a condition that produced no chunks
Chunk ==
    /\ phase = "extracted"
    /\ chunks' = ChunksOf(chunker, document)
    /\ chunks' # <<>>
    /\ phase' = "chunked"
    /\ UNCHANGED <<page, chunker, document, gold, judged>>

\* eligible_units: the units long enough to carry an answer
EligibleUnits ==
    LET units == ChunksOf(GenerationChunker, document)
        long  == Picked(units, {i \in DOMAIN units : Len(units[i].text) >= MinUnitTokens})
    IN SubSeq(long, 1, Min({Len(long), MaxUnits}))

\* generate_query_set: a unit whose request failed, or whose questions share too many
\* words with it, gives no query.
Generate ==
    /\ phase = "chunked"
    /\ \E units \in {EligibleUnits} :
        \E answered \in SUBSET DOMAIN units : gold' = Picked(units, answered)
    /\ phase' = "asked"
    /\ UNCHANGED <<page, chunker, document, chunks, judged>>

\* _focus_phrase: the deepest heading, or words of the first sentence
Focus(unit) ==
    LET terms == IF unit.path # <<>> THEN <<Last(unit.path)>>
                 ELSE SplitSentences(unit.words, unit.text)[1]
    IN [i \in DOMAIN terms |-> Unmarked(unit.words[terms[i]])]

\* The units whose question no earlier unit has had, were it dropped or not
Fresh(units, template) ==
    {i \in DOMAIN units : \A j \in 1..(i - 1) :
        template[j] = template[i] => Focus(units[j]) # Focus(units[i])}

\* generate_heuristic_query_set: one question by a unit's template and focus
GenerateHeuristic ==
    /\ phase = "chunked"
    /\ \E units \in {EligibleUnits} :
        \E template \in [DOMAIN units -> Templates], kept \in SUBSET DOMAIN units :
            gold' = Picked(units, Fresh(units, template) \cap kept)
    /\ phase' = "asked"
    /\ UNCHANGED <<page, chunker, document, chunks, judged>>

\* project_query_set
Project ==
    /\ phase = "asked"
    /\ judged' = [k \in DOMAIN gold |-> ProjectQuery(gold[k])]
    /\ phase' = "projected"
    /\ UNCHANGED <<page, chunker, document, chunks, gold>>

Next == Extract \/ Chunk \/ Generate \/ GenerateHeuristic \/ Project

Spec == Init /\ [][Next]_vars

\* QuerySet.judged: a query no chunk answers is dropped
Dropped == {k \in DOMAIN judged : judged[k] = {}}

-----------------------------------------------------------------------------
Chunked == phase \in {"chunked", "asked", "projected"}

\* The chunkers the text of a chunk goes through
Stages == IF chunker.name = "parent_child" THEN {chunker.parent, chunker.child} ELSE {chunker}

OverText(c) == c.name = "fixed" \/ (c.name = "parent_child" /\ c.parent.name = "fixed")
NoLongOverlap == \A c \in Stages : c.name = "sentence" => c.overlap <= 1

(***************************************************************************)
(* No word is lost, which would corrupt recall: every word of the sections  *)
(* (of the whole text, for fixed windows) is in a chunk, a chunk is a run of *)
(* consecutive words, and it spells each as the page does but for two things: *)
(* a line's end is a space, and split_sentences drops a quote or bracket     *)
(* that closes behind a stop, never a section's last. The fold of a trailing *)
(* scrap can drop sentences when more than one overlaps.                     *)
(***************************************************************************)
WordsKept ==
    Chunked /\ NoLongOverlap =>
        /\ LET held == UNION {Range(chunks[i].text) : i \in DOMAIN chunks}
           IN IF OverText(chunker) THEN held = Range(document.text)
              ELSE held = UNION {Range(document.sections[i].text) : i \in DOMAIN document.sections}
        /\ \A i \in DOMAIN chunks : \A k \in 1..(Len(chunks[i].text) - 1) :
              chunks[i].text[k + 1] = chunks[i].text[k] + 1
        /\ \A i \in DOMAIN chunks : \A p \in Range(chunks[i].text) :
              \/ chunks[i].words[p] = InLine(document.words[p])
              \/ /\ chunks[i].words[p] = InLine(Unmarked(document.words[p]))
                 /\ chunker.name # "fixed"
                 /\ OverText(chunker) \/ \A j \in DOMAIN document.sections :
                                             p # Last(document.sections[j].text)

\* The position on the page of block k's first word, its heading's if it has one
BlockStart(k) ==
    LET start[i \in 1..(Len(page.blocks) + 1)] ==
            IF i = 1 THEN 1 + Len(page.article) + Len(page.preamble)
            ELSE start[i - 1] + Len(page.blocks[i - 1].heading) + Len(page.blocks[i - 1].body)
    IN start[k]

BlocksBefore(w) == {k \in DOMAIN page.blocks : BlockStart(k) <= w}

\* The headings a reader sees word w under
Ancestors(w) ==
    {BlockStart(j) : j \in {k \in BlocksBefore(w) :
        /\ page.blocks[k].heading # <<>>
        /\ \A l \in BlocksBefore(w) : l > k => page.blocks[l].level > page.blocks[k].level}}

(***************************************************************************)
(* Every chunk cut from the sections carries exactly one heading path: each *)
(* of its words stands under the headings of that path and no others,        *)
(* however the page skips levels or leaves headings empty.                   *)
(***************************************************************************)
PathsAreAncestors ==
    Chunked /\ ~OverText(chunker) /\ page.blocks # <<>> /\ ExtractSections(page) # <<>> =>
        \A i \in DOMAIN chunks : \A w \in Range(chunks[i].text) :
            Range(chunks[i].path) = Ancestors(w)

\* The extractor of the text, which the sections are not cut from, found it too.
InText(span) == Occurs(span.words, span.text, Windowed(document.words), document.text)

(***************************************************************************)
(* A query is not dropped for where a chunk boundary fell: a passage no     *)
(* longer than a chunk may be is judged in some chunk, at the coverage of    *)
(* one half, whether packed sentences cut it in two or windows do, of which  *)
(* the text has the passage.                                                 *)
(***************************************************************************)
GoldFound ==
    (/\ phase = "projected"
     /\ MinCoverage <= 50
     /\ NoLongOverlap) =>
        \A k \in DOMAIN gold :
            \/ chunker.name = "fixed" /\ Len(gold[k].text) <= chunker.size /\ InText(gold[k])
            \/ chunker.name = "sentence" /\ Len(gold[k].text) <= chunker.max
            => k \notin Dropped

\* Every word is spelled as before, and no sentence comes twice in a section.
SentencesFindable ==
    /\ \A i \in DOMAIN document.words : document.words[i] \notin Broken \cup Closed
    /\ \A i \in DOMAIN document.sections :
          LET text == document.sections[i].text
              sentences == SplitSentences(document.words, text)
          IN \A k \in DOMAIN sentences :
                Cardinality({n \in 0..Len(text) :
                    OccursAt(document.words, sentences[k], document.words, text, n)}) = 1

\* A run of words shared by the passage and the chunk is this share of the passage.
Holds(chunk, span) ==
    \E i \in DOMAIN span.text : \E j \in i..Len(span.text) :
        /\ 100 * (j - i + 1) >= MinCoverage * Len(span.text)
        /\ Occurs(span.words, SubSeq(span.text, i, j), chunk.words, chunk.text)

(***************************************************************************)
(* A chunk is judged relevant only when it carries enough of the passage to *)
(* answer the query: for the chunkers that cut sections by sentences, on     *)
(* pages whose sentences can be found again.                                 *)
(***************************************************************************)
JudgedHoldsGold ==
    (/\ phase = "projected"
     /\ SentencesFindable
     /\ NoLongOverlap
     /\ \A c \in Stages : c.name # "fixed") =>
        \A k \in DOMAIN gold : \A i \in judged[k] : Holds(chunks[i], gold[k])
=============================================================================
