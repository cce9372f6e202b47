------------------------------ MODULE Chunking ------------------------------
(***************************************************************************)
(* How a page becomes chunks (crawl/extract.py, chunking/): headings cut it *)
(* into sections, a chunker cuts the sections, or the whole text, into      *)
(* chunks. A text is the sequence of the positions its words have on the    *)
(* page, so a text knows where it is from; the code sees only the words,    *)
(* and so does every comparison made here. How a text spells the word of a   *)
(* position is a function of its own, for splitting a text into sentences    *)
(* drops line breaks, and closing marks behind a stop. A word is a character, *)
(* a closing mark another, and words are a space apart. What an embedder      *)
(* makes of the sentences of a section, the distances between neighbours,    *)
(* is a part of the chunker it is given to.                                  *)
(***************************************************************************)
EXTENDS Integers, FiniteSets, SequencesExt

CONSTANTS
    Words,
    Stops,     \* words that end a sentence
    Broken,    \* abbreviations that end a line,
    Joined,    \*   and each as it is within one: split_sentences, and a window, put a
               \*   space behind it, so the sentence is not found in its section again
    Closed,    \* words that end in a stop, or as an abbreviation, and a quote or bracket,
    Bare,      \*   and each without it: split_sentences drops it where a word follows
    Pages,     \* pages: the article that is extracted, and the HTML's headings and texts:
               \* a preamble, and blocks of a level, a heading and a body
    Chunkers   \* chunkers: their names and parameters

ASSUME WordsAssumption ==
    /\ Stops \subseteq Words /\ Broken \subseteq Words \ Stops /\ Closed \subseteq Words
    /\ Joined \in [Broken -> Words \ (Broken \cup Stops)]
    /\ Bare \in [Closed -> Words \ Closed]
    /\ \A w \in Broken : Joined[w] \in Closed <=> w \in Closed
    /\ \A w \in Closed : /\ Bare[w] \in Stops <=> w \in Stops
                        /\ Bare[w] \in Broken <=> w \in Broken
    /\ \A w \in Broken \cap Closed : Bare[Joined[w]] = Joined[Bare[w]]
ASSUME PagesAssumption ==
    \A p \in Pages :
        /\ p.article \in Seq(Words) /\ p.preamble \in Seq(Words)
        /\ p.blocks \in Seq([level : 1..6, heading : Seq(Words), body : Seq(Words)])

\* What the chunkers' constructors allow, each of its own name
Plain(c) ==
    \/ c.name = "fixed" /\ c.size \in Nat \ {0} /\ c.overlap \in 0..(c.size - 1)
    \/ c.name = "sentence" /\ c.max \in Nat \ {0} /\ c.overlap \in Nat /\ c.min \in Int
    \/ c.name = "semantic" /\ c.sentences \in Nat \ {0} /\ c.max \in Int

ASSUME ChunkersAssumption ==
    \A c \in Chunkers :
        Plain(c) \/ (c.name = "parent_child" /\ Plain(c.parent) /\ Plain(c.child))

-----------------------------------------------------------------------------
InLine(w)   == IF w \in Broken THEN Joined[w] ELSE w
Unmarked(w) == IF w \in Closed THEN Bare[w] ELSE w

\* The numbers from a to b
Run(a, b) == [i \in 1..(b - a + 1) |-> a + i - 1]

\* The k-th of some numbers, and the members of a sequence at some places
Kth(S, k) == CHOOSE i \in S : Cardinality({j \in S : j <= i}) = k
Picked(s, places) == [k \in 1..Cardinality(places) |-> s[Kth(places, k)]]

\* A sequence cut behind each of these places, of which the last is its end
Pieces(s, ends) ==
    [k \in 1..Cardinality(ends) |->
        SubSeq(s, IF k = 1 THEN 1 ELSE Kth(ends, k - 1) + 1, Kth(ends, k))]

\* The characters of some words, and where in a text its words behind the i-th begin
Chars(s) ==
    IF s = <<>> THEN 0
    ELSE 2 * Len(s) - 1 + Cardinality({i \in DOMAIN s : s[i] \in Closed})
Spelled(words, text) == [i \in DOMAIN text |-> words[text[i]]]
Offset(words, text, i) ==
    IF i = 0 THEN 0 ELSE Chars(Spelled(words, SubSeq(text, 1, i))) + 1

\* s, in its words, is at place i of a text in others: its end may be within a word,
\* before that one's closing mark.
OccursAt(ws, s, words, text, i) ==
    /\ i + Len(s) <= Len(text)
    /\ \A k \in DOMAIN s :
          LET w == words[text[i + k]]
          IN ws[s[k]] = w \/ (k = Len(s) /\ ws[s[k]] = Unmarked(w))
Occurs(ws, s, words, text) == \E i \in 0..Len(text) : OccursAt(ws, s, words, text, i)

-----------------------------------------------------------------------------
(* crawl/extract.py *)

\* A slip: a heading of the same level is taken for an ancestor.
UnderDeeper(stack, level) ==
    SubSeq(stack, 1, Max({n \in 0..Len(stack) : n = 0 \/ stack[n].level <= level}))

\* while stack and stack[-1][0] >= level: stack.pop()
Under(stack, level) ==
    SubSeq(stack, 1, Max({n \in 0..Len(stack) : n = 0 \/ stack[n].level < level}))

\* One heading: r.at is the words read, r.cursor where the next section starts.
Heading(r, block) ==
    LET above == Under(r.stack, block.level)
        stack == IF block.heading = <<>> THEN above
                 ELSE Append(above, [level |-> block.level, at |-> r.at + 1])
        body  == Run(r.at + Len(block.heading) + 1,
                     r.at + Len(block.heading) + Len(block.body))
    IN [at       |-> r.at + Len(block.heading) + Len(body),
        stack    |-> stack,
        cursor   |-> IF body = <<>> THEN r.cursor ELSE r.cursor + Chars(block.body) + 1,
        sections |-> IF body = <<>> THEN r.sections
                     ELSE Append(r.sections, [text  |-> body,
                                              path  |-> [i \in DOMAIN stack |-> stack[i].at],
                                              start |-> r.cursor])]

Preamble(page) ==
    LET before == Len(page.article)
        text   == Run(before + 1, before + Len(page.preamble))
    IN [at       |-> before + Len(text),
        stack    |-> <<>>,
        cursor   |-> Chars(page.preamble),
        sections |-> IF text = <<>> THEN <<>>
                     ELSE <<[text |-> text, path |-> <<>>, start |-> 0]>>]

ExtractSections(page) ==
    LET read[k \in 0..Len(page.blocks)] ==
            IF k = 0 THEN Preamble(page) ELSE Heading(read[k - 1], page.blocks[k])
    IN IF page.blocks = <<>> THEN <<>> ELSE read[Len(page.blocks)].sections

\* extract_document, effective_sections: the text is the article an extractor finds in
\* the HTML; the sections are cut from the HTML itself, so the two may differ.
ExtractDocument(page) ==
    LET text == Run(1, Len(page.article))
    IN [words    |-> page.article \o page.preamble
                        \o FlattenSeq([k \in DOMAIN page.blocks |->
                                          page.blocks[k].heading \o page.blocks[k].body]),
        text     |-> text,
        sections |-> IF ExtractSections(page) # <<>> THEN ExtractSections(page)
                     ELSE <<[text |-> text, path |-> <<>>, start |-> 0]>>]

-----------------------------------------------------------------------------
(* chunking/base.py, fixed.py *)

SplitSentences(words, text) ==
    Pieces(text, {i \in DOMAIN text : i = Len(text) \/ words[text[i]] \in Stops})

\* How a text's words are spelled once it was split and its pieces joined again: what
\* a boundary takes is the space behind a word, and the closing marks before that.
Respelled(words, text) ==
    [p \in DOMAIN words |->
        InLine(IF p \in Range(Front(text)) THEN Unmarked(words[p]) ELSE words[p])]

\* section.text.find(s), 0 where s is not found
Find(ws, s, words, text) ==
    LET at == {i \in 0..Len(text) : OccursAt(ws, s, words, text, i)}
    IN IF at = {} THEN 0 ELSE Offset(words, text, Min(at))

ChunkOf(words, text, start, path, parent) ==
    [words |-> words, text |-> text,
     start |-> start, end |-> start + Chars(Spelled(words, text)),
     path |-> path, parent |-> parent]

\* The number of the last window, from 0: the loop breaks where one reaches the end.
Windows(n, size, overlap) == Min({k \in 0..n : k * (size - overlap) + size >= n})

\* The words of a window are joined by spaces.
Windowed(words) == [p \in DOMAIN words |-> InLine(words[p])]

FixedChunks(c, words, text) ==
    IF text = <<>> THEN <<>>
    ELSE [k \in 1..(Windows(Len(text), c.size, c.overlap) + 1) |->
            LET from == (k - 1) * (c.size - c.overlap)
            IN ChunkOf(Windowed(words), SubSeq(text, from + 1, Min({from + c.size, Len(text)})),
                       Offset(words, text, from), <<>>, 0)]

-----------------------------------------------------------------------------
(* chunking/sentence.py, semantic.py, parent_child.py *)

\* A group is the numbers of its sentences.
Join(sentences, group) == FlattenSeq([i \in DOMAIN group |-> sentences[group[i]]])
Tokens(sentences, group) == Len(Join(sentences, group))
Tail_(group, n) == SubSeq(group, Max({1, Len(group) - n + 1}), Len(group))

\* One sentence put into the group being packed; keep is how many it takes along.
Pack(max, keep, sentences, r, s) ==
    IF r.current # <<>> /\ Tokens(sentences, r.current) + Len(sentences[s]) > max
    THEN [groups |-> Append(r.groups, r.current), current |-> Append(Tail_(r.current, keep), s)]
    ELSE [r EXCEPT !.current = Append(@, s)]

Packed(max, keep, sentences, all) ==
    LET read[i \in 0..Len(all)] ==
            IF i = 0 THEN [groups |-> <<>>, current |-> <<>>]
            ELSE Pack(max, keep, sentences, read[i - 1], all[i])
    IN read[Len(all)]

\* A slip: the scrap is dropped.
FoldScrapDropped(groups, scrap, overlap) == groups

\* groups[-1].extend(current[overlap:])
FoldScrap(groups, scrap, overlap) ==
    [groups EXCEPT ![Len(groups)] = @ \o SubSeq(scrap, overlap + 1, Len(scrap))]

\* SentenceChunker._group
SentenceGroups(c, sentences) ==
    LET r == Packed(c.max, c.overlap, sentences, Run(1, Len(sentences)))
    IN IF r.groups # <<>> /\ Tokens(sentences, r.current) < c.min
       THEN FoldScrap(r.groups, r.current, c.overlap)
       ELSE Append(r.groups, r.current)

\* np.percentile of the distances, times 100, by linear interpolation
Percentile(d, p) ==
    LET sorted == SortSeq(d, <)
        rank   == (Len(d) - 1) * p
        low    == rank \div 100
        high   == Min({low + 1, Len(d) - 1})
    IN 100 * sorted[low + 1] + (rank % 100) * (sorted[high + 1] - sorted[low + 1])

\* SemanticChunker._group, _enforce_max_tokens
SemanticGroups(c, sentences) ==
    LET n      == Len(sentences)
        d      == SubSeq(c.distances, 1, n - 1)
        ends   == {n} \cup {i \in 1..(n - 1) : 100 * d[i] > Percentile(d, c.percentile)}
        groups == Pieces(Run(1, n), ends)
        Split(group) == LET r == Packed(c.max, 0, sentences, group)
                        IN Append(r.groups, r.current)
    IN IF n <= c.sentences \/ n = 1 THEN <<Run(1, n)>>
       ELSE FlattenSeq([k \in DOMAIN groups |-> Split(groups[k])])

\* SentenceChunker.chunk, SemanticChunker.chunk of one section
SectionChunks(c, words, section) ==
    LET sentences == SplitSentences(words, section.text)
        groups == IF c.name = "sentence" THEN SentenceGroups(c, sentences)
                  ELSE SemanticGroups(c, sentences)
        spelled == Respelled(words, section.text)
        offset(s) == section.start + Find(spelled, s, words, section.text)
    IN IF sentences = <<>> THEN <<>>
       ELSE [k \in DOMAIN groups |->
               ChunkOf(spelled, Join(sentences, groups[k]), offset(sentences[groups[k][1]]),
                       section.path, 0)]

\* chunker.chunk(document), of a chunker that is no parent_child
PlainChunks(c, document) ==
    IF c.name = "fixed" THEN FixedChunks(c, document.words, document.text)
    ELSE FlattenSeq([k \in DOMAIN document.sections |->
                        SectionChunks(c, document.words, document.sections[k])])

\* ParentChildChunker.chunk: each parent is a document of one section for the child.
Children(c, document) ==
    LET parents == PlainChunks(c.parent, document)
        sub(p) == [document EXCEPT
                     !.words = p.words,
                     !.text = p.text,
                     !.sections = <<[text |-> p.text, path |-> p.path, start |-> p.start]>>]
        cut(k) == PlainChunks(c.child, sub(parents[k]))
    IN FlattenSeq([k \in DOMAIN parents |->
          [j \in DOMAIN cut(k) |-> [cut(k)[j] EXCEPT !.path = parents[k].path, !.parent = k]]])

ChunksOf(c, document) ==
    IF c.name = "parent_child" THEN Children(c, document) ELSE PlainChunks(c, document)
=============================================================================
