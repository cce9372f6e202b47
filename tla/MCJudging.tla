------------------------------ MODULE MCJudging ------------------------------
(* Small pages for Judging: texts over a few words, blocks at a few levels. *)
EXTENDS Judging

CONSTANTS u, v, stop, shut, abbr, abbrs, vs, LongText

\* shut, abbrs and vs are stop, abbr and v, closed.
MCWords  == {u, v, stop, shut, abbr, abbrs, vs}
MCStops  == {stop, shut}
MCBroken == {abbr, abbrs}
MCJoined == (abbr :> v) @@ (abbrs :> vs)
MCClosed == {shut, abbrs, vs}
MCBare   == (shut :> stop) @@ (abbrs :> abbr) @@ (vs :> v)

Texts(alphabet, lengths) == UNION {[1..n -> alphabet] : n \in lengths}
Block(level, heading, body) == [level |-> level, heading |-> heading, body |-> body]
Page(article, preamble, blocks) ==
    [article |-> article, preamble |-> preamble, blocks |-> blocks]

\* The page all of which is in the article
Whole(preamble, blocks) ==
    Page(preamble \o FlattenSeq([k \in DOMAIN blocks |-> blocks[k].heading \o blocks[k].body]),
         preamble, blocks)

\* Every text of one section, an abbreviation that ends a line, and closing quotes.
OneText ==
    {Page(t, <<>>, <<>>) : t \in Texts({u, stop}, 1..LongText) \cup Texts({u, v, stop}, {3})
                                   \cup Texts({u, stop, abbr}, {4}) \cup Texts({u, stop, shut}, {4})
                                   \cup Texts({u, stop, abbrs}, {3})}

\* Headings at levels that are skipped, a heading or body empty.
Outline ==
    {Whole(b, <<Block(l[1], <<v>>, b), Block(l[2], h, <<>>), Block(l[3], <<v>>, <<u, v>>)>>) :
        l \in [1..3 -> 1..3],
        h \in {<<>>, <<v>>},
        b \in {<<>>, <<u, stop, v>>}}

\* Bodies long enough to be cut, under headings that move the offsets; an article that
\* has all of the page, or leaves out the headings, or a body too.
Article ==
    {Whole(<<u, v>>, <<Block(1, <<v>>, b), Block(2, <<v, v>>, c)>>) :
        b \in {<<u, u, stop>>, <<u, stop, stop, u>>},
        c \in Texts({u, stop}, {5}) \cup Texts({u, v, stop}, {3})}
    \cup
    {Page(SubSeq(<<u, shut, stop>> \o c, 1, n), <<u>>,
          <<Block(1, <<v>>, <<u, shut, stop>>), Block(2, <<v>>, c)>>) :
        n \in {3, 6}, c \in Texts({u, stop, shut}, {3})}

MCPages == OneText \cup Outline \cup Article

Fixed(size, overlap) == [name |-> "fixed", size |-> size, overlap |-> overlap]
Sentence(max, overlap, min) ==
    [name |-> "sentence", max |-> max, overlap |-> overlap, min |-> min]
Semantic(percentile, sentences, max, distances) ==
    [name |-> "semantic", percentile |-> percentile, sentences |-> sentences, max |-> max,
     distances |-> distances]
ParentChild(parent, child) == [name |-> "parent_child", parent |-> parent, child |-> child]

MCChunkers ==
    {Fixed(3, 0), Fixed(4, 2),
     Sentence(3, 0, 2), Sentence(4, 1, 2), Sentence(3, 2, 5), Sentence(1, 0, 0),
     Semantic(50, 1, 4, <<0, 1, 0, 0, 1, 0>>), Semantic(50, 1, 4, <<1, 0, 1, 1, 0, 1>>),
     ParentChild(Sentence(5, 0, 2), Sentence(2, 1, 2)),
     ParentChild(Fixed(4, 1), Fixed(2, 0))}

MCGenerationChunker == Sentence(4, 0, 2)
=============================================================================
