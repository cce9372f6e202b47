----------------------------- MODULE MCCrawler -----------------------------
(* A site of a few pages, and what may become of it.                         *)
EXTENDS Crawler

CONSTANTS home, robots, near, twin, far, paper, private, off, here, there, open, closed

Hosted == [u \in Urls |-> IF u = off THEN there ELSE here]

Html(text, links) == [kind |-> "html", text |-> text, links |-> links]
Of(kind, links) == [kind |-> kind, text |-> "t0", links |-> links]

\* twin repeats the text of near; far is two clicks away.
Web ==
    [u \in Urls |->
        CASE u = home    -> Html("t1", <<near, off, paper, private, twin>>)
          [] u = near    -> Html("t2", <<far, home>>)
          [] u = twin    -> Html("t2", <<far>>)
          [] u = far     -> Html("t3", <<near, twin>>)
          [] u = off     -> Html("t4", <<far>>)
          [] u = robots  -> Of("plain", <<private>>)
          [] OTHER       -> Of("missing", <<>>)]

\* near moves to another host, far goes round.
Moved == [Web EXCEPT ![near] = Of("redirect", <<off>>), ![far] = Of("redirect", <<far>>)]

Webs == {Web, Moved}

Names == {[h \in Hosts |-> {open}],
          [h \in Hosts |-> IF h = here THEN {open} ELSE {open, closed}]}
=============================================================================
