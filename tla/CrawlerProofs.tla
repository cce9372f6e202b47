--------------------------- MODULE CrawlerProofs ---------------------------
(* What is proved of Crawler for every site, policy and number of crawls.    *)
EXTENDS Crawler, FiniteSetTheorems, WellFoundedInduction, TLAPS

-----------------------------------------------------------------------------
(* The policy.                                                              *)

\* The fields of a crawl, whatever their values: the policy does not depend on them.
Shaped(q) ==
    /\ q = [at |-> q.at, limit |-> q.limit, queue |-> q.queue, seen |-> q.seen,
            results |-> q.results, robots |-> q.robots, barred |-> q.barred, url |-> q.url,
            aim |-> q.aim, hop |-> q.hop, hops |-> q.hops, address |-> q.address,
            page |-> q.page, after |-> q.after, clean |-> q.clean]
    /\ \E S : q.results \in Seq(S)

Vetted(q) ==
    q.at = "dial" => HostOf[q.hop] \in AllowedHosts \/ q.address \notin Blocked

Unbarred(q) == \A u \in Found(q) : Respect => q.robots = "read" /\ u \notin q.barred

Good(q) == Shaped(q) /\ Vetted(q) /\ Fetching(q) /\ Unbarred(q)

IInv ==
    /\ crawl = [c \in Crawls |-> crawl[c]]
    /\ \A c \in Crawls : Good(crawl[c])

LEMMA WaitingGood == Good(Waiting)
<1>1. Shaped(Waiting)
  <2>1. Waiting.results \in Seq({})
    BY DEF Waiting
  <2> QED
    BY <2>1 DEF Shaped, Waiting
<1>2. Found(Waiting) = {}
  BY DEF Found, Waiting
<1> QED
  BY <1>1, <1>2 DEF Good, Vetted, Fetching, Unbarred, Waiting

LEMMA InitIInv == Init => IInv
  BY WaitingGood DEF Init, IInv

\* A step that changes the state of crawl c alone keeps the invariant if c's new
\* state is good.
LEMMA BecomesIInv ==
    ASSUME IInv, NEW c \in Crawls, NEW q, Good(q), Becomes(c, q)
    PROVE  IInv'
<1>1. \A d \in Crawls : crawl'[d] = IF d = c THEN q ELSE crawl[d]
  BY DEF IInv, Becomes
<1>2. crawl' = [d \in Crawls |-> crawl'[d]]
  BY DEF IInv, Becomes
<1>3. \A d \in Crawls : Good(crawl'[d])
  BY <1>1 DEF IInv
<1> QED
  BY <1>2, <1>3 DEF IInv

-----------------------------------------------------------------------------
(* A state with the results of a good one is shaped if it has the fields, and *)
(* unbarred if robots.txt reads the same.                                    *)

LEMMA SameResults ==
    ASSUME NEW q, NEW r, Good(q), r.results = q.results,
           r.robots = q.robots, r.barred = q.barred
    PROVE  Unbarred(r)
<1>1. Found(r) = Found(q)
  BY DEF Found
<1> QED
  BY <1>1 DEF Good, Unbarred

\* One more result, of a page that may be fetched.
LEMMA OneMoreResult ==
    ASSUME NEW q, NEW page, NEW r, Good(q), CanFetch(q),
           r.results = Append(q.results, [url |-> q.url, page |-> page]),
           r.robots = q.robots, r.barred = q.barred
    PROVE  Unbarred(r) /\ \E S : r.results \in Seq(S)
<1> DEFINE e == [url |-> q.url, page |-> page]
<1>1. PICK S : q.results \in Seq(S)
  BY DEF Good, Shaped
<1>2. q.results \in Seq(S \cup {e})
  BY <1>1
<1>3. r.results \in Seq(S \cup {e})
  BY <1>2
<1>4. Found(r) \subseteq Found(q) \cup {q.url}
  <2> SUFFICES ASSUME NEW i \in DOMAIN r.results
               PROVE  r.results[i].url \in Found(q) \cup {q.url}
    BY DEF Found
  <2>1. Len(q.results) \in Nat /\ i \in 1..(Len(q.results) + 1)
    BY <1>2
  <2>2. CASE i = Len(q.results) + 1
    BY <1>2, <2>2
  <2>3. CASE i \in 1..Len(q.results)
    <3>1. r.results[i] = q.results[i] /\ i \in DOMAIN q.results
      BY <1>2, <2>3
    <3> QED
      BY <3>1 DEF Found
  <2> QED
    BY <2>1, <2>2, <2>3
<1>5. Respect => q.robots = "read" /\ q.url \notin q.barred
  BY DEF CanFetch
<1> QED
  BY <1>3, <1>4, <1>5 DEF Good, Unbarred

LEMMA CollectedGood ==
    ASSUME NEW q, NEW page, Good(q), CanFetch(q)
    PROVE  Good(Collected(q, page))
<1> DEFINE r == Collected(q, page)
           f == Frontier(q.queue, q.seen, q.limit, page.links)
<1>1. CASE \E i \in DOMAIN q.results : q.results[i].page.text = page.text
  <2>1. r = [q EXCEPT !.at = "next"]
    BY <1>1 DEF Collected
  <2>2. Shaped(r) /\ r.at = "next"
    BY <2>1 DEF Good, Shaped
  <2>3. r.results = q.results /\ r.robots = q.robots /\ r.barred = q.barred
    BY <2>1 DEF Good, Shaped
  <2>4. Unbarred(r)
    BY <2>3, SameResults
  <2> QED
    BY <2>2, <2>4 DEF Good, Vetted, Fetching
<1>2. CASE ~\E i \in DOMAIN q.results : q.results[i].page.text = page.text
  <2>1. r = [q EXCEPT !.at = "next",
                      !.results = Append(@, [url |-> q.url, page |-> page]),
                      !.queue = f.queue, !.seen = f.seen]
    BY <1>2 DEF Collected
  <2>2. /\ r.results = Append(q.results, [url |-> q.url, page |-> page])
        /\ r.robots = q.robots /\ r.barred = q.barred /\ r.at = "next"
    BY <2>1 DEF Good, Shaped
  <2>3. Unbarred(r) /\ \E S : r.results \in Seq(S)
    BY <2>2, OneMoreResult
  <2>4. Shaped(r)
    BY <2>1, <2>3 DEF Good, Shaped
  <2> QED
    BY <2>2, <2>3, <2>4 DEF Good, Vetted, Fetching
<1> QED
  BY <1>1, <1>2

LEMMA MissedGood ==
    ASSUME NEW q, Good(q), q.at \in {"vet", "dial"}
    PROVE  Good(Missed(q))
<1> DEFINE r == Missed(q)
<1>1. CASE q.aim = "robots"
  <2>1. r = [q EXCEPT !.at = "look", !.robots = "unreadable", !.clean = FALSE]
    BY <1>1 DEF Missed
  <2>2. Shaped(r) /\ r.at = "look" /\ r.results = q.results
    BY <2>1 DEF Good, Shaped
  <2>3. q.robots = "unread" /\ Found(r) = Found(q)
    BY <1>1, <2>2 DEF Good, Fetching, Found
  <2> QED
    BY <2>2, <2>3 DEF Good, Vetted, Fetching, Unbarred
<1>2. CASE q.aim # "robots"
  <2>1. r = [q EXCEPT !.at = "next", !.clean = FALSE]
    BY <1>2 DEF Missed
  <2>2. /\ Shaped(r) /\ r.at = "next" /\ r.results = q.results
        /\ r.robots = q.robots /\ r.barred = q.barred
    BY <2>1 DEF Good, Shaped
  <2>3. Unbarred(r)
    BY <2>2, SameResults
  <2> QED
    BY <2>2, <2>3 DEF Good, Vetted, Fetching
<1> QED
  BY <1>1, <1>2

LEMMA ReadGood ==
    ASSUME NEW q, NEW answer, Good(q), q.at = "dial", q.aim = "robots"
    PROVE  Good(Read(q, answer))
<1> DEFINE r == Read(q, answer)
<1>1. CASE answer.kind = "error"
  BY <1>1, MissedGood DEF Read
<1>2. CASE answer.kind # "error"
  <2>1. PICK bars : r = [q EXCEPT !.at = "look", !.robots = "read", !.barred = bars]
    <3>1. CASE answer.kind = "plain"
      <4>1. r = [q EXCEPT !.at = "look", !.robots = "read", !.barred = ToSet(answer.links)]
        BY <3>1 DEF Read
      <4> QED
        BY <4>1
    <3>2. CASE answer.kind # "plain"
      <4>1. r = [q EXCEPT !.at = "look", !.robots = "read", !.barred = {}]
        BY <1>2, <3>2 DEF Read
      <4> QED
        BY <4>1
    <3> QED
      BY <3>1, <3>2
  <2>2. Shaped(r) /\ r.at = "look" /\ r.results = q.results
    BY <2>1 DEF Good, Shaped
  <2>3. q.robots = "unread" /\ Found(r) = Found(q)
    BY <2>2 DEF Good, Fetching, Found
  <2> QED
    BY <2>2, <2>3 DEF Good, Vetted, Fetching, Unbarred
<1> QED
  BY <1>1, <1>2

LEMMA RedirectedGood ==
    ASSUME NEW q, NEW location, Good(q), q.at = "dial"
    PROVE  Good(Redirected(q, location))
<1> DEFINE r == Redirected(q, location)
<1>1. CASE q.hops = 0
  BY <1>1, MissedGood DEF Redirected
<1>2. CASE q.hops # 0
  <2>1. r = [q EXCEPT !.at = "vet", !.hop = location, !.hops = @ - 1]
    BY <1>2 DEF Redirected
  <2>2. /\ Shaped(r) /\ r.at = "vet" /\ r.results = q.results /\ r.aim = q.aim
        /\ r.robots = q.robots /\ r.barred = q.barred /\ r.url = q.url
    BY <2>1 DEF Good, Shaped
  <2>3. Unbarred(r)
    BY <2>2, SameResults
  <2> QED
    BY <2>2, <2>3 DEF Good, Vetted, Fetching, CanFetch
<1> QED
  BY <1>1, <1>2

-----------------------------------------------------------------------------
(* The steps, and the policy.                                               *)

LEMMA BeginIInv ==
    ASSUME IInv, NEW c \in Crawls, NEW limit \in Limits, Begin(c, limit)
    PROVE  IInv'
<1>1. CASE Permitted(Start)
  <2> DEFINE r == [Waiting EXCEPT
                     !.at = "next", !.limit = limit, !.queue = <<Start>>, !.seen = {Start},
                     !.after = {d \in Crawls : crawl[d].at = "done"}]
  <2>1. /\ Shaped(r) /\ r.at = "next" /\ r.results = Waiting.results
        /\ r.robots = Waiting.robots /\ r.barred = Waiting.barred
    <3> DEFINE after == {d \in Crawls : crawl[d].at = "done"}
               queue == <<Start>>
               seen == {Start}
    <3>1. r = [Waiting EXCEPT !.at = "next", !.limit = limit, !.queue = queue,
                              !.seen = seen, !.after = after]
      OBVIOUS
    <3>2. Shaped(Waiting)
      BY WaitingGood DEF Good
    <3> HIDE DEF r, after, queue, seen
    <3> QED
      BY <3>1, <3>2 DEF Shaped
  <2>2. Unbarred(r)
    BY <2>1, WaitingGood, SameResults
  <2>3. Good(r)
    BY <2>1, <2>2 DEF Good, Vetted, Fetching
  <2>4. Becomes(c, r)
    BY <1>1 DEF Begin
  <2> HIDE DEF r
  <2> QED
    BY <2>3, <2>4, BecomesIInv
<1>2. CASE ~Permitted(Start)
  <2> DEFINE r == [Waiting EXCEPT !.at = "dead"]
  <2>1. /\ Shaped(r) /\ r.at = "dead" /\ r.results = Waiting.results
        /\ r.robots = Waiting.robots /\ r.barred = Waiting.barred
    BY WaitingGood DEF Good, Shaped
  <2>2. Unbarred(r)
    BY <2>1, WaitingGood, SameResults
  <2>3. Good(r)
    BY <2>1, <2>2 DEF Good, Vetted, Fetching
  <2>4. Becomes(c, r)
    BY <1>2 DEF Begin
  <2> HIDE DEF r
  <2> QED
    BY <2>3, <2>4, BecomesIInv
<1> QED
  BY <1>1, <1>2

LEMMA DequeueIInv ==
    ASSUME IInv, NEW c \in Crawls, Dequeue(c)
    PROVE  IInv'
<1> DEFINE p == crawl[c]
           q == Popped(p)
<1>1. Good(p)
  BY DEF IInv
<1>2. /\ Shaped(q) /\ q.at = p.at /\ q.results = p.results
      /\ q.robots = p.robots /\ q.barred = p.barred
  <2> DEFINE queue == Tail(p.queue)
             url == Head(p.queue)
  <2>1. q = [p EXCEPT !.queue = queue, !.url = url]
    BY DEF Popped
  <2>2. Shaped(p)
    BY <1>1 DEF Good
  <2> HIDE DEF p, q, queue, url
  <2> QED
    BY <2>1, <2>2 DEF Shaped
<1>3. p.at = "next"
  BY DEF Dequeue
<1>4. PICK r : /\ Becomes(c, r)
               /\ \/ r = [q EXCEPT !.clean = FALSE]
                  \/ /\ q.robots = "unread"
                     /\ r = [q EXCEPT !.at = "vet", !.aim = "robots", !.hop = Robots,
                                      !.hops = MaxRedirects]
                  \/ r = [q EXCEPT !.at = "look"]
  BY DEF Dequeue
<1> HIDE DEF q
<1>5. CASE r = [q EXCEPT !.clean = FALSE]
  <2>1. /\ Shaped(r) /\ r.at = "next" /\ r.results = p.results
        /\ r.robots = p.robots /\ r.barred = p.barred
    BY <1>2, <1>3, <1>5 DEF Shaped
  <2>2. Unbarred(r)
    BY <1>1, <2>1, SameResults
  <2> QED
    BY <1>4, <2>1, <2>2, BecomesIInv DEF Good, Vetted, Fetching
<1>6. CASE /\ q.robots = "unread"
           /\ r = [q EXCEPT !.at = "vet", !.aim = "robots", !.hop = Robots,
                            !.hops = MaxRedirects]
  <2>1. /\ Shaped(r) /\ r.at = "vet" /\ r.results = p.results /\ r.aim = "robots"
        /\ r.robots = p.robots /\ r.barred = p.barred
    BY <1>2, <1>6 DEF Shaped
  <2>2. Unbarred(r)
    BY <1>1, <2>1, SameResults
  <2> QED
    BY <1>2, <1>4, <1>6, <2>1, <2>2, BecomesIInv DEF Good, Vetted, Fetching
<1>7. CASE r = [q EXCEPT !.at = "look"]
  <2>1. /\ Shaped(r) /\ r.at = "look" /\ r.results = p.results
        /\ r.robots = p.robots /\ r.barred = p.barred
    BY <1>2, <1>7 DEF Shaped
  <2>2. Unbarred(r)
    BY <1>1, <2>1, SameResults
  <2> QED
    BY <1>4, <2>1, <2>2, BecomesIInv DEF Good, Vetted, Fetching
<1> QED
  BY <1>4, <1>5, <1>6, <1>7

LEMMA LookIInv ==
    ASSUME IInv, NEW c \in Crawls, Look(c)
    PROVE  IInv'
<1> DEFINE q == crawl[c]
<1>1. Good(q) /\ q.at = "look"
  BY DEF IInv, Look
<1>2. CASE ~CanFetch(q)
  <2> DEFINE r == [q EXCEPT !.at = "next"]
  <2>1. /\ Shaped(r) /\ r.at = "next" /\ r.results = q.results
        /\ r.robots = q.robots /\ r.barred = q.barred
    BY <1>1 DEF Good, Shaped
  <2>2. Unbarred(r)
    BY <1>1, <2>1, SameResults
  <2>3. Good(r)
    BY <2>1, <2>2 DEF Good, Vetted, Fetching
  <2>4. Becomes(c, r)
    BY <1>2 DEF Look
  <2> HIDE DEF r
  <2> QED
    BY <2>3, <2>4, BecomesIInv
<1>3. CASE CanFetch(q) /\ Cached(q.url)
  <2>1. Becomes(c, Collected(q, cache[q.url]))
    BY <1>3 DEF Look
  <2>2. Good(Collected(q, cache[q.url]))
    BY <1>1, <1>3, CollectedGood
  <2> QED
    BY <2>1, <2>2, BecomesIInv
<1>4. CASE CanFetch(q) /\ ~Cached(q.url)
  <2> DEFINE r == [q EXCEPT !.at = "vet", !.aim = "page", !.hop = q.url,
                            !.hops = MaxRedirects]
  <2>1. /\ Shaped(r) /\ r.at = "vet" /\ r.aim = "page" /\ r.results = q.results
        /\ r.robots = q.robots /\ r.barred = q.barred /\ r.url = q.url
    <3> DEFINE hop == q.url
    <3>1. r = [q EXCEPT !.at = "vet", !.aim = "page", !.hop = hop, !.hops = MaxRedirects]
      OBVIOUS
    <3>2. Shaped(q)
      BY <1>1 DEF Good
    <3> HIDE DEF q, r, hop
    <3> QED
      BY <3>1, <3>2 DEF Shaped
  <2>2. Unbarred(r)
    BY <1>1, <2>1, SameResults
  <2>3. Good(r)
    BY <1>4, <2>1, <2>2 DEF Good, Vetted, Fetching, CanFetch
  <2>4. Becomes(c, r)
    BY <1>4 DEF Look
  <2> HIDE DEF r
  <2> QED
    BY <2>3, <2>4, BecomesIInv
<1> QED
  BY <1>2, <1>3, <1>4

LEMMA VetIInv ==
    ASSUME IInv, NEW c \in Crawls, Vet(c)
    PROVE  IInv'
<1> DEFINE q == crawl[c]
<1>1. Good(q) /\ q.at = "vet"
  BY DEF IInv, Vet
<1>2. CASE Permitted(q.hop)
  <2>1. PICK a \in dns[HostOf[q.hop]] : Becomes(c, [q EXCEPT !.at = "dial", !.address = a])
    BY <1>2 DEF Vet
  <2> DEFINE r == [q EXCEPT !.at = "dial", !.address = a]
  <2>2. /\ Shaped(r) /\ r.at = "dial" /\ r.aim = q.aim /\ r.results = q.results
        /\ r.robots = q.robots /\ r.barred = q.barred /\ r.url = q.url
        /\ r.hop = q.hop /\ r.address = a
    <3>1. r = [q EXCEPT !.at = "dial", !.address = a]
      OBVIOUS
    <3>2. Shaped(q)
      BY <1>1 DEF Good
    <3> HIDE DEF q, r
    <3> QED
      BY <3>1, <3>2 DEF Shaped
  <2>3. Unbarred(r)
    BY <1>1, <2>2, SameResults
  <2>4. Vetted(r)
    BY <1>2, <2>1, <2>2 DEF Vetted, Permitted, Public
  <2>5. Good(r)
    BY <1>1, <2>2, <2>3, <2>4 DEF Good, Fetching, CanFetch
  <2>6. Becomes(c, r)
    BY <2>1
  <2> HIDE DEF r
  <2> QED
    BY <2>5, <2>6, BecomesIInv
<1>3. CASE ~Permitted(q.hop)
  <2>1. Becomes(c, Missed(q))
    BY <1>3 DEF Vet
  <2>2. Good(Missed(q))
    BY <1>1, MissedGood
  <2> QED
    BY <2>1, <2>2, BecomesIInv
<1> QED
  BY <1>2, <1>3

LEMMA DialIInv ==
    ASSUME IInv, NEW c \in Crawls, Dial(c)
    PROVE  IInv'
<1> DEFINE q == crawl[c]
           answer == site[q.hop]
<1>1. Good(q) /\ q.at = "dial"
  BY DEF IInv, Dial
<1>2. \/ Becomes(c, Redirected(q, Head(answer.links)))
      \/ q.aim = "robots" /\ Becomes(c, Read(q, answer))
      \/ q.aim = "page" /\ Becomes(c, [q EXCEPT !.at = "open", !.page = Page(answer)])
      \/ Becomes(c, Missed(q))
  BY DEF Dial
<1>3. Good(Redirected(q, Head(answer.links)))
  BY <1>1, RedirectedGood
<1>4. q.aim = "robots" => Good(Read(q, answer))
  BY <1>1, ReadGood
<1>5. Good(Missed(q))
  BY <1>1, MissedGood
<1>6. ASSUME q.aim = "page"
      PROVE  Good([q EXCEPT !.at = "open", !.page = Page(answer)])
  <2> DEFINE r == [q EXCEPT !.at = "open", !.page = Page(answer)]
  <2>1. /\ Shaped(r) /\ r.at = "open" /\ r.aim = "page" /\ r.results = q.results
        /\ r.robots = q.robots /\ r.barred = q.barred /\ r.url = q.url
    <3> DEFINE page == Page(answer)
    <3>1. r = [q EXCEPT !.at = "open", !.page = page]
      OBVIOUS
    <3>2. Shaped(q)
      BY <1>1 DEF Good
    <3> HIDE DEF q, r, page
    <3> QED
      BY <1>6, <3>1, <3>2 DEF Shaped
  <2>2. Unbarred(r)
    BY <1>1, <2>1, SameResults
  <2> QED
    BY <1>1, <1>6, <2>1, <2>2 DEF Good, Vetted, Fetching, CanFetch
<1> QED
  BY <1>2, <1>3, <1>4, <1>5, <1>6, BecomesIInv

LEMMA RestIInv ==
    ASSUME IInv, NEW c \in Crawls,
           Finish(c) \/ NoAnswer(c) \/ OpenFile(c) \/ WriteFile(c) \/ Die(c)
    PROVE  IInv'
<1> DEFINE q == crawl[c]
<1>1. Good(q)
  BY DEF IInv
<1>2. ASSUME NEW at \in {"done", "dead"}, Becomes(c, [q EXCEPT !.at = at])
      PROVE  IInv'
  <2> DEFINE r == [q EXCEPT !.at = at]
  <2>1. /\ Shaped(r) /\ r.at = at /\ r.results = q.results
        /\ r.robots = q.robots /\ r.barred = q.barred
    BY <1>1 DEF Good, Shaped
  <2>2. Unbarred(r)
    BY <1>1, <2>1, SameResults
  <2>3. Good(r)
    BY <2>1, <2>2 DEF Good, Vetted, Fetching
  <2> QED
    BY <1>2, <2>3, BecomesIInv
<1>3. CASE Finish(c)
  BY <1>2, <1>3 DEF Finish
<1>4. CASE Die(c)
  BY <1>2, <1>4 DEF Die
<1>5. CASE NoAnswer(c)
  <2>1. Good(Missed(q)) /\ Becomes(c, Missed(q))
    BY <1>1, <1>5, MissedGood DEF NoAnswer
  <2> QED
    BY <2>1, BecomesIInv
<1>6. CASE OpenFile(c)
  <2> DEFINE r == [q EXCEPT !.at = "write"]
  <2>1. /\ Shaped(r) /\ r.at = "write" /\ r.results = q.results /\ r.aim = q.aim
        /\ r.robots = q.robots /\ r.barred = q.barred /\ r.url = q.url
    BY <1>1 DEF Good, Shaped
  <2>2. Unbarred(r)
    BY <1>1, <2>1, SameResults
  <2>3. q.at = "open" /\ Becomes(c, r)
    BY <1>6 DEF OpenFile
  <2>4. Good(r)
    BY <1>1, <2>1, <2>2, <2>3 DEF Good, Vetted, Fetching, CanFetch
  <2> HIDE DEF r
  <2> QED
    BY <2>3, <2>4, BecomesIInv
<1>7. CASE WriteFile(c)
  <2>1. q.at = "write" /\ Becomes(c, Collected(q, q.page))
    BY <1>7 DEF WriteFile
  <2>2. CanFetch(q)
    BY <1>1, <2>1 DEF Good, Fetching
  <2>3. Good(Collected(q, q.page))
    BY <1>1, <2>2, CollectedGood
  <2> QED
    BY <2>1, <2>3, BecomesIInv
<1> QED
  BY <1>3, <1>4, <1>5, <1>6, <1>7

LEMMA NextIInv == IInv /\ [Next]_vars => IInv'
<1> SUFFICES ASSUME IInv, [Next]_vars PROVE IInv'
  OBVIOUS
<1>1. CASE UNCHANGED crawl
  <2>1. crawl' = crawl
    BY <1>1
  <2> QED
    BY <2>1 DEF IInv
<1>2. ASSUME NEW c \in Crawls, NEW limit \in Limits, Begin(c, limit) PROVE IInv'
  BY <1>2, BeginIInv
<1>3. ASSUME NEW c \in Crawls, Step(c) PROVE IInv'
  BY <1>3, DequeueIInv, LookIInv, VetIInv, DialIInv, RestIInv DEF Step
<1>4. ASSUME NEW c \in Crawls, Die(c) PROVE IInv'
  BY <1>4, RestIInv
<1> QED
  BY <1>1, <1>2, <1>3, <1>4 DEF Next, Change, vars

(* For every site, however it changes and whatever its names come to resolve *)
(* to: a crawl dials no address but those it vetted, on any hop, and fetches *)
(* no page before it has read a robots.txt that allows it.                   *)
THEOREM PolicyHolds == Spec => []PolicyKept
<1>1. IInv => PolicyKept
  BY DEF IInv, Good, Vetted, Fetching, Unbarred, PolicyKept
<1> QED
  BY <1>1, InitIInv, NextIInv, PTL DEF Spec

-----------------------------------------------------------------------------
(* Induction, as facts about sets of numbers.                               *)

\* A set of numbers has a least one.
LEMMA Least ==
    ASSUME NEW S, S \subseteq Nat, S # {}
    PROVE  \E m \in S : \A n \in S : m <= n
<1> DEFINE R == OpToRel(<, Nat)
<1>1. IsWellFoundedOn(R, Nat)
  BY NatLessThanWellFounded
<1>2. PICK m \in S : \A n \in S : ~ (<<n, m>> \in R)
  BY <1>1, WFMin
<1>3. \A n \in S : ~(n < m)
  BY <1>2 DEF OpToRel
<1> QED BY <1>3

\* What holds of 0 and of each number's successor holds up to N.
LEMMA UpTo ==
    ASSUME NEW N \in Nat, NEW S, 0 \in S, \A n \in 0..(N - 1) : n \in S => n + 1 \in S
    PROVE  0..N \subseteq S
<1> SUFFICES ASSUME NEW k \in 0..N, k \notin S PROVE FALSE
  OBVIOUS
<1> DEFINE T == {n \in 0..N : n \notin S}
<1>1. T \subseteq Nat /\ T # {}
  OBVIOUS
<1>2. PICK m \in T : \A n \in T : m <= n
  BY <1>1, Least
<1>3. m # 0 /\ m \in 1..N /\ m - 1 \in 0..(N - 1) /\ m - 1 \in 0..N
  BY <1>2
<1>4. m - 1 \in S
  BY <1>2, <1>3
<1>5. (m - 1) + 1 \in S /\ (m - 1) + 1 = m
  BY <1>3, <1>4
<1> QED BY <1>2, <1>5

\* f is defined by recursion on 0..N: f[n] is the n-th step from f[n - 1].
Recursive(f, N, V, base, step) ==
    f \in [0..N -> V] /\ f[0] = base /\ \A n \in 1..N : f[n] = step[n][f[n - 1]]

\* A function on 0..N may be defined by recursion over a set.
LEMMA RecursionExists ==
    ASSUME NEW N \in Nat, NEW V, NEW base \in V, NEW step \in [1..N -> [V -> V]]
    PROVE  \E f : Recursive(f, N, V, base, step)
<1> DEFINE S == {m \in 0..N : \E f \in [0..m -> V] :
                    f[0] = base /\ \A n \in 1..m : f[n] = step[n][f[n - 1]]}
<1>1. 0 \in S
  <2> DEFINE f == [n \in 0..0 |-> base]
  <2>1. f \in [0..0 -> V] /\ f[0] = base /\ \A n \in 1..0 : f[n] = step[n][f[n - 1]]
    OBVIOUS
  <2>2. 0 \in 0..N
    OBVIOUS
  <2> HIDE DEF f
  <2> QED BY <2>1, <2>2
<1>2. ASSUME NEW m \in 0..(N - 1), m \in S
      PROVE  m + 1 \in S
  <2>1. PICK f \in [0..m -> V] : f[0] = base /\ \A n \in 1..m : f[n] = step[n][f[n - 1]]
    BY <1>2
  <2> DEFINE g == [n \in 0..(m + 1) |-> IF n = m + 1 THEN step[m + 1][f[m]] ELSE f[n]]
  <2>2. m + 1 \in 1..N /\ m \in 0..m /\ m + 1 \in 0..N /\ m + 1 \in 0..(m + 1)
    OBVIOUS
  <2>3. step[m + 1][f[m]] \in V
    BY <2>1, <2>2
  <2>4. \A n \in 0..(m + 1) : n = m + 1 \/ n \in 0..m
    OBVIOUS
  <2>5. g \in [0..(m + 1) -> V]
    BY <2>1, <2>3, <2>4
  <2>6. 0 \in 0..(m + 1) /\ g[0] = base
    BY <2>1
  <2>7. ASSUME NEW n \in 1..(m + 1) PROVE g[n] = step[n][g[n - 1]]
    <3>1. CASE n = m + 1
      <4>1. n - 1 = m /\ m \in 0..(m + 1) /\ m # m + 1
        BY <3>1
      <4>2. g[n - 1] = f[m] /\ g[n] = step[m + 1][f[m]]
        BY <2>2, <3>1, <4>1
      <4> QED BY <3>1, <4>2
    <3>2. CASE n # m + 1
      <4>1. n \in 1..m /\ n - 1 \in 0..m /\ n \in 0..(m + 1) /\ n - 1 \in 0..(m + 1)
            /\ n - 1 # m + 1
        BY <3>2
      <4>2. g[n] = f[n] /\ g[n - 1] = f[n - 1]
        BY <3>2, <4>1
      <4> QED BY <2>1, <4>1, <4>2
    <3> QED BY <3>1, <3>2
  <2> HIDE DEF g
  <2> QED BY <2>2, <2>5, <2>6, <2>7
<1> HIDE DEF S
<1>3. 0..N \subseteq S
  BY <1>1, <1>2, UpTo
<1>4. N \in S
  BY <1>3
<1> QED BY <1>4 DEF S, Recursive

-----------------------------------------------------------------------------
(* The frontier.                                                           *)

Frontiers == [queue : Seq(Urls), seen : SUBSET Urls]

\* From a frontier with this queue and these seen to g by links of L.
Grown(queue, seen, g, L, limit) ==
    /\ g \in Frontiers
    /\ seen \subseteq g.seen
    /\ Len(queue) <= Len(g.queue)
    /\ \A i \in 1..Len(queue) : g.queue[i] = queue[i]
    /\ \A i \in (Len(queue) + 1)..Len(g.queue) :
          g.queue[i] \in L /\ g.queue[i] \notin seen /\ g.queue[i] \in g.seen
    /\ \A i, j \in (Len(queue) + 1)..Len(g.queue) : i # j => g.queue[i] # g.queue[j]
    /\ \A u \in g.seen \ seen : HostOf[u] = HostOf[Start] /\ u \notin Skipped
    /\ IsFiniteSet(g.seen) /\ Cardinality(g.seen) <= 4 * limit

\* No link is lost short of the bound.
Followed(g, u, limit) ==
    \/ u \in g.seen \/ u \in Skipped \/ HostOf[u] # HostOf[Start]
    \/ Cardinality(g.seen) >= 4 * limit

LEMMA LinkGrows ==
    ASSUME NEW queue \in Seq(Urls), NEW seen \in SUBSET Urls, NEW L, NEW limit \in Nat,
           NEW g, Grown(queue, seen, g, L, limit), NEW u \in Urls, u \in L
    PROVE  /\ Grown(queue, seen, Link(g, u, limit), L, limit)
           /\ Followed(Link(g, u, limit), u, limit)
           /\ \A v \in Urls : Followed(g, v, limit) => Followed(Link(g, u, limit), v, limit)
<1> DEFINE h == Link(g, u, limit)
<1>1. CASE h = g
  <2>1. Followed(g, u, limit)
    <3>1. CASE \/ Cardinality(g.seen) >= 4 * limit \/ HostOf[u] # HostOf[Start]
               \/ u \in g.seen \/ u \in Skipped
      BY <3>1 DEF Followed
    <3>2. CASE ~(\/ Cardinality(g.seen) >= 4 * limit \/ HostOf[u] # HostOf[Start]
                 \/ u \in g.seen \/ u \in Skipped)
      <4>1. h = [queue |-> Append(g.queue, u), seen |-> g.seen \cup {u}]
        BY <3>2 DEF Link
      <4>2. h.seen = g.seen \cup {u}
        BY <4>1
      <4> QED BY <1>1, <4>2 DEF Followed
    <3> QED BY <3>1, <3>2
  <2> HIDE DEF h
  <2> QED BY <1>1, <2>1 DEF h
<1>2. CASE h # g
  <2>1. /\ Cardinality(g.seen) < 4 * limit /\ HostOf[u] = HostOf[Start]
        /\ u \notin g.seen /\ u \notin Skipped
        /\ h = [queue |-> Append(g.queue, u), seen |-> g.seen \cup {u}]
    <3>1. ~(\/ Cardinality(g.seen) >= 4 * limit \/ HostOf[u] # HostOf[Start]
            \/ u \in g.seen \/ u \in Skipped)
      BY <1>2 DEF Link
    <3>2. Cardinality(g.seen) \in Nat
      BY FS_CardinalityType DEF Grown
    <3> QED BY <3>1, <3>2 DEF Link
  <2> HIDE DEF h
  <2>2. /\ g.queue \in Seq(Urls) /\ g.seen \in SUBSET Urls /\ Len(g.queue) \in Nat
        /\ Len(queue) \in Nat
        /\ h.queue = Append(g.queue, u) /\ h.seen = g.seen \cup {u}
    BY <2>1 DEF Grown, Frontiers
  <2>3. /\ Len(h.queue) = Len(g.queue) + 1 /\ h.queue[Len(g.queue) + 1] = u
        /\ \A i \in 1..Len(g.queue) : h.queue[i] = g.queue[i]
    BY <2>2
  <2>4. h \in Frontiers
    BY <2>1, <2>2 DEF Frontiers
  <2>5. /\ IsFiniteSet(h.seen) /\ Cardinality(h.seen) = Cardinality(g.seen) + 1
        /\ Cardinality(g.seen) \in Nat
    <3>1. IsFiniteSet(g.seen)
      BY DEF Grown
    <3>2. /\ IsFiniteSet(g.seen \cup {u})
          /\ Cardinality(g.seen \cup {u}) =
                IF u \in g.seen THEN Cardinality(g.seen) ELSE Cardinality(g.seen) + 1
      BY <3>1, FS_AddElement
    <3>3. Cardinality(g.seen) \in Nat
      BY <3>1, FS_CardinalityType
    <3> QED BY <2>1, <2>2, <3>2, <3>3
  <2>6. \A i \in (Len(queue) + 1)..Len(h.queue) :
           \/ i = Len(g.queue) + 1
           \/ i \in (Len(queue) + 1)..Len(g.queue) /\ i \in 1..Len(g.queue)
    BY <2>2, <2>3
  <2>7. \A i \in (Len(queue) + 1)..Len(h.queue) :
           h.queue[i] \in L /\ h.queue[i] \notin seen /\ h.queue[i] \in h.seen
    BY <2>1, <2>2, <2>3, <2>6 DEF Grown
  <2>8. \A i, j \in (Len(queue) + 1)..Len(h.queue) : i # j => h.queue[i] # h.queue[j]
    <3>1. \A i \in (Len(queue) + 1)..Len(g.queue) : g.queue[i] \in g.seen
      BY DEF Grown
    <3> QED BY <2>1, <2>2, <2>3, <2>6, <3>1 DEF Grown
  <2>9. \A i \in 1..Len(queue) : h.queue[i] = queue[i]
    BY <2>2, <2>3 DEF Grown
  <2>10. Grown(queue, seen, h, L, limit)
    BY <2>1, <2>2, <2>3, <2>4, <2>5, <2>7, <2>8, <2>9 DEF Grown
  <2>11. Followed(h, u, limit)
    BY <2>2 DEF Followed
  <2>12. \A v \in Urls : Followed(g, v, limit) => Followed(h, v, limit)
    BY <2>2, <2>5 DEF Followed
  <2> QED BY <2>10, <2>11, <2>12 DEF h
<1> QED BY <1>1, <1>2

LEMMA FrontierGrows ==
    ASSUME NEW queue \in Seq(Urls), NEW seen \in SUBSET Urls, NEW limit \in Nat,
           IsFiniteSet(seen), Cardinality(seen) <= 4 * limit, NEW links \in Seq(Urls)
    PROVE  /\ Grown(queue, seen, Frontier(queue, seen, limit, links), ToSet(links), limit)
           /\ \A u \in ToSet(links) : Followed(Frontier(queue, seen, limit, links), u, limit)
<1> DEFINE N == Len(links)
           base == [queue |-> queue, seen |-> seen]
           step == [n \in 1..N |-> [g \in Frontiers |-> Link(g, links[n], limit)]]
           Fixed(f) == f = [n \in 0..N |->
                              IF n = 0 THEN base ELSE Link(f[n - 1], links[n], limit)]
<1>1. N \in Nat /\ base \in Frontiers /\ \A n \in 1..N : links[n] \in Urls
  BY DEF Frontiers
<1>2. step \in [1..N -> [Frontiers -> Frontiers]]
  <2>1. ASSUME NEW n \in 1..N, NEW g \in Frontiers
        PROVE  Link(g, links[n], limit) \in Frontiers
    BY <1>1 DEF Link, Frontiers
  <2> QED BY <2>1
<1>3. \E f : Fixed(f)
  <2> HIDE DEF step, base, N
  <2>0. PICK f : Recursive(f, N, Frontiers, base, step)
    BY <1>1, <1>2, RecursionExists
  <2>1. /\ f \in [0..N -> Frontiers]
        /\ f[0] = base /\ \A n \in 1..N : f[n] = step[n][f[n - 1]]
    BY <2>0 DEF Recursive
  <2>2. ASSUME NEW n \in 0..N
        PROVE  f[n] = IF n = 0 THEN base ELSE Link(f[n - 1], links[n], limit)
    <3>1. CASE n = 0
      BY <2>1, <3>1
    <3>2. CASE n # 0
      <4>1. n \in 1..N /\ n - 1 \in 0..N
        BY <1>1, <3>2
      <4>2. step[n][f[n - 1]] = Link(f[n - 1], links[n], limit)
        BY <2>1, <4>1 DEF step
      <4> QED BY <2>1, <3>2, <4>1, <4>2
    <3> QED BY <3>1, <3>2
  <2>3. Fixed(f)
    BY <2>1, <2>2
  <2> QED BY <2>3
<1> DEFINE f == CHOOSE f : Fixed(f)
<1>4. Fixed(f)
  BY <1>3
<1>5. Frontier(queue, seen, limit, links) = f[N]
  BY DEF Frontier
<1> HIDE DEF f
<1>6. f[0] = base /\ \A n \in 1..N : f[n] = Link(f[n - 1], links[n], limit)
  <2>1. \A n \in 0..N : f[n] = IF n = 0 THEN base ELSE Link(f[n - 1], links[n], limit)
    BY <1>4
  <2> QED BY <1>1, <2>1
<1> HIDE DEF base, step, Fixed
<1> DEFINE Holds(n) == /\ Grown(queue, seen, f[n], ToSet(links), limit)
                      /\ \A i \in 1..n : Followed(f[n], links[i], limit)
           S == {n \in 0..N : Holds(n)}
<1>7. 0 \in S
  <2>1. Grown(queue, seen, base, ToSet(links), limit)
    <3>1. base.queue = queue /\ base.seen = seen /\ Len(queue) \in Nat
      BY DEF base
    <3> QED BY <1>1, <3>1 DEF Grown
  <2> QED BY <1>1, <1>6, <2>1
<1>8. ASSUME NEW n \in 0..(N - 1), n \in S
      PROVE  n + 1 \in S
  <2>1. n + 1 \in 1..N /\ n + 1 \in 0..N /\ n \in 0..N /\ (n + 1) - 1 = n
    BY <1>1
  <2>2. f[n + 1] = Link(f[n], links[n + 1], limit)
    BY <1>6, <2>1
  <2>3. links[n + 1] \in ToSet(links) /\ links[n + 1] \in Urls
    BY <1>1, <2>1 DEF ToSet
  <2>4. /\ Grown(queue, seen, f[n], ToSet(links), limit)
        /\ \A i \in 1..n : Followed(f[n], links[i], limit)
    BY <1>8
  <2>5. /\ Grown(queue, seen, f[n + 1], ToSet(links), limit)
        /\ Followed(f[n + 1], links[n + 1], limit)
        /\ \A v \in Urls : Followed(f[n], v, limit) => Followed(f[n + 1], v, limit)
    BY <2>2, <2>3, <2>4, LinkGrows
  <2>6. \A i \in 1..(n + 1) : i = n + 1 \/ (i \in 1..n /\ links[i] \in Urls)
    BY <1>1, <2>1
  <2>7. \A i \in 1..(n + 1) : Followed(f[n + 1], links[i], limit)
    BY <2>4, <2>5, <2>6
  <2> QED BY <2>1, <2>5, <2>7
<1> HIDE DEF S
<1>9. N \in S
  <2>1. 0..N \subseteq S
    BY <1>1, <1>7, <1>8, UpTo
  <2> QED BY <1>1, <2>1
<1>10. Holds(N)
  BY <1>9 DEF S
<1>11. \A u \in ToSet(links) : \E i \in 1..N : u = links[i]
  BY <1>1 DEF ToSet
<1> QED BY <1>5, <1>10, <1>11

-----------------------------------------------------------------------------
(* What a step does to a crawl, and the types.                              *)

\* It begins, or its seed is refused.
Began(r) ==
    /\ r.results = <<>> /\ ~InHand(r)
    /\ \/ r.limit \in Nat \ {0} /\ r.queue = <<Start>> /\ r.seen = {Start}
       \/ r.limit = 0 /\ r.queue = <<>> /\ r.seen = {}

\* It goes on with the URL in hand, or is done with it.
Kept(q, r) ==
    /\ r.limit = q.limit /\ r.queue = q.queue /\ r.seen = q.seen /\ r.results = q.results
    /\ InHand(r) => InHand(q) /\ r.url = q.url

\* It takes a URL from the queue.
Taken(q, r) ==
    /\ ~InHand(q) /\ More(q)
    /\ r.limit = q.limit /\ r.seen = q.seen /\ r.results = q.results
    /\ r.queue = Tail(q.queue) /\ r.url = Head(q.queue)

\* The URL in hand gives a result, and the frontier grows by its links.
Added(q, r, page) ==
    /\ InHand(q) /\ ~InHand(r) /\ page \in Pages
    /\ \A i \in DOMAIN q.results : q.results[i].page.text # page.text
    /\ r.limit = q.limit /\ r.results = Append(q.results, [url |-> q.url, page |-> page])
    /\ r.queue = Frontier(q.queue, q.seen, q.limit, page.links).queue
    /\ r.seen = Frontier(q.queue, q.seen, q.limit, page.links).seen

Move(q, r) ==
    \/ Began(r) \/ Kept(q, r) \/ Taken(q, r)
    \/ q.at = "look" /\ Cached(q.url) /\ Added(q, r, cache[q.url])
    \/ q.at = "write" /\ Added(q, r, q.page)

Bounded(q) == IsFiniteSet(q.seen) /\ Cardinality(q.seen) <= 4 * q.limit

LEMMA StateFields ==
    ASSUME NEW q \in States
    PROVE  /\ q.limit \in Nat /\ q.queue \in Seq(Urls) /\ q.seen \in SUBSET Urls
           /\ q.results \in Seq([url : Urls, page : Pages]) /\ q.url \in Urls
           /\ q.hop \in Urls /\ q.page \in Pages
  BY DEF States

LEMMA WaitingType == Waiting \in States
<1>1. Absent \in Pages
  BY DEF Absent, Pages
<1>2. Start \in Urls
  BY NamesAssumption
<1> QED BY <1>1, <1>2 DEF Waiting, States

LEMMA MissedMoves ==
    ASSUME NEW q \in States, q.at \in {"vet", "dial"}
    PROVE  Missed(q) \in States /\ Kept(q, Missed(q))
<1>1. Missed(q) \in States
  BY DEF Missed, States
<1>2. Kept(q, Missed(q))
  BY DEF Missed, States, Kept, InHand
<1> QED BY <1>1, <1>2

LEMMA CollectedMoves ==
    ASSUME NEW q \in States, Bounded(q), InHand(q), NEW page \in Pages
    PROVE  /\ Collected(q, page) \in States
           /\ Kept(q, Collected(q, page)) \/ Added(q, Collected(q, page), page)
<1> DEFINE r == Collected(q, page)
           f == Frontier(q.queue, q.seen, q.limit, page.links)
           e == [url |-> q.url, page |-> page]
<1>1. CASE \E i \in DOMAIN q.results : q.results[i].page.text = page.text
  <2>1. r = [q EXCEPT !.at = "next"]
    BY <1>1 DEF Collected
  <2> HIDE DEF r
  <2>2. r \in States /\ Kept(q, r)
    BY <2>1 DEF States, Kept, InHand
  <2> QED BY <2>2 DEF r
<1>2. CASE ~\E i \in DOMAIN q.results : q.results[i].page.text = page.text
  <2>1. r = [q EXCEPT !.at = "next", !.results = Append(@, e),
                      !.queue = f.queue, !.seen = f.seen]
    BY <1>2 DEF Collected
  <2>2. page.links \in Seq(Urls)
    BY DEF Pages
  <2>3. f \in Frontiers
    BY <2>2, StateFields, FrontierGrows DEF Bounded, Grown
  <2>4. e \in [url : Urls, page : Pages]
    BY StateFields
  <2>5. Append(q.results, e) \in Seq([url : Urls, page : Pages])
    <3> DEFINE S == [url : Urls, page : Pages]
    <3>1. q.results \in Seq(S) /\ e \in S
      BY <2>4, StateFields
    <3> HIDE DEF S, e
    <3>2. Append(q.results, e) \in Seq(S)
      BY <3>1
    <3> QED BY <3>2 DEF S
  <2> DEFINE queue == f.queue
             seen == f.seen
             results == Append(q.results, e)
  <2>6. queue \in Seq(Urls) /\ seen \in SUBSET Urls
    BY <2>3 DEF Frontiers
  <2>7. r = [q EXCEPT !.at = "next", !.results = results, !.queue = queue, !.seen = seen]
    BY <2>1
  <2> HIDE DEF queue, seen, results, r
  <2>8. r \in States
    BY <2>5, <2>6, <2>7 DEF States, results
  <2>9. /\ ~InHand(r) /\ r.limit = q.limit /\ r.results = results
        /\ r.queue = queue /\ r.seen = seen
    BY <2>7 DEF States, InHand
  <2>10. Added(q, r, page)
    BY <1>2, <2>9 DEF Added, queue, seen, results
  <2> QED BY <2>8, <2>10 DEF r
<1> QED BY <1>1, <1>2

LEMMA RedirectedMoves ==
    ASSUME NEW q \in States, q.at = "dial", NEW location \in Urls
    PROVE  Redirected(q, location) \in States /\ Kept(q, Redirected(q, location))
<1>1. CASE q.hops = 0
  BY <1>1, MissedMoves DEF Redirected
<1>2. CASE q.hops # 0
  <2>1. q.hops \in Nat /\ q.hops - 1 \in Nat
    BY <1>2 DEF States
  <2> DEFINE hops == q.hops - 1
             r == Redirected(q, location)
  <2>2. r = [q EXCEPT !.at = "vet", !.hop = location, !.hops = hops]
    BY <1>2, <2>1 DEF Redirected, States
  <2> HIDE DEF hops, r
  <2>3. hops \in Nat
    BY <2>1 DEF hops
  <2>4. r \in States /\ Kept(q, r)
    BY <2>2, <2>3 DEF States, Kept, InHand
  <2> QED BY <2>4 DEF r
<1> QED BY <1>1, <1>2

LEMMA ReadMoves ==
    ASSUME NEW q \in States, q.at = "dial", NEW answer \in Answers
    PROVE  Read(q, answer) \in States /\ Kept(q, Read(q, answer))
<1> DEFINE r == Read(q, answer)
<1>1. CASE answer.kind = "error"
  BY <1>1, MissedMoves DEF Read
<1>2. CASE answer.kind # "error"
  <2>1. answer.links \in Seq(Urls)
    BY DEF Answers
  <2>2. ToSet(answer.links) \in SUBSET Urls
    BY <2>1 DEF ToSet
  <2>3. PICK bars \in SUBSET Urls :
           r = [q EXCEPT !.at = "look", !.robots = "read", !.barred = bars]
    <3>1. CASE answer.kind = "plain"
      <4>1. r = [q EXCEPT !.at = "look", !.robots = "read", !.barred = ToSet(answer.links)]
        BY <3>1 DEF Read
      <4> QED BY <2>2, <4>1
    <3>2. CASE answer.kind # "plain"
      <4>1. r = [q EXCEPT !.at = "look", !.robots = "read", !.barred = {}]
        BY <1>2, <3>2 DEF Read
      <4> QED BY <4>1
    <3> QED BY <3>1, <3>2
  <2> HIDE DEF r
  <2>4. r \in States /\ Kept(q, r)
    BY <2>3 DEF States, Kept, InHand
  <2> QED BY <2>4 DEF r
<1> QED BY <1>1, <1>2

\* The types, and what the type of a frontier rests on.
Tidy == TypeOK /\ \A c \in Crawls : Bounded(crawl[c])

LEMMA BecomesType ==
    ASSUME TypeOK, NEW c \in Crawls, NEW q \in States, Becomes(c, q)
    PROVE  /\ crawl' \in [Crawls -> States] /\ crawl'[c] = q
           /\ \A d \in Crawls \ {c} : crawl'[d] = crawl[d]
  BY DEF TypeOK, Becomes

\* Crawl c has made a move, and no other.
Stepped(c) ==
    /\ crawl' \in [Crawls -> States] /\ Move(crawl[c], crawl'[c])
    /\ \A d \in Crawls \ {c} : crawl'[d] = crawl[d]

LEMMA BeginMoves ==
    ASSUME Tidy, NEW c \in Crawls, NEW limit \in Limits, Begin(c, limit)
    PROVE  Stepped(c)
<1>0. limit \in Nat \ {0} /\ Start \in Urls /\ Waiting \in States
  BY LimitsAssumption, NamesAssumption, WaitingType
<1>1. CASE Permitted(Start)
  <2> DEFINE after == {d \in Crawls : crawl[d].at = "done"}
             queue == <<Start>>
             seen == {Start}
             r == [Waiting EXCEPT !.at = "next", !.limit = limit, !.queue = queue,
                                  !.seen = seen, !.after = after]
  <2>1. Becomes(c, r)
    BY <1>1 DEF Begin
  <2>2. after \in SUBSET Crawls /\ queue \in Seq(Urls) /\ seen \in SUBSET Urls
    BY <1>0
  <2> HIDE DEF after
  <2>3. Began(r)
    BY <1>0 DEF Began, Waiting, InHand
  <2> HIDE DEF queue, seen
  <2>4. r \in States
    BY <1>0, <2>2 DEF States
  <2> HIDE DEF r
  <2> QED BY <2>1, <2>3, <2>4, BecomesType DEF Stepped, Move, Tidy
<1>2. CASE ~Permitted(Start)
  <2> DEFINE r == [Waiting EXCEPT !.at = "dead"]
  <2>1. Becomes(c, r)
    BY <1>2 DEF Begin
  <2>2. r \in States
    BY <1>0 DEF States
  <2>3. Began(r)
    BY <1>0 DEF Began, Waiting, InHand
  <2> HIDE DEF r
  <2> QED BY <2>1, <2>2, <2>3, BecomesType DEF Stepped, Move, Tidy
<1> QED BY <1>1, <1>2

LEMMA DequeueMoves ==
    ASSUME Tidy, NEW c \in Crawls, Dequeue(c)
    PROVE  Stepped(c)
<1> DEFINE p == crawl[c]
           queue == Tail(p.queue)
           url == Head(p.queue)
           q == [p EXCEPT !.queue = queue, !.url = url]
<1>1. p \in States /\ p.at = "next" /\ More(p)
  BY DEF Tidy, TypeOK, Dequeue
<1>2. queue \in Seq(Urls) /\ url \in Urls
  BY <1>1, StateFields DEF More
<1>3. q = Popped(p)
  BY DEF Popped
<1>4. PICK r : /\ Becomes(c, r)
               /\ \/ r = [q EXCEPT !.clean = FALSE]
                  \/ r = [q EXCEPT !.at = "vet", !.aim = "robots", !.hop = Robots,
                                   !.hops = MaxRedirects]
                  \/ r = [q EXCEPT !.at = "look"]
  BY <1>3 DEF Dequeue
<1> HIDE DEF p, queue, url
<1>5. /\ q \in States /\ q.queue = queue /\ q.url = url
      /\ q.limit = p.limit /\ q.seen = p.seen /\ q.results = p.results
  BY <1>1, <1>2 DEF States
<1> HIDE DEF q
<1>6. /\ r \in States /\ r.queue = q.queue /\ r.url = q.url
      /\ r.limit = q.limit /\ r.seen = q.seen /\ r.results = q.results
  <2>1. Robots \in Urls /\ MaxRedirects \in Nat
    BY NamesAssumption, LimitsAssumption
  <2>2. CASE r = [q EXCEPT !.clean = FALSE]
    BY <1>5, <2>2 DEF States
  <2>3. CASE r = [q EXCEPT !.at = "vet", !.aim = "robots", !.hop = Robots,
                           !.hops = MaxRedirects]
    BY <1>5, <2>1, <2>3 DEF States
  <2>4. CASE r = [q EXCEPT !.at = "look"]
    BY <1>5, <2>4 DEF States
  <2> QED BY <1>4, <2>2, <2>3, <2>4
<1>7. Taken(p, r)
  BY <1>1, <1>5, <1>6 DEF Taken, InHand, queue, url
<1>8. Becomes(c, r)
  BY <1>4
<1> QED BY <1>6, <1>7, <1>8, BecomesType DEF Stepped, Move, Tidy, p

LEMMA LookMoves ==
    ASSUME Tidy, NEW c \in Crawls, Look(c)
    PROVE  Stepped(c)
<1> DEFINE q == crawl[c]
<1>1. q \in States /\ q.at = "look" /\ Bounded(q) /\ InHand(q)
  BY DEF Tidy, TypeOK, Look, InHand
<1>2. PICK r : /\ Becomes(c, r)
               /\ \/ r = [q EXCEPT !.at = "next"]
                  \/ Cached(q.url) /\ r = Collected(q, cache[q.url])
                  \/ r = [q EXCEPT !.at = "vet", !.aim = "page", !.hop = q.url,
                                   !.hops = MaxRedirects]
  BY DEF Look
<1>3. cache[q.url] \in Pages
  BY <1>1, StateFields DEF Tidy, TypeOK
<1>4. r \in States /\ Move(q, r)
  <2> HIDE DEF q
  <2>1. CASE r = [q EXCEPT !.at = "next"]
    BY <1>1, <2>1 DEF States, Move, Kept, InHand
  <2>2. CASE Cached(q.url) /\ r = Collected(q, cache[q.url])
    BY <1>1, <1>3, <2>2, CollectedMoves DEF Move
  <2>3. CASE r = [q EXCEPT !.at = "vet", !.aim = "page", !.hop = q.url,
                           !.hops = MaxRedirects]
    <3> DEFINE hop == q.url
    <3>1. MaxRedirects \in Nat /\ hop \in Urls
      BY <1>1, LimitsAssumption, StateFields
    <3>2. r = [q EXCEPT !.at = "vet", !.aim = "page", !.hop = hop, !.hops = MaxRedirects]
      BY <2>3
    <3> HIDE DEF hop
    <3> QED BY <1>1, <3>1, <3>2 DEF States, Move, Kept, InHand
  <2> QED BY <1>2, <2>1, <2>2, <2>3
<1> QED BY <1>2, <1>4, BecomesType DEF Stepped, Tidy

LEMMA VetMoves ==
    ASSUME Tidy, NEW c \in Crawls, Vet(c)
    PROVE  Stepped(c)
<1> DEFINE q == crawl[c]
<1>1. q \in States /\ q.at = "vet"
  BY DEF Tidy, TypeOK, Vet
<1>2. q.hop \in Urls
  BY <1>1, StateFields
<1>3. dns[HostOf[q.hop]] \subseteq Addresses
  <2>1. dns \in [Hosts -> SUBSET Addresses] /\ HostOf[q.hop] \in Hosts
    BY <1>2, WebAssumption, NamesAssumption DEF Tidy, TypeOK
  <2> QED BY <2>1
<1>4. PICK r : /\ Becomes(c, r)
               /\ \/ \E a \in dns[HostOf[q.hop]] :
                        r = [q EXCEPT !.at = "dial", !.address = a]
                  \/ r = Missed(q)
  BY DEF Vet
<1>5. r \in States /\ Move(q, r)
  <2> HIDE DEF q
  <2>1. ASSUME NEW a \in Addresses, r = [q EXCEPT !.at = "dial", !.address = a]
        PROVE  r \in States /\ Move(q, r)
    BY <1>1, <2>1 DEF States, Move, Kept, InHand
  <2>2. CASE r = Missed(q)
    BY <1>1, <2>2, MissedMoves DEF Move
  <2> QED BY <1>3, <1>4, <2>1, <2>2
<1> QED BY <1>4, <1>5, BecomesType DEF Stepped, Tidy

LEMMA SiteType ==
    ASSUME TypeOK, NEW u \in Urls
    PROVE  /\ site[u] \in Answers /\ Page(site[u]) \in Pages
           /\ site[u].kind = "redirect" => Head(site[u].links) \in Urls
<1>1. site \in [Urls -> Answers] /\ (site[u].kind = "redirect" => Len(site[u].links) = 1)
  BY WebAssumption DEF TypeOK
<1>2. site[u] \in Answers
  BY <1>1
<1>3. site[u].links \in Seq(Urls) /\ site[u].text \in Texts
  BY <1>2 DEF Answers
<1>4. Page(site[u]) \in Pages
  BY <1>3 DEF Page, Pages
<1>5. ASSUME site[u].kind = "redirect" PROVE Head(site[u].links) \in Urls
  BY <1>1, <1>3, <1>5
<1> QED BY <1>2, <1>4, <1>5

LEMMA DialMoves ==
    ASSUME Tidy, NEW c \in Crawls, Dial(c) \/ NoAnswer(c)
    PROVE  Stepped(c)
<1> DEFINE q == crawl[c]
           answer == site[q.hop]
<1>1. q \in States /\ q.at = "dial"
  BY DEF Tidy, TypeOK, Dial, NoAnswer
<1>2. q.hop \in Urls
  BY <1>1, StateFields
<1>3. PICK r : /\ Becomes(c, r)
               /\ \/ /\ answer.kind = "redirect"
                     /\ r = Redirected(q, Head(answer.links))
                  \/ r = Read(q, answer)
                  \/ r = [q EXCEPT !.at = "open", !.page = Page(answer)]
                  \/ r = Missed(q)
  BY DEF Dial, NoAnswer
<1>4. /\ answer \in Answers /\ Page(answer) \in Pages
      /\ answer.kind = "redirect" => Head(answer.links) \in Urls
  BY <1>2, SiteType DEF Tidy
<1>5. r \in States /\ Move(q, r)
  <2> HIDE DEF q, answer
  <2>1. CASE answer.kind = "redirect" /\ r = Redirected(q, Head(answer.links))
    BY <1>1, <1>4, <2>1, RedirectedMoves DEF Move
  <2>2. CASE r = Read(q, answer)
    BY <1>1, <1>4, <2>2, ReadMoves DEF Move
  <2>3. CASE r = [q EXCEPT !.at = "open", !.page = Page(answer)]
    <3> DEFINE page == Page(answer)
    <3>1. page \in Pages /\ r = [q EXCEPT !.at = "open", !.page = page]
      BY <1>4, <2>3
    <3> HIDE DEF page
    <3> QED BY <1>1, <3>1 DEF States, Move, Kept, InHand
  <2>4. CASE r = Missed(q)
    BY <1>1, <2>4, MissedMoves DEF Move
  <2> QED BY <1>3, <2>1, <2>2, <2>3, <2>4
<1> QED BY <1>3, <1>5, BecomesType DEF Stepped, Tidy

LEMMA RestMoves ==
    ASSUME Tidy, NEW c \in Crawls, Finish(c) \/ OpenFile(c) \/ WriteFile(c) \/ Die(c)
    PROVE  Stepped(c)
<1> DEFINE q == crawl[c]
<1>1. q \in States /\ Bounded(q)
  BY DEF Tidy, TypeOK
<1>2. PICK r : /\ Becomes(c, r)
               /\ \/ q.at = "next" /\ r = [q EXCEPT !.at = "done"]
                  \/ q.at = "open" /\ r = [q EXCEPT !.at = "write"]
                  \/ q.at = "write" /\ r = Collected(q, q.page)
                  \/ q.at = "write" /\ r = [q EXCEPT !.at = "dead"]
  BY DEF Finish, OpenFile, WriteFile, Die
<1>3. r \in States /\ Move(q, r)
  <2> HIDE DEF q
  <2>1. CASE q.at = "write" /\ r = Collected(q, q.page)
    BY <1>1, <2>1, StateFields, CollectedMoves DEF Move, InHand
  <2> QED BY <1>1, <1>2, <2>1 DEF States, Move, Kept, InHand
<1> QED BY <1>2, <1>3, BecomesType DEF Stepped, Tidy

LEMMA CacheType ==
    ASSUME TypeOK, [Next]_vars
    PROVE  cache' \in [Urls -> Pages]
<1>0. cache \in [Urls -> Pages] /\ Empty \in Pages /\ Mixed \in Pages
  <2>1. Empty \in Pages
    BY DEF Empty, Pages
  <2>2. Mixed \in Pages
    BY DEF Mixed, Pages
  <2> QED BY <2>1, <2>2 DEF TypeOK
<1>1. \/ UNCHANGED cache
      \/ \E c \in Crawls : \E page \in {Empty, Mixed, crawl[c].page} :
            cache' = [cache EXCEPT ![crawl[c].url] = page]
  BY DEF Next, Step, Begin, Dequeue, Finish, Look, Vet, Dial, NoAnswer, OpenFile,
         WriteFile, Die, Change, vars, world
<1>2. \A c \in Crawls : crawl[c].page \in Pages
  BY StateFields DEF TypeOK
<1> QED BY <1>0, <1>1, <1>2

LEMMA WorldType ==
    ASSUME TypeOK, [Next]_vars
    PROVE  /\ site' \in Sites /\ dns' \in Lookups
           /\ changes' \in 0..MaxChanges /\ deaths' \in 0..MaxDeaths
<1>1. \/ UNCHANGED world
      \/ changes' = changes + 1 /\ changes < MaxChanges /\ UNCHANGED deaths
         /\ site' \in Sites \cup {site} /\ dns' \in Lookups \cup {dns}
      \/ deaths' = deaths + 1 /\ deaths < MaxDeaths /\ UNCHANGED <<site, dns, changes>>
  BY DEF Next, Step, Begin, Dequeue, Finish, Look, Vet, Dial, NoAnswer, OpenFile,
         WriteFile, Die, Change, vars, world
<1> QED BY <1>1, LimitsAssumption DEF TypeOK, world

LEMMA NextMoves ==
    ASSUME Tidy, [Next]_vars
    PROVE  (\E c \in Crawls : Stepped(c)) \/ UNCHANGED crawl
  BY BeginMoves, DequeueMoves, LookMoves, VetMoves, DialMoves, RestMoves
  DEF Next, Step, Change, vars

\* Every step leaves a crawl alone or is one of its moves.
LEMMA Moves ==
    ASSUME Tidy, [Next]_vars
    PROVE  TypeOK' /\ \A c \in Crawls : Move(crawl[c], crawl'[c])
<1>1. \A q : Move(q, q)
  BY DEF Move, Kept
<1>2. crawl' \in [Crawls -> States] /\ \A c \in Crawls : Move(crawl[c], crawl'[c])
  <2>1. CASE \E c \in Crawls : Stepped(c)
    BY <1>1, <2>1 DEF Stepped
  <2>2. CASE UNCHANGED crawl
    BY <1>1, <2>2 DEF Tidy, TypeOK
  <2> QED BY <2>1, <2>2, NextMoves
<1> QED BY <1>2, CacheType, WorldType DEF Tidy, TypeOK

-----------------------------------------------------------------------------
(* The corpus.                                                             *)

LEMMA SeqFacts ==
    ASSUME NEW S, NEW s \in Seq(S)
    PROVE  /\ Len(s) \in Nat /\ DOMAIN s = 1..Len(s) /\ \A i \in 1..Len(s) : s[i] \in S
           /\ ToSet(s) = {s[i] : i \in 1..Len(s)}
  BY DEF ToSet

LEMMA SeqAppend ==
    ASSUME NEW S, NEW s \in Seq(S), NEW e
    PROVE  /\ Len(Append(s, e)) = Len(s) + 1 /\ Append(s, e)[Len(s) + 1] = e
           /\ \A i \in 1..Len(s) : Append(s, e)[i] = s[i]
           /\ DOMAIN Append(s, e) = 1..(Len(s) + 1)
  OBVIOUS

LEMMA SeqTail ==
    ASSUME NEW S, NEW s \in Seq(S), s # <<>>
    PROVE  /\ Len(s) \in Nat \ {0} /\ Tail(s) \in Seq(S) /\ Len(Tail(s)) = Len(s) - 1
           /\ \A i \in 1..(Len(s) - 1) : Tail(s)[i] = s[i + 1]
           /\ Head(s) = s[1] /\ ToSet(Tail(s)) \subseteq ToSet(s) /\ Head(s) \in ToSet(s)
<1>1. /\ Len(s) \in Nat \ {0} /\ Tail(s) \in Seq(S) /\ Len(Tail(s)) = Len(s) - 1
      /\ \A i \in 1..(Len(s) - 1) : Tail(s)[i] = s[i + 1]
      /\ Head(s) = s[1]
  OBVIOUS
<1>2. ToSet(Tail(s)) \subseteq ToSet(s) /\ Head(s) \in ToSet(s)
  BY <1>1 DEF ToSet
<1> QED BY <1>1, <1>2

LEMMA BeganOrderly ==
    ASSUME NEW r, Began(r)
    PROVE  Orderly(r)
<1>1. Found(r) = {} /\ DOMAIN r.results = {} /\ Len(r.results) = 0
  BY DEF Began, Found
<1>2. CASE r.limit \in Nat \ {0} /\ r.queue = <<Start>> /\ r.seen = {Start}
  <2>1. DOMAIN r.queue = {1} /\ ToSet(r.queue) = {Start}
    BY <1>2 DEF ToSet
  <2>2. IsFiniteSet(r.seen) /\ Cardinality(r.seen) = 1
    <3> HIDE DEF Began
    <3>1. IsFiniteSet({Start}) /\ Cardinality({Start}) = 1
      BY FS_Singleton
    <3> QED BY <1>2, <3>1
  <2> QED BY <1>1, <1>2, <2>1, <2>2 DEF Orderly, Began
<1>3. CASE r.limit = 0 /\ r.queue = <<>> /\ r.seen = {}
  <2>1. DOMAIN r.queue = {} /\ ToSet(r.queue) = {}
    BY <1>3 DEF ToSet
  <2>2. IsFiniteSet(r.seen) /\ Cardinality(r.seen) = 0
    BY <1>3, FS_EmptySet
  <2> QED BY <1>1, <1>3, <2>1, <2>2 DEF Orderly, Began
<1> QED BY <1>2, <1>3 DEF Began

LEMMA KeptOrderly ==
    ASSUME NEW q, NEW r, Orderly(q), Kept(q, r)
    PROVE  Orderly(r)
<1>1. Found(r) = Found(q)
  BY DEF Found, Kept
<1> QED BY <1>1 DEF Orderly, Kept

LEMMA TakenOrderly ==
    ASSUME NEW q \in States, NEW r, Orderly(q), Taken(q, r)
    PROVE  Orderly(r)
<1>1. /\ q.queue \in Seq(Urls) /\ q.queue # <<>> /\ Len(q.results) < q.limit
  BY StateFields DEF Taken, More
<1> DEFINE s == q.queue
<1>2. /\ Len(s) \in Nat \ {0} /\ Len(r.queue) = Len(s) - 1
      /\ r.queue \in Seq(Urls)
      /\ \A i \in 1..(Len(s) - 1) : r.queue[i] = s[i + 1]
      /\ r.url = s[1] /\ ToSet(r.queue) \subseteq ToSet(s) /\ r.url \in ToSet(s)
  BY <1>1, SeqTail DEF Taken
<1>3. Found(r) = Found(q)
  BY DEF Found, Taken
<1>4. \A i, j \in 1..Len(s) : i # j => s[i] # s[j]
  <2>1. DOMAIN s = 1..Len(s)
    BY <1>1, SeqFacts
  <2> QED BY <2>1 DEF Orderly
<1>5. r.url \notin ToSet(r.queue)
  <2>1. ToSet(r.queue) = {r.queue[i] : i \in 1..(Len(s) - 1)}
    BY <1>2, SeqFacts
  <2>2. \A i \in 1..(Len(s) - 1) : i + 1 \in 1..Len(s) /\ i + 1 # 1 /\ 1 \in 1..Len(s)
    BY <1>2
  <2> HIDE DEF s
  <2> QED BY <1>2, <1>4, <2>1, <2>2
<1>6. \A i, j \in DOMAIN r.queue : i # j => r.queue[i] # r.queue[j]
  <2>1. DOMAIN r.queue = 1..(Len(s) - 1)
    BY <1>2, SeqFacts
  <2>2. \A i \in 1..(Len(s) - 1) : i + 1 \in 1..Len(s)
    BY <1>2
  <2>3. \A i, j \in 1..(Len(s) - 1) : i # j => i + 1 # j + 1
    BY <1>2
  <2> HIDE DEF s
  <2> SUFFICES ASSUME NEW i \in 1..(Len(s) - 1), NEW j \in 1..(Len(s) - 1), i # j
               PROVE  r.queue[i] # r.queue[j]
    BY <2>1
  <2>4. s[i + 1] # s[j + 1]
    BY <1>4, <2>2, <2>3
  <2> QED BY <1>2, <2>4
<1> QED BY <1>1, <1>2, <1>3, <1>5, <1>6 DEF Orderly, Taken

\* What a result adds to a crawl: n results, queue s, before; queue t after.
Gain(q, r, page, n, s, t) ==
    /\ q.limit \in Nat /\ q.results \in Seq([url : Urls, page : Pages])
    /\ s \in Seq(Urls) /\ t \in Seq(Urls)
    /\ n \in Nat /\ Len(s) \in Nat /\ Len(t) \in Nat
    /\ DOMAIN q.results = 1..n /\ DOMAIN s = 1..Len(s) /\ DOMAIN t = 1..Len(t)
    /\ ToSet(s) = {s[i] : i \in 1..Len(s)} /\ ToSet(t) = {t[i] : i \in 1..Len(t)}
    /\ r.limit = q.limit /\ Len(r.results) = n + 1
    /\ r.results[n + 1].url = q.url /\ r.results[n + 1].page = page
    /\ \A i \in 1..n : r.results[i] = q.results[i]
    /\ DOMAIN r.results = 1..(n + 1)
    /\ Grown(s, q.seen, [queue |-> t, seen |-> r.seen], ToSet(page.links), q.limit)
    /\ \A u \in ToSet(page.links) : Followed(r, u, q.limit)
    /\ Found(r) = Found(q) \cup {q.url}
    /\ \A i \in 1..Len(t) : i \in 1..Len(s) \/ i \in (Len(s) + 1)..Len(t)

LEMMA AddedGain ==
    ASSUME NEW q \in States, NEW r \in States, Orderly(q), NEW page \in Pages, Added(q, r, page)
    PROVE  Gain(q, r, page, Len(q.results), q.queue, r.queue)
<1> DEFINE e == [url |-> q.url, page |-> page]
           n == Len(q.results)
           s == q.queue
           t == r.queue
<1>1. /\ q.limit \in Nat /\ q.results \in Seq([url : Urls, page : Pages])
      /\ s \in Seq(Urls) /\ t \in Seq(Urls)
      /\ n \in Nat /\ Len(s) \in Nat /\ Len(t) \in Nat
      /\ DOMAIN q.results = 1..n /\ DOMAIN s = 1..Len(s) /\ DOMAIN t = 1..Len(t)
      /\ ToSet(s) = {s[i] : i \in 1..Len(s)} /\ ToSet(t) = {t[i] : i \in 1..Len(t)}
  <2>1. /\ q.limit \in Nat /\ q.results \in Seq([url : Urls, page : Pages])
        /\ s \in Seq(Urls) /\ t \in Seq(Urls)
    BY StateFields
  <2> HIDE DEF s, t
  <2>2. n \in Nat /\ DOMAIN q.results = 1..n
    BY <2>1, SeqFacts
  <2>3. /\ Len(s) \in Nat /\ Len(t) \in Nat /\ DOMAIN s = 1..Len(s) /\ DOMAIN t = 1..Len(t)
        /\ ToSet(s) = {s[i] : i \in 1..Len(s)} /\ ToSet(t) = {t[i] : i \in 1..Len(t)}
    BY <2>1, SeqFacts
  <2> QED BY <2>1, <2>2, <2>3
<1>2. /\ r.limit = q.limit /\ Len(r.results) = n + 1 /\ r.results[n + 1] = e
      /\ \A i \in 1..n : r.results[i] = q.results[i]
      /\ DOMAIN r.results = 1..(n + 1)
  <2>1. r.results = Append(q.results, e) /\ r.limit = q.limit
    BY DEF Added
  <2> HIDE DEF e
  <2> QED BY <1>1, <2>1, SeqAppend
<1>3. Grown(s, q.seen, [queue |-> t, seen |-> r.seen], ToSet(page.links), q.limit)
  <2>1. page.links \in Seq(Urls)
    BY DEF Pages
  <2> DEFINE f == Frontier(q.queue, q.seen, q.limit, page.links)
  <2>2. Grown(s, q.seen, f, ToSet(page.links), q.limit)
    BY <2>1, StateFields, FrontierGrows DEF Orderly
  <2>3. f \in Frontiers
    BY <2>2 DEF Grown
  <2>4. f = [queue |-> f.queue, seen |-> f.seen]
    BY <2>3 DEF Frontiers
  <2>5. t = f.queue /\ r.seen = f.seen
    BY DEF Added
  <2> QED BY <2>2, <2>4, <2>5
<1>4. \A u \in ToSet(page.links) : Followed(r, u, q.limit)
  <2>1. page.links \in Seq(Urls)
    BY DEF Pages
  <2>2. \A u \in ToSet(page.links) :
           Followed(Frontier(q.queue, q.seen, q.limit, page.links), u, q.limit)
    BY <2>1, StateFields, FrontierGrows DEF Orderly
  <2> QED BY <2>2 DEF Added, Followed
<1>5. Found(r) = Found(q) \cup {q.url}
  <2>1. e.url = q.url
    OBVIOUS
  <2>2. DOMAIN r.results = (1..n) \cup {n + 1}
    BY <1>1, <1>2
  <2>3. Found(r) = {r.results[i].url : i \in (1..n) \cup {n + 1}}
    BY <2>2 DEF Found
  <2>4. Found(q) = {q.results[i].url : i \in 1..n}
    BY <1>1 DEF Found
  <2> HIDE DEF e, n
  <2> QED BY <1>2, <2>1, <2>3, <2>4
<1>6. \A i \in 1..Len(t) : i \in 1..Len(s) \/ i \in (Len(s) + 1)..Len(t)
  BY <1>1
<1>7. e.url = q.url /\ e.page = page
  OBVIOUS
<1> HIDE DEF e, n, s, t
<1>8. Gain(q, r, page, n, s, t)
  BY <1>1, <1>2, <1>3, <1>4, <1>5, <1>6, <1>7 DEF Gain
<1> QED BY <1>8 DEF n, s, t

LEMMA AddedOrderly ==
    ASSUME NEW q \in States, NEW r \in States, Orderly(q), NEW page \in Pages, Added(q, r, page)
    PROVE  Orderly(r)
<1> DEFINE n == Len(q.results)
           s == q.queue
           t == r.queue
<1>0. Gain(q, r, page, n, s, t)
  BY AddedGain
<1> HIDE DEF n, s, t
<1>1. /\ q.limit \in Nat /\ n \in Nat /\ Len(s) \in Nat /\ Len(t) \in Nat
      /\ DOMAIN q.results = 1..n /\ DOMAIN s = 1..Len(s) /\ DOMAIN t = 1..Len(t)
      /\ ToSet(s) = {s[i] : i \in 1..Len(s)} /\ ToSet(t) = {t[i] : i \in 1..Len(t)}
  BY <1>0 DEF Gain
<1>2. /\ r.limit = q.limit /\ Len(r.results) = n + 1 /\ DOMAIN r.results = 1..(n + 1)
      /\ r.results[n + 1].url = q.url /\ r.results[n + 1].page = page
      /\ \A i \in 1..n : r.results[i] = q.results[i]
  BY <1>0 DEF Gain
<1>4. /\ q.seen \subseteq r.seen /\ Len(s) <= Len(t)
      /\ \A i \in 1..Len(s) : t[i] = s[i]
      /\ \A i \in (Len(s) + 1)..Len(t) : t[i] \notin q.seen /\ t[i] \in r.seen
      /\ \A i, j \in (Len(s) + 1)..Len(t) : i # j => t[i] # t[j]
      /\ \A u \in r.seen \ q.seen : HostOf[u] = HostOf[Start]
      /\ IsFiniteSet(r.seen) /\ Cardinality(r.seen) <= 4 * q.limit
  BY <1>0 DEF Gain, Grown
<1>5. Found(r) = Found(q) \cup {q.url}
  BY <1>0 DEF Gain
<1>6. \A i \in 1..Len(t) : i \in 1..Len(s) \/ i \in (Len(s) + 1)..Len(t)
  BY <1>0 DEF Gain
<1>7. \A i \in 1..Len(s) : s[i] \in q.seen
  BY <1>1 DEF Orderly, s
<1>8. \A i, j \in DOMAIN t : i # j => t[i] # t[j]
  <2>1. \A i, j \in 1..Len(s) : i # j => s[i] # s[j]
    BY <1>1 DEF Orderly, s
  <2> QED BY <1>1, <1>4, <1>6, <1>7, <2>1
<1>9. \A u \in ToSet(t) : u \in ToSet(s) \/ u \in r.seen \ q.seen
  BY <1>1, <1>4, <1>6
<1>10. /\ InHand(q) /\ ~InHand(r) /\ n < q.limit /\ q.url \in q.seen
       /\ q.url \notin Found(q) \cup ToSet(s)
       /\ ToSet(s) \cap Found(q) = {} /\ Found(q) \cup ToSet(s) \subseteq q.seen
  BY DEF Added, Orderly, n, s
<1>11. \A i, j \in DOMAIN r.results : i # j =>
         /\ r.results[i].url # r.results[j].url
         /\ r.results[i].page.text # r.results[j].page.text
  <2>1. \A i \in 1..n : /\ q.results[i].url # q.url
                        /\ q.results[i].page.text # page.text
    BY <1>1, <1>10 DEF Added, Found
  <2>2. \A i, j \in 1..n : i # j =>
           /\ q.results[i].url # q.results[j].url
           /\ q.results[i].page.text # q.results[j].page.text
    BY <1>1 DEF Orderly
  <2>4. \A i \in DOMAIN r.results : i \in 1..n \/ i = n + 1
    BY <1>1, <1>2
  <2> SUFFICES ASSUME NEW i \in DOMAIN r.results, NEW j \in DOMAIN r.results, i # j
               PROVE  /\ r.results[i].url # r.results[j].url
                      /\ r.results[i].page.text # r.results[j].page.text
    OBVIOUS
  <2>7. CASE i \in 1..n /\ j \in 1..n
    BY <1>2, <2>2, <2>7
  <2>8. CASE i = n + 1 /\ j \in 1..n
    BY <2>1, <1>2, <2>8
  <2>9. CASE i \in 1..n /\ j = n + 1
    BY <2>1, <1>2, <2>9
  <2> QED BY <2>4, <2>7, <2>8, <2>9
<1>12. ToSet(t) \cap Found(r) = {}
  BY <1>5, <1>9, <1>10
<1>13. Found(r) \cup ToSet(t) \subseteq r.seen
  BY <1>4, <1>5, <1>9, <1>10
<1>14. \A u \in r.seen : HostOf[u] = HostOf[Start]
  BY <1>4 DEF Orderly
<1>15. Len(r.results) <= r.limit
  BY <1>1, <1>2, <1>10
<1> QED BY <1>2, <1>4, <1>8, <1>10, <1>11, <1>12, <1>13, <1>14, <1>15 DEF Orderly, t

\* The inductive invariant of the corpus.
Sound == TypeOK /\ \A c \in Crawls : Orderly(crawl[c])

LEMMA SoundTidy == Sound => Tidy
  BY DEF Sound, Tidy, Orderly, Bounded

LEMMA InitSound == Init => Sound
<1> SUFFICES ASSUME Init PROVE Sound
  OBVIOUS
<1>1. Absent \in Pages
  BY DEF Absent, Pages
<1>2. TypeOK
  BY <1>1, WaitingType, LimitsAssumption DEF Init, TypeOK
<1>3. Began(Waiting)
  BY DEF Began, Waiting, InHand
<1>4. Orderly(Waiting)
  BY <1>3, BeganOrderly
<1> QED BY <1>2, <1>4 DEF Sound, Init

LEMMA NextSound == Sound /\ [Next]_vars => Sound'
<1> SUFFICES ASSUME Sound, [Next]_vars PROVE Sound'
  OBVIOUS
<1>1. TypeOK /\ TypeOK' /\ \A c \in Crawls : Move(crawl[c], crawl'[c])
  BY SoundTidy, Moves DEF Sound
<1>2. ASSUME NEW c \in Crawls PROVE Orderly(crawl[c])'
  <2> DEFINE q == crawl[c]
             r == crawl'[c]
  <2>1. q \in States /\ r \in States /\ Orderly(q) /\ Move(q, r)
    BY <1>1 DEF TypeOK, Sound
  <2> HIDE DEF q, r
  <2>2. ASSUME NEW page, Added(q, r, page) PROVE Orderly(r)
    <3>1. page \in Pages
      BY <2>2 DEF Added
    <3> QED BY <2>1, <2>2, <3>1, AddedOrderly
  <2>3. Orderly(r)
    BY <2>1, <2>2, BeganOrderly, KeptOrderly, TakenOrderly DEF Move
  <2> QED BY <2>3 DEF r
<1> QED BY <1>1, <1>2 DEF Sound

(* Every state of the crawls, and every file, is of its type: the frontier's  *)
(* needs the corpus to be sound, for the bound on what a crawl has seen.      *)
THEOREM CrawlsTyped == Spec => []TypeOK
<1>1. Sound => TypeOK
  BY DEF Sound
<1> QED
  BY <1>1, InitSound, NextSound, PTL DEF Spec

LEMMA SpecSound == Spec => []Sound
  BY InitSound, NextSound, PTL DEF Spec

(* For every site, however it changes and however many crawls share the cache: *)
(* a corpus has no page twice, under one URL or under two, no more pages than *)
(* were asked for and none of another host; and the frontier keeps its bound. *)
THEOREM CorpusHolds == Spec => []CorpusSound
<1>1. Sound => CorpusSound
  BY DEF Sound, Orderly, CorpusSound
<1> QED BY <1>1, SpecSound, PTL

-----------------------------------------------------------------------------
(* The order of the corpus.                                                *)

LEMMA BeganInOrder ==
    ASSUME NEW r, Began(r)
    PROVE  InOrder(r)
<1>1. /\ Found(r) = {} /\ DOMAIN r.results = {} /\ Len(r.results) = 0
      /\ ~InHand(r) /\ Start \in Linked(r, 0)
  BY DEF Began, Found, Linked
<1>2. /\ \A j \in DOMAIN r.queue : j \in {1} /\ r.queue[j] = Start
      /\ ToSet(r.queue) \subseteq {Start}
  <2>1. CASE r.queue = <<Start>>
    BY <2>1 DEF ToSet
  <2>2. CASE r.queue = <<>>
    BY <2>2 DEF ToSet
  <2> QED BY <2>1, <2>2 DEF Began
<1>3. \A n \in 0..Len(r.results) : n = 0
  BY <1>1
<1>4. ASSUME NEW L, Start \in L PROVE Sooner(r, L)
  BY <1>1, <1>2, <1>4 DEF Sooner
<1>5. More(r) => Start \in r.seen
  BY DEF Began, More
<1> QED BY <1>1, <1>2, <1>3, <1>4, <1>5 DEF InOrder

LEMMA KeptInOrder ==
    ASSUME NEW q, NEW r, InOrder(q), Kept(q, r)
    PROVE  InOrder(r)
<1>1. Found(r) = Found(q) /\ \A n : Linked(r, n) = Linked(q, n)
  BY DEF Found, Linked, Kept
<1>2. \A L : Sooner(q, L) => Sooner(r, L)
  BY <1>1 DEF Sooner, Kept
<1>3. More(r) => Start \in r.seen
  BY DEF InOrder, Kept, More
<1> QED BY <1>1, <1>2, <1>3 DEF InOrder, Kept

LEMMA TakenInOrder ==
    ASSUME NEW q \in States, NEW r, InOrder(q), Taken(q, r)
    PROVE  InOrder(r)
<1> DEFINE s == q.queue
           t == r.queue
           m == Len(q.results)
<1>1. q.queue \in Seq(Urls) /\ q.queue # <<>>
  BY StateFields DEF Taken, More
<1>2. /\ Len(s) \in Nat \ {0} /\ Len(t) = Len(s) - 1 /\ t \in Seq(Urls)
      /\ \A i \in 1..(Len(s) - 1) : t[i] = s[i + 1]
      /\ r.url = s[1] /\ ToSet(t) \subseteq ToSet(s) /\ r.url \in ToSet(s)
  BY <1>1, SeqTail DEF Taken
<1>3. DOMAIN s = 1..Len(s) /\ DOMAIN t = 1..(Len(s) - 1)
  BY <1>1, <1>2, SeqFacts
<1>4. /\ Found(r) = Found(q) /\ r.results = q.results /\ ~InHand(q)
      /\ \A n : Linked(r, n) = Linked(q, n)
  BY DEF Found, Linked, Taken
<1> HIDE DEF s, t
<1>5. ASSUME NEW L, Sooner(q, L) PROVE Sooner(r, L)
  <2>1. \A j \in 1..Len(s) : s[j] \in L =>
           Found(q) \subseteq L /\ \A i \in 1..j : s[i] \in L
    BY <1>3, <1>5 DEF Sooner, s
  <2>2. r.url \in L => Found(q) \subseteq L
    BY <1>2, <2>1
  <2>3. ASSUME NEW j \in DOMAIN t, t[j] \in L
        PROVE  Found(q) \subseteq L /\ r.url \in L /\ \A i \in 1..j : t[i] \in L
    <3>1. j + 1 \in 1..Len(s) /\ s[j + 1] \in L /\ 1 \in 1..(j + 1)
      BY <1>2, <1>3, <2>3
    <3>2. \A i \in 1..j : i \in 1..(Len(s) - 1) /\ i + 1 \in 1..(j + 1)
      BY <1>2, <1>3
    <3> QED BY <1>2, <2>1, <3>1, <3>2
  <2> QED BY <1>4, <1>5, <2>2, <2>3 DEF Sooner, t
<1>6. More(q) /\ r.seen = q.seen
  BY DEF Taken
<1> QED BY <1>2, <1>4, <1>5, <1>6 DEF InOrder, Taken, s, t

\* A link of an earlier result that was not known when it came has no room.
LEMMA NoRoom ==
    ASSUME NEW q \in States, NEW r \in States, Orderly(q), InOrder(q),
           NEW page \in Pages, Added(q, r, page),
           NEW n \in 0..Len(q.results), NEW u \in Linked(q, n),
           u \in r.seen, u \notin q.seen
    PROVE  FALSE
<1> DEFINE m == Len(q.results)
<1>1. Gain(q, r, page, m, q.queue, r.queue)
  BY AddedGain
<1>2. /\ q.seen \subseteq r.seen /\ u \notin Skipped /\ HostOf[u] = HostOf[Start]
      /\ IsFiniteSet(r.seen) /\ Cardinality(r.seen) <= 4 * q.limit
      /\ q.limit \in Nat /\ m \in Nat /\ DOMAIN q.results = 1..m
  BY <1>1 DEF Gain, Grown
<1> HIDE DEF m
<1>3. u # Start
  BY DEF Added, InOrder
<1>4. PICK i \in 1..n : u \in ToSet(q.results[i].page.links)
  BY <1>3 DEF Linked
<1>5. i \in DOMAIN q.results
  BY <1>2 DEF m
<1>6. Cardinality(q.seen) >= 4 * q.limit
  BY <1>2, <1>4, <1>5 DEF InOrder
<1>7. IsFiniteSet(q.seen \cup {u}) /\ Cardinality(q.seen \cup {u}) = Cardinality(q.seen) + 1
  BY FS_AddElement DEF Orderly
<1>8. Cardinality(q.seen \cup {u}) <= Cardinality(r.seen)
  BY <1>2, FS_Subset
<1>9. Cardinality(q.seen) \in Nat /\ Cardinality(r.seen) \in Nat
  BY <1>2, FS_CardinalityType DEF Orderly
<1> QED BY <1>2, <1>6, <1>7, <1>8, <1>9

LEMMA AddedInOrder ==
    ASSUME NEW q \in States, NEW r \in States, Orderly(q), InOrder(q),
           NEW page \in Pages, Added(q, r, page)
    PROVE  InOrder(r)
<1> DEFINE m == Len(q.results)
           s == q.queue
           t == r.queue
<1>0. Gain(q, r, page, m, s, t)
  BY AddedGain
<1> HIDE DEF m, s, t
<1>1. /\ q.limit \in Nat /\ m \in Nat /\ Len(s) \in Nat /\ Len(t) \in Nat
      /\ DOMAIN q.results = 1..m /\ DOMAIN s = 1..Len(s) /\ DOMAIN t = 1..Len(t)
      /\ ToSet(s) = {s[i] : i \in 1..Len(s)} /\ ToSet(t) = {t[i] : i \in 1..Len(t)}
  BY <1>0 DEF Gain
<1>2. /\ r.limit = q.limit /\ Len(r.results) = m + 1 /\ DOMAIN r.results = 1..(m + 1)
      /\ r.results[m + 1].url = q.url /\ r.results[m + 1].page = page
      /\ \A i \in 1..m : r.results[i] = q.results[i]
      /\ Found(r) = Found(q) \cup {q.url}
  BY <1>0 DEF Gain
<1>3. /\ q.seen \subseteq r.seen /\ Len(s) <= Len(t)
      /\ \A i \in 1..Len(s) : t[i] = s[i]
      /\ \A i \in (Len(s) + 1)..Len(t) :
            t[i] \in ToSet(page.links) /\ t[i] \notin q.seen /\ t[i] \in r.seen
      /\ IsFiniteSet(r.seen) /\ Cardinality(r.seen) <= 4 * q.limit
  BY <1>0 DEF Gain, Grown
<1>4. \A i \in 1..Len(t) : i \in 1..Len(s) \/ i \in (Len(s) + 1)..Len(t)
  BY <1>0 DEF Gain
<1>5. InHand(q) /\ ~InHand(r)
  BY DEF Added
<1>6. \A n \in 0..m : Linked(r, n) = Linked(q, n)
  <2> SUFFICES ASSUME NEW n \in 0..m
               PROVE  \A i \in 1..n : r.results[i] = q.results[i]
    BY DEF Linked
  <2> QED BY <1>1, <1>2
<1>7. ASSUME NEW n \in 0..m PROVE Sooner(r, Linked(r, n))
  <2> DEFINE L == Linked(q, n)
  <2>1. Sooner(q, L)
    BY DEF InOrder, m
  <2>2. \A j \in 1..Len(t) : t[j] \in L => j \in 1..Len(s)
    BY <1>3, <1>4, NoRoom DEF m
  <2> HIDE DEF L
  <2>3. q.url \in L => Found(q) \subseteq L
    BY <1>5, <2>1 DEF Sooner
  <2>4. ASSUME NEW j \in 1..(m + 1), r.results[j].url \in L, NEW i \in 1..j
        PROVE  r.results[i].url \in L
    <3>1. CASE j = m + 1
      <4>1. i \in 1..(m + 1)
        BY <1>1, <3>1
      <4>2. r.results[i].url \in Found(r)
        BY <1>2, <4>1 DEF Found
      <4>3. q.url \in L
        BY <1>2, <2>4, <3>1
      <4> QED BY <1>2, <2>3, <4>2, <4>3
    <3>2. CASE j # m + 1
      <4>1. j \in 1..m /\ i \in 1..m
        BY <1>1, <3>2
      <4>2. q.results[j].url \in L
        BY <1>2, <2>4, <4>1
      <4>3. q.results[i].url \in L
        BY <1>1, <2>1, <4>1, <4>2 DEF Sooner
      <4> QED BY <1>2, <4>1, <4>3
    <3> QED BY <3>1, <3>2
  <2>5. ASSUME NEW j \in 1..Len(t), t[j] \in L
        PROVE  Found(r) \subseteq L /\ \A i \in 1..j : t[i] \in L
    <3>1. j \in 1..Len(s) /\ s[j] \in L
      BY <1>3, <2>2, <2>5
    <3>2. Found(q) \subseteq L /\ q.url \in L /\ \A i \in 1..j : s[i] \in L
      BY <1>1, <1>5, <2>1, <3>1 DEF Sooner, s
    <3>3. \A i \in 1..j : i \in 1..Len(s)
      BY <1>1, <3>1
    <3> QED BY <1>2, <1>3, <3>2, <3>3
  <2>6. Sooner(r, L)
    BY <1>1, <1>2, <1>5, <2>4, <2>5 DEF Sooner, t
  <2> QED BY <1>6, <2>6 DEF L
<1> DEFINE L == Linked(r, m + 1)
<1>8. Linked(q, m) \subseteq L /\ ToSet(page.links) \subseteq L
  <2>1. m + 1 \in 1..(m + 1) /\ 1..m \subseteq 1..(m + 1)
    BY <1>1
  <2> QED BY <1>2, <2>1 DEF Linked
<1>9. ToSet(t) \cup Found(r) \subseteq L
  <2>1. ToSet(s) \cup Found(q) \cup {q.url} \subseteq Linked(q, m)
    BY <1>5 DEF InOrder, m, s
  <2>2. \A i \in 1..Len(t) : t[i] \in L
    BY <1>1, <1>3, <1>4, <1>8, <2>1
  <2> QED BY <1>1, <1>2, <1>8, <2>1, <2>2
<1>10. Sooner(r, L)
  <2>1. ASSUME NEW i \in 1..(m + 1) PROVE r.results[i].url \in L
    BY <1>2, <1>9 DEF Found
  <2>2. \A j \in 1..(m + 1) : 1..j \subseteq 1..(m + 1)
    BY <1>1
  <2>3. \A j \in 1..Len(t) : 1..j \subseteq 1..Len(t)
    BY <1>1
  <2>4. \A j \in 1..Len(t) : t[j] \in L
    BY <1>1, <1>9
  <2> HIDE DEF L
  <2> QED BY <1>1, <1>2, <1>5, <1>9, <2>1, <2>2, <2>3, <2>4 DEF Sooner, t
<1>11. \A n \in 0..(m + 1) : Sooner(r, Linked(r, n))
  <2>1. \A n \in 0..(m + 1) : n \in 0..m \/ n = m + 1
    BY <1>1
  <2> QED BY <1>7, <1>10, <2>1
<1>12. Start \in r.seen
  BY <1>3, <1>5 DEF InOrder
<1>13. ASSUME NEW i \in 1..(m + 1), NEW u \in ToSet(r.results[i].page.links)
       PROVE  Followed(r, u, r.limit)
  <2>1. CASE i = m + 1
    BY <1>0, <1>2, <2>1 DEF Gain
  <2>2. CASE i # m + 1
    <3>1. i \in 1..m /\ r.results[i] = q.results[i]
      BY <1>1, <1>2, <2>2
    <3>2. Followed(q, u, q.limit)
      BY <1>1, <3>1 DEF InOrder, Followed
    <3>3. Cardinality(q.seen) <= Cardinality(r.seen)
      BY <1>3, FS_Subset
    <3>4. Cardinality(q.seen) \in Nat /\ Cardinality(r.seen) \in Nat
      BY <1>3, FS_CardinalityType DEF Orderly
    <3> QED BY <1>1, <1>2, <1>3, <3>2, <3>3, <3>4 DEF Followed
  <2> QED BY <2>1, <2>2
<1> HIDE DEF L
<1> QED BY <1>2, <1>5, <1>9, <1>11, <1>12, <1>13 DEF InOrder, Followed, t, L

\* A set of numbers that holds all below each of its own is an interval.
LEMMA DownClosed ==
    ASSUME NEW N \in Nat, NEW J \in SUBSET (1..N), \A j \in J : 1..j \subseteq J
    PROVE  \E k \in 0..N : J = 1..k
<1>1. CASE J = 1..N
  BY <1>1
<1>2. CASE J # 1..N
  <2> DEFINE T == (1..N) \ J
  <2>0. \E n \in 1..N : n \notin J
    <3> SUFFICES ASSUME 1..N \subseteq J PROVE FALSE
      OBVIOUS
    <3>1. J = 1..N
      OBVIOUS
    <3> QED BY <1>2, <3>1
  <2>1. T \subseteq Nat /\ T # {}
    BY <2>0
  <2>2. PICK m \in T : \A n \in T : m <= n
    BY <2>1, Least
  <2>3. m \in 1..N /\ m - 1 \in 0..N
    BY <2>2
  <2>4. \A i \in 1..(m - 1) : i \in J
    BY <2>2, <2>3
  <2>5. \A j \in J : j \in 1..(m - 1)
    <3> SUFFICES ASSUME NEW j \in J, j \notin 1..(m - 1) PROVE FALSE
      OBVIOUS
    <3>1. m \in 1..j
      BY <2>3
    <3> QED BY <2>2, <3>1
  <2>6. J = 1..(m - 1)
    BY <2>4, <2>5
  <2> QED BY <2>3, <2>6
<1> QED BY <1>1, <1>2

\* The pages that the URLs among these link to.
LinksFrom(q, urls) ==
    UNION {ToSet(q.results[i].page.links) :
           i \in {j \in DOMAIN q.results : q.results[j].url \in urls}}

\* What was known by some result, and what is linked from there, is what was known by
\* some result.
LEMMA LinkedStep ==
    ASSUME NEW q \in States, InOrder(q), NEW n \in 0..Len(q.results)
    PROVE  \E k \in 0..Len(q.results) :
              Linked(q, n) \cup LinksFrom(q, Linked(q, n)) = Linked(q, k)
<1> DEFINE N == Len(q.results)
           L == Linked(q, n)
           J == {j \in DOMAIN q.results : q.results[j].url \in L}
<1>1. N \in Nat /\ DOMAIN q.results = 1..N
  <2>1. q.results \in Seq([url : Urls, page : Pages])
    BY StateFields
  <2> QED BY <2>1, SeqFacts
<1>2. J \in SUBSET (1..N) /\ \A j \in J : 1..j \subseteq J
  <2>1. Sooner(q, L)
    BY DEF InOrder
  <2>2. \A j \in 1..N : 1..j \subseteq 1..N
    BY <1>1
  <2> HIDE DEF L, N
  <2> QED BY <1>1, <2>1, <2>2 DEF Sooner
<1> HIDE DEF J
<1>3. PICK k \in 0..N : J = 1..k
  BY <1>1, <1>2, DownClosed
<1>4. LinksFrom(q, L) = UNION {ToSet(q.results[i].page.links) : i \in 1..k}
  BY <1>3 DEF LinksFrom, J
<1>5. CASE n <= k
  <2>1. 1..n \subseteq 1..k
    BY <1>5, <1>1
  <2>2. L \cup LinksFrom(q, L) = Linked(q, k)
    BY <1>4, <2>1 DEF Linked
  <2> QED BY <2>2
<1>6. CASE k <= n
  <2>1. 1..k \subseteq 1..n
    BY <1>6, <1>1
  <2>2. L \cup LinksFrom(q, L) = Linked(q, n)
    BY <1>4, <2>1 DEF Linked
  <2> QED BY <2>2
<1> QED BY <1>1, <1>5, <1>6

\* Each ball is what was known by some result.
LEMMA BallsLinked ==
    ASSUME NEW q \in States, InOrder(q), NEW b \in Balls(q)
    PROVE  \E n \in 0..Len(q.results) : b = Linked(q, n)
<1> DEFINE N == Len(q.results)
           V == SUBSET Urls
           step == [n \in 1..N |-> [inner \in V |-> inner \cup LinksFrom(q, inner)]]
           Fixed(f) == f = [n \in 0..N |->
                              IF n = 0 THEN {Start}
                              ELSE LET inner == f[n - 1] IN inner \cup LinksFrom(q, inner)]
<1>1. /\ N \in Nat /\ {Start} \in V /\ DOMAIN q.results = 1..N
      /\ \A i \in 1..N : q.results[i] \in [url : Urls, page : Pages]
  <2>1. q.results \in Seq([url : Urls, page : Pages])
    BY StateFields
  <2> QED BY <2>1, SeqFacts, NamesAssumption
<1>2. \A inner \in V : LinksFrom(q, inner) \in V
  <2>1. ASSUME NEW i \in 1..N PROVE ToSet(q.results[i].page.links) \subseteq Urls
    <3>1. q.results[i].page.links \in Seq(Urls)
      BY <1>1 DEF Pages
    <3> QED BY <3>1 DEF ToSet
  <2> HIDE DEF N
  <2> QED BY <1>1, <2>1 DEF LinksFrom
<1>3. step \in [1..N -> [V -> V]]
  BY <1>2
<1>4. \E f : Fixed(f)
  <2> HIDE DEF step, N, V
  <2>0. PICK f : Recursive(f, N, V, {Start}, step)
    BY <1>1, <1>3, RecursionExists
  <2>1. /\ f \in [0..N -> V]
        /\ f[0] = {Start} /\ \A n \in 1..N : f[n] = step[n][f[n - 1]]
    BY <2>0 DEF Recursive
  <2>2. ASSUME NEW n \in 0..N
        PROVE  f[n] = IF n = 0 THEN {Start} ELSE f[n - 1] \cup LinksFrom(q, f[n - 1])
    <3>1. CASE n = 0
      BY <2>1, <3>1
    <3>2. CASE n # 0
      <4>1. n \in 1..N /\ n - 1 \in 0..N
        BY <1>1, <3>2
      <4>2. step[n][f[n - 1]] = f[n - 1] \cup LinksFrom(q, f[n - 1])
        BY <2>1, <4>1 DEF step
      <4> QED BY <2>1, <3>2, <4>1, <4>2
    <3> QED BY <3>1, <3>2
  <2>3. Fixed(f)
    BY <2>1, <2>2
  <2> QED BY <2>3
<1> DEFINE f == CHOOSE f : Fixed(f)
<1>5. Fixed(f)
  BY <1>4
<1>6. Balls(q) = {f[n] : n \in 0..N}
  BY DEF Balls, LinksFrom
<1> HIDE DEF f
<1>7. f[0] = {Start} /\ \A n \in 1..N : f[n] = f[n - 1] \cup LinksFrom(q, f[n - 1])
  <2>1. \A n \in 0..N : f[n] = IF n = 0 THEN {Start}
                               ELSE f[n - 1] \cup LinksFrom(q, f[n - 1])
    BY <1>5
  <2> HIDE DEF N
  <2>2. 0 \in 0..N /\ \A n \in 1..N : n \in 0..N /\ n # 0
    BY <1>1
  <2> QED BY <2>1, <2>2
<1> HIDE DEF N, V, step, Fixed
<1> DEFINE S == {n \in 0..N : \E k \in 0..N : f[n] = Linked(q, k)}
<1>8. 0 \in S
  <2>1. Linked(q, 0) = {Start}
    BY DEF Linked
  <2>2. 0 \in 0..N /\ f[0] = Linked(q, 0)
    BY <1>1, <1>7, <2>1
  <2> QED BY <2>2
<1>9. ASSUME NEW n \in 0..(N - 1), n \in S PROVE n + 1 \in S
  <2>1. n + 1 \in 1..N /\ n + 1 \in 0..N /\ (n + 1) - 1 = n
    BY <1>1
  <2>2. PICK k \in 0..N : f[n] = Linked(q, k)
    BY <1>9
  <2>3. f[n + 1] = Linked(q, k) \cup LinksFrom(q, Linked(q, k))
    BY <1>7, <2>1, <2>2
  <2> QED BY <2>1, <2>3, LinkedStep DEF N
<1> HIDE DEF S
<1>10. 0..N \subseteq S
  BY <1>1, <1>8, <1>9, UpTo
<1> QED BY <1>6, <1>10 DEF S, N

LEMMA OrderBreadth ==
    ASSUME NEW q \in States, InOrder(q)
    PROVE  /\ \A ball \in Balls(q) :
                 \A i \in DOMAIN q.results : q.results[i].url \notin ball =>
                     /\ \A j \in i..Len(q.results) : q.results[j].url \notin ball
                     /\ ToSet(q.queue) \cap ball = {}
           /\ \A i \in DOMAIN q.results : \A u \in ToSet(q.results[i].page.links) :
                 \/ u \in q.seen \/ u \in Skipped \/ HostOf[u] # HostOf[Start]
                 \/ Cardinality(q.seen) >= 4 * q.limit
<1>1. ASSUME NEW ball \in Balls(q), NEW i \in DOMAIN q.results, q.results[i].url \notin ball
      PROVE  /\ \A j \in i..Len(q.results) : q.results[j].url \notin ball
             /\ ToSet(q.queue) \cap ball = {}
  <2>1. PICK n \in 0..Len(q.results) : ball = Linked(q, n)
    BY BallsLinked
  <2>2. Sooner(q, ball)
    BY <2>1 DEF InOrder
  <2>3. /\ DOMAIN q.results = 1..Len(q.results) /\ Len(q.results) \in Nat
        /\ ToSet(q.queue) = {q.queue[j] : j \in DOMAIN q.queue}
    <3>1. q.results \in Seq([url : Urls, page : Pages])
      BY StateFields
    <3>2. q.queue \in Seq(Urls)
      BY StateFields
    <3> QED BY <3>1, <3>2, SeqFacts
  <2>4. \A j \in i..Len(q.results) : j \in DOMAIN q.results /\ i \in 1..j
    BY <2>3
  <2>5. q.results[i].url \in Found(q)
    BY DEF Found
  <2> QED BY <1>1, <2>2, <2>3, <2>4, <2>5 DEF Sooner
<1> QED BY <1>1 DEF InOrder

\* That of its order.
OrderSound == Sound /\ \A c \in Crawls : InOrder(crawl[c])

LEMMA InitOrder == Init => OrderSound
<1>1. Began(Waiting)
  BY DEF Began, Waiting, InHand
<1>2. InOrder(Waiting)
  BY <1>1, BeganInOrder
<1> QED BY <1>2, InitSound DEF OrderSound, Init

LEMMA NextOrder == OrderSound /\ [Next]_vars => OrderSound'
<1> SUFFICES ASSUME OrderSound, [Next]_vars PROVE OrderSound'
  OBVIOUS
<1>1. Sound /\ Sound' /\ \A c \in Crawls : Move(crawl[c], crawl'[c])
  BY NextSound, SoundTidy, Moves DEF OrderSound
<1>2. ASSUME NEW c \in Crawls PROVE InOrder(crawl[c])'
  <2> DEFINE q == crawl[c]
             r == crawl'[c]
  <2>1. q \in States /\ r \in States /\ Orderly(q) /\ InOrder(q) /\ Move(q, r)
    BY <1>1 DEF TypeOK, Sound, OrderSound
  <2> HIDE DEF q, r
  <2>2. ASSUME NEW page, Added(q, r, page) PROVE InOrder(r)
    <3>1. page \in Pages
      BY <2>2 DEF Added
    <3> QED BY <2>1, <2>2, <3>1, AddedInOrder
  <2>3. InOrder(r)
    BY <2>1, <2>2, BeganInOrder, KeptInOrder, TakenInOrder DEF Move
  <2> QED BY <2>3 DEF r
<1> QED BY <1>1, <1>2 DEF OrderSound

(* For every site: a crawl takes in what is nearer the start before what is   *)
(* farther, whatever the number of links between them, and short of the       *)
(* frontier's bound loses no link of a page it has taken in.                  *)
THEOREM BreadthHolds == Spec => []BreadthFirst
<1>1. OrderSound => BreadthFirst
  <2> SUFFICES ASSUME OrderSound, NEW c \in Crawls
               PROVE  LET q == crawl[c] IN
                      /\ \A ball \in Balls(q) :
                             \A i \in DOMAIN q.results : q.results[i].url \notin ball =>
                                 /\ \A j \in i..Len(q.results) : q.results[j].url \notin ball
                                 /\ ToSet(q.queue) \cap ball = {}
                      /\ \A i \in DOMAIN q.results :
                             \A u \in ToSet(q.results[i].page.links) :
                                \/ u \in q.seen \/ u \in Skipped
                                \/ HostOf[u] # HostOf[Start]
                                \/ Cardinality(q.seen) >= 4 * q.limit
    BY DEF BreadthFirst
  <2>1. crawl[c] \in States /\ InOrder(crawl[c])
    BY DEF OrderSound, Sound, TypeOK
  <2> QED BY <2>1, OrderBreadth
<1> QED BY <1>1, InitOrder, NextOrder, PTL DEF Spec

-----------------------------------------------------------------------------
(* The files.                                                              *)

LEMMA ChainSelf ==
    ASSUME NEW u \in Urls
    PROVE  Chain(u, u, 0)
<1> DEFINE hop == [i \in 0..0 |-> u]
<1>1. hop \in [0..0 -> Urls] /\ hop[0] = u
  OBVIOUS
<1>2. 0..(0 - 1) = {}
  OBVIOUS
<1> HIDE DEF hop
<1> QED BY <1>1, <1>2 DEF Chain

LEMMA ChainLink ==
    ASSUME NEW n \in Nat, NEW u, NEW v, Chain(u, v, n), site[v].kind = "redirect",
           NEW w \in Urls, w = Head(site[v].links)
    PROVE  Chain(u, w, n + 1)
<1>1. PICK hop \in [0..n -> Urls] :
         /\ hop[0] = u /\ hop[n] = v
         /\ \A i \in 0..(n - 1) :
               site[hop[i]].kind = "redirect" /\ hop[i + 1] = Head(site[hop[i]].links)
  BY DEF Chain
<1> DEFINE g == [i \in 0..(n + 1) |-> IF i = n + 1 THEN w ELSE hop[i]]
<1>2. \A i \in 0..(n + 1) : i = n + 1 \/ i \in 0..n
  OBVIOUS
<1>3. \A i \in 0..n : i \in 0..(n + 1) /\ i # n + 1 /\ i + 1 \in 0..(n + 1)
  OBVIOUS
<1>4. n + 1 \in 0..(n + 1) /\ 0 \in 0..n /\ n \in 0..n
  OBVIOUS
<1>5. g \in [0..(n + 1) -> Urls]
  BY <1>1, <1>2
<1>6. g[n + 1] = w /\ \A i \in 0..n : g[i] = hop[i]
  BY <1>3, <1>4
<1> HIDE DEF g
<1>7. ASSUME NEW i \in 0..n
      PROVE  site[g[i]].kind = "redirect" /\ g[i + 1] = Head(site[g[i]].links)
  <2>1. CASE i = n
    BY <1>1, <1>4, <1>6, <2>1
  <2>2. CASE i # n
    <3>1. i \in 0..(n - 1) /\ i + 1 \in 0..n
      BY <2>2
    <3> QED BY <1>1, <1>6, <3>1
  <2> QED BY <2>1, <2>2
<1>8. g[0] = u /\ 0..((n + 1) - 1) = 0..n
  BY <1>1, <1>4, <1>6
<1> QED BY <1>5, <1>6, <1>7, <1>8 DEF Chain

\* Redirects lead from a URL to no more than one page.
LEMMA ChainShorter ==
    ASSUME NEW m \in Nat, NEW n \in Nat, m <= n, NEW u, NEW v, NEW w,
           Chain(u, v, m), Chain(u, w, n), site[v].kind # "redirect"
    PROVE  v = w
<1>1. PICK h \in [0..m -> Urls] :
         /\ h[0] = u /\ h[m] = v
         /\ \A i \in 0..(m - 1) :
               site[h[i]].kind = "redirect" /\ h[i + 1] = Head(site[h[i]].links)
  BY DEF Chain
<1>2. PICK g \in [0..n -> Urls] :
         /\ g[0] = u /\ g[n] = w
         /\ \A i \in 0..(n - 1) :
               site[g[i]].kind = "redirect" /\ g[i + 1] = Head(site[g[i]].links)
  BY DEF Chain
<1> DEFINE S == {i \in 0..m : g[i] = h[i]}
<1>3. 0 \in S
  BY <1>1, <1>2
<1>4. ASSUME NEW i \in 0..(m - 1), i \in S PROVE i + 1 \in S
  <2>1. i \in 0..(n - 1) /\ i + 1 \in 0..m
    OBVIOUS
  <2> QED BY <1>1, <1>2, <1>4, <2>1
<1> HIDE DEF S
<1>5. 0..m \subseteq S
  BY <1>3, <1>4, UpTo
<1>6. g[m] = v
  BY <1>1, <1>5 DEF S
<1>7. CASE m = n
  BY <1>2, <1>6, <1>7
<1>8. CASE m # n
  <2>1. m \in 0..(n - 1)
    BY <1>8
  <2> QED BY <1>2, <1>6, <2>1
<1> QED BY <1>7, <1>8

LEMMA LeadsToOne ==
    ASSUME NEW u, NEW p1, NEW p2, LeadsTo(u, p1), LeadsTo(u, p2)
    PROVE  p1 = p2
<1>1. PICK v \in Urls : /\ \E n \in 0..MaxRedirects : Chain(u, v, n)
                       /\ site[v].kind = "html" /\ p1 = Page(site[v])
  BY DEF LeadsTo
<1>2. PICK w \in Urls : /\ \E n \in 0..MaxRedirects : Chain(u, w, n)
                       /\ site[w].kind = "html" /\ p2 = Page(site[w])
  BY DEF LeadsTo
<1>3. PICK m \in 0..MaxRedirects : Chain(u, v, m)
  BY <1>1
<1>4. PICK n \in 0..MaxRedirects : Chain(u, w, n)
  BY <1>2
<1>5. m \in Nat /\ n \in Nat /\ (m <= n \/ n <= m)
  BY LimitsAssumption
<1>6. v = w
  BY <1>1, <1>2, <1>3, <1>4, <1>5, ChainShorter
<1> QED BY <1>1, <1>2, <1>6

\* A page that is served is none of the marks of a file.
LEMMA ServedReal ==
    ASSUME NEW p \in Served
    PROVE  p \notin {Absent, Empty, Mixed}
<1>1. PICK s \in Sites, u \in Urls : p = Page(s[u])
  BY DEF Served
<1>2. s[u] \in Answers
  BY <1>1, WebAssumption
<1>3. s[u].text \in Texts
  BY <1>2 DEF Answers
<1>4. p.text \in Texts
  BY <1>1, <1>3 DEF Page
<1>5. Absent.text = "absent" /\ Empty.text = "" /\ Mixed.text = "mixed"
  BY DEF Absent, Empty, Mixed
<1> QED BY <1>4, <1>5, NamesAssumption

LEMMA MarksDiffer == Absent # Empty /\ Absent # Mixed /\ Empty # Mixed
<1>1. Absent.text = "absent" /\ Empty.text = "" /\ Mixed.text = "mixed"
  BY DEF Absent, Empty, Mixed
<1> QED BY <1>1

LEMMA LeadsServed ==
    ASSUME TypeOK, NEW u, NEW p, LeadsTo(u, p)
    PROVE  p \in Served
  BY DEF LeadsTo, TypeOK, Served

LEMMA SameSite ==
    ASSUME site' = site
    PROVE  /\ \A u, v, n : Chain(u, v, n) <=> Chain(u, v, n)'
           /\ \A u, p : LeadsTo(u, p) <=> LeadsTo(u, p)'
<1>1. \A u, v, n : Chain(u, v, n) <=> Chain(u, v, n)'
  BY DEF Chain
<1> QED BY <1>1 DEF LeadsTo

\* What FetchExplained says, in the next state, of a state q.
FetchAfter(q) ==
    /\ q.at \in {"vet", "dial"} =>
         /\ q.hops <= MaxRedirects
         /\ q.aim = "page" /\ changes' = 0 => Chain(q.url, q.hop, MaxRedirects - q.hops)
    /\ q.at \in {"open", "write"} =>
         /\ q.page \in Served
         /\ changes' = 0 => LeadsTo(q.url, q.page)
    /\ q.at = "write" => cache'[q.url] # Absent

LEMMA AfterFetch ==
    ASSUME NEW c \in Crawls, NEW q, crawl'[c] = q, FetchAfter(q), site' = site \/ changes' # 0
    PROVE  FetchExplained(crawl[c])'
<1>1. CASE site' = site
  <2>1. /\ \A u, v, n : Chain(u, v, n) <=> Chain(u, v, n)'
        /\ \A u, p : LeadsTo(u, p) <=> LeadsTo(u, p)'
    BY <1>1, SameSite
  <2> QED BY <2>1 DEF FetchExplained, FetchAfter
<1>2. CASE changes' # 0
  BY <1>2 DEF FetchExplained, FetchAfter
<1> QED BY <1>1, <1>2

\* A file that nobody touches.
LEMMA FileKept ==
    ASSUME NEW u \in Urls, FileExplained(u), cache'[u] = cache[u],
           (site' = site /\ changes' = changes) \/ changes' # 0,
           \/ deaths' > 0
           \/ /\ deaths' = deaths
              /\ \A d \in Crawls : crawl[d].at = "write" /\ crawl[d].url = u =>
                    crawl'[d].at = "write" /\ crawl'[d].url = u
    PROVE  FileExplained(u)'
<1>1. CASE site' = site /\ changes' = changes
  <2>1. \A v, p : LeadsTo(v, p) <=> LeadsTo(v, p)'
    BY <1>1, SameSite
  <2> QED BY <1>1, <2>1 DEF FileExplained
<1>2. CASE changes' # 0
  BY <1>2 DEF FileExplained
<1> QED BY <1>1, <1>2

\* A crawl goes on, and the files are explained.
LEMMA FetchStep ==
    ASSUME TypeOK, FilesExplained, NEW c \in Crawls, NEW q, Becomes(c, q), FetchAfter(q),
           site' = site, changes' = changes,
           \A u \in Urls : cache[u] # Absent => cache'[u] # Absent,
           \A u \in Urls : FileExplained(u)'
    PROVE  FilesExplained'
<1>1. \A d \in Crawls : crawl'[d] = IF d = c THEN q ELSE crawl[d]
  BY DEF TypeOK, Becomes
<1>2. ASSUME NEW d \in Crawls PROVE FetchExplained(crawl[d])'
  <2>1. CASE d = c
    BY <1>1, <2>1, AfterFetch
  <2>2. CASE d # c
    <3>1. PICK p : p = crawl[d]
      OBVIOUS
    <3>2. FetchExplained(p)
      BY <3>1 DEF FilesExplained
    <3>3. p.url \in Urls
      BY <3>1, StateFields DEF TypeOK
    <3>4. FetchAfter(p)
      BY <3>2, <3>3 DEF FetchExplained, FetchAfter
    <3> QED BY <1>1, <2>2, <3>1, <3>4, AfterFetch
  <2> QED BY <2>1, <2>2
<1> QED BY <1>2 DEF FilesExplained

\* A crawl goes on that writes no file.
LEMMA StableStep ==
    ASSUME TypeOK, FilesExplained, NEW c \in Crawls, NEW q, Becomes(c, q), FetchAfter(q),
           UNCHANGED <<world, cache>>, crawl[c].at # "write"
    PROVE  FilesExplained'
<1>1. \A d \in Crawls : crawl'[d] = IF d = c THEN q ELSE crawl[d]
  BY DEF TypeOK, Becomes
<1>2. site' = site /\ changes' = changes /\ deaths' = deaths /\ cache' = cache
  BY DEF world
<1>3. ASSUME NEW u \in Urls PROVE FileExplained(u)'
  <2>1. FileExplained(u)
    BY DEF FilesExplained
  <2> QED BY <1>1, <1>2, <2>1, FileKept
<1> QED BY <1>2, <1>3, FetchStep

-----------------------------------------------------------------------------
(* The steps, and the files.                                               *)

\* The crawl fetches nothing.
Idle(q) == q.at \notin {"vet", "dial", "open", "write"}

LEMMA IdleAfter == ASSUME NEW q, Idle(q) PROVE FetchAfter(q)
  BY DEF Idle, FetchAfter

LEMMA MissedIdle == ASSUME NEW q \in States PROVE Idle(Missed(q))
  BY DEF Missed, Idle, States

LEMMA CollectedIdle == ASSUME NEW q \in States, NEW page PROVE Idle(Collected(q, page))
<1> DEFINE f == Frontier(q.queue, q.seen, q.limit, page.links)
           results == Append(q.results, [url |-> q.url, page |-> page])
           queue == f.queue
           seen == f.seen
           r == Collected(q, page)
<1>1. \/ r = [q EXCEPT !.at = "next"]
      \/ r = [q EXCEPT !.at = "next", !.results = results, !.queue = queue, !.seen = seen]
  BY DEF Collected
<1> HIDE DEF results, queue, seen, r
<1>2. r.at = "next"
  BY <1>1 DEF States
<1> QED BY <1>2 DEF Idle, r

LEMMA ReadIdle == ASSUME NEW q \in States, NEW answer PROVE Idle(Read(q, answer))
<1> DEFINE bars == ToSet(answer.links)
           r == Read(q, answer)
<1>1. \/ r = Missed(q)
      \/ r = [q EXCEPT !.at = "look", !.robots = "read", !.barred = bars]
      \/ r = [q EXCEPT !.at = "look", !.robots = "read", !.barred = {}]
  BY DEF Read
<1> HIDE DEF bars, r
<1> QED BY <1>1, MissedIdle DEF States, Idle, r

LEMMA BeginFiles ==
    ASSUME TypeOK, FilesExplained, NEW c \in Crawls, NEW limit \in Limits, Begin(c, limit)
    PROVE  FilesExplained'
<1> DEFINE after == {d \in Crawls : crawl[d].at = "done"}
           queue == <<Start>>
           seen == {Start}
<1>1. PICK r : /\ Becomes(c, r)
               /\ \/ r = [Waiting EXCEPT !.at = "next", !.limit = limit, !.queue = queue,
                                         !.seen = seen, !.after = after]
                  \/ r = [Waiting EXCEPT !.at = "dead"]
  BY DEF Begin
<1> HIDE DEF after, queue, seen
<1>2. Idle(r)
  BY <1>1, WaitingType DEF Idle, States
<1>3. crawl[c].at # "write" /\ UNCHANGED <<world, cache>>
  BY DEF Begin
<1> QED BY <1>1, <1>2, <1>3, IdleAfter, StableStep

LEMMA DequeueFiles ==
    ASSUME TypeOK, FilesExplained, NEW c \in Crawls, Dequeue(c)
    PROVE  FilesExplained'
<1> DEFINE p == crawl[c]
           queue == Tail(p.queue)
           url == Head(p.queue)
           q == [p EXCEPT !.queue = queue, !.url = url]
<1>1. p \in States /\ p.at = "next" /\ More(p) /\ UNCHANGED <<world, cache>>
  BY DEF TypeOK, Dequeue
<1>2. queue \in Seq(Urls) /\ url \in Urls
  BY <1>1, StateFields DEF More
<1>3. q = Popped(p)
  BY DEF Popped
<1>4. PICK r : /\ Becomes(c, r)
               /\ \/ r = [q EXCEPT !.clean = FALSE]
                  \/ r = [q EXCEPT !.at = "vet", !.aim = "robots", !.hop = Robots,
                                   !.hops = MaxRedirects]
                  \/ r = [q EXCEPT !.at = "look"]
  BY <1>3 DEF Dequeue
<1> HIDE DEF p, queue, url
<1>5. q \in States /\ q.at = "next"
  BY <1>1, <1>2 DEF States
<1> HIDE DEF q
<1>6. \/ Idle(r)
      \/ r.at = "vet" /\ r.hops = MaxRedirects /\ r.aim = "robots"
  BY <1>4, <1>5 DEF States, Idle
<1>7. FetchAfter(r)
  BY <1>6, IdleAfter, LimitsAssumption DEF FetchAfter
<1>8. crawl[c].at # "write"
  BY <1>1 DEF p
<1>9. Becomes(c, r)
  BY <1>4
<1> QED BY <1>1, <1>7, <1>8, <1>9, StableStep

LEMMA LookFiles ==
    ASSUME TypeOK, FilesExplained, NEW c \in Crawls, Look(c)
    PROVE  FilesExplained'
<1> DEFINE q == crawl[c]
           hop == q.url
<1>1. q \in States /\ q.at = "look" /\ UNCHANGED <<world, cache>> /\ hop \in Urls
  BY StateFields DEF TypeOK, Look
<1>2. PICK r : /\ Becomes(c, r)
               /\ \/ r = [q EXCEPT !.at = "next"]
                  \/ r = Collected(q, cache[q.url])
                  \/ r = [q EXCEPT !.at = "vet", !.aim = "page", !.hop = hop,
                                   !.hops = MaxRedirects]
  BY DEF Look
<1>3. FetchAfter(r)
  <2> HIDE DEF q, hop
  <2>1. CASE r = [q EXCEPT !.at = "next"]
    BY <1>1, <2>1, IdleAfter DEF States, Idle
  <2>2. CASE r = Collected(q, cache[q.url])
    BY <1>1, <2>2, CollectedIdle, IdleAfter
  <2>3. CASE r = [q EXCEPT !.at = "vet", !.aim = "page", !.hop = hop,
                           !.hops = MaxRedirects]
    <3>1. r.at = "vet" /\ r.hops = MaxRedirects /\ r.hop = hop /\ r.url = q.url
      BY <1>1, <2>3 DEF States
    <3>2. r.url = hop /\ MaxRedirects - r.hops = 0 /\ r.hops <= MaxRedirects
      BY <3>1, LimitsAssumption DEF hop
    <3>3. Chain(r.url, r.hop, 0)
      BY <1>1, <3>1, <3>2, ChainSelf
    <3> QED BY <3>1, <3>2, <3>3 DEF FetchAfter
  <2> QED BY <1>2, <2>1, <2>2, <2>3
<1>4. crawl[c].at # "write" /\ Becomes(c, r)
  BY <1>1, <1>2
<1> QED BY <1>1, <1>3, <1>4, StableStep

LEMMA VetFiles ==
    ASSUME TypeOK, FilesExplained, NEW c \in Crawls, Vet(c)
    PROVE  FilesExplained'
<1>1. PICK q : q = crawl[c]
  OBVIOUS
<1>2. q \in States /\ q.at = "vet" /\ UNCHANGED <<world, cache>> /\ FetchExplained(q)
  BY <1>1 DEF TypeOK, Vet, FilesExplained
<1>3. PICK r : /\ Becomes(c, r)
               /\ \/ r = Missed(q)
                  \/ \E a : r = [q EXCEPT !.at = "dial", !.address = a]
  BY <1>1 DEF Vet
<1>4. CASE r = Missed(q)
  BY <1>1, <1>2, <1>3, <1>4, MissedIdle, IdleAfter, StableStep
<1>5. CASE \E a : r = [q EXCEPT !.at = "dial", !.address = a]
  <2>1. /\ r.at = "dial" /\ r.hops = q.hops /\ r.aim = q.aim /\ r.url = q.url
        /\ r.hop = q.hop
    BY <1>2, <1>5 DEF States
  <2>2. FetchAfter(r)
    BY <1>2, <2>1 DEF FetchExplained, FetchAfter, world
  <2> QED BY <1>1, <1>2, <1>3, <2>2, StableStep
<1> QED BY <1>3, <1>4, <1>5

LEMMA DialFiles ==
    ASSUME TypeOK, FilesExplained, NEW c \in Crawls, Dial(c) \/ NoAnswer(c)
    PROVE  FilesExplained'
<1>1. PICK q : q = crawl[c]
  OBVIOUS
<1> DEFINE answer == site[q.hop]
           location == Head(answer.links)
           page == Page(answer)
<1>2. /\ q \in States /\ q.at = "dial" /\ UNCHANGED <<world, cache>> /\ FetchExplained(q)
      /\ q.hop \in Urls /\ q.url \in Urls
  BY <1>1, StateFields DEF TypeOK, Dial, NoAnswer, FilesExplained
<1>3. PICK r : /\ Becomes(c, r)
               /\ \/ r = Missed(q)
                  \/ answer.kind = "redirect" /\ r = Redirected(q, location)
                  \/ r = Read(q, answer)
                  \/ /\ answer.kind = "html" /\ q.aim = "page"
                     /\ r = [q EXCEPT !.at = "open", !.page = page]
  BY <1>1 DEF Dial, NoAnswer
<1>4. /\ answer.kind = "redirect" => location \in Urls
      /\ site \in Sites
  BY <1>2, SiteType DEF TypeOK
<1>5. /\ q.hops \in Nat /\ q.hops <= MaxRedirects /\ MaxRedirects \in Nat
      /\ q.aim = "page" /\ changes = 0 => Chain(q.url, q.hop, MaxRedirects - q.hops)
  BY <1>2, LimitsAssumption DEF FetchExplained, States
<1>6. changes' = changes
  BY <1>2 DEF world
<1>7. FetchAfter(r)
  <2>1. CASE r = Missed(q)
    BY <1>2, <2>1, MissedIdle, IdleAfter
  <2>2. CASE r = Read(q, answer)
    BY <1>2, <2>2, ReadIdle, IdleAfter
  <2>3. CASE answer.kind = "redirect" /\ r = Redirected(q, location) /\ r # Missed(q)
    <3> DEFINE hops == q.hops - 1
    <3> HIDE DEF location
    <3>1. q.hops # 0 /\ r = [q EXCEPT !.at = "vet", !.hop = location, !.hops = hops]
      BY <2>3 DEF Redirected
    <3>2. /\ hops \in Nat /\ hops <= MaxRedirects /\ MaxRedirects - q.hops \in Nat
          /\ MaxRedirects - hops = (MaxRedirects - q.hops) + 1
      BY <1>5, <3>1
    <3> HIDE DEF hops
    <3>3. /\ r.at = "vet" /\ r.hops = hops /\ r.aim = q.aim /\ r.url = q.url
          /\ r.hop = location
      BY <1>2, <3>1 DEF States
    <3>4. ASSUME q.aim = "page", changes = 0
          PROVE  Chain(q.url, location, MaxRedirects - hops)
      <4>1. Chain(q.url, q.hop, MaxRedirects - q.hops)
        BY <1>5, <3>4
      <4>2. site[q.hop].kind = "redirect" /\ location \in Urls
            /\ location = Head(site[q.hop].links)
        BY <1>4, <2>3 DEF location
      <4>3. Chain(q.url, location, (MaxRedirects - q.hops) + 1)
        BY <3>2, <4>1, <4>2, ChainLink
      <4> QED BY <3>2, <4>3
    <3> QED BY <1>6, <3>2, <3>3, <3>4 DEF FetchAfter
  <2>4. CASE /\ answer.kind = "html" /\ q.aim = "page"
             /\ r = [q EXCEPT !.at = "open", !.page = page]
    <3>1. page \in Served
      BY <1>2, <1>4 DEF Served
    <3>2. ASSUME changes = 0 PROVE LeadsTo(q.url, page)
      <4>1. MaxRedirects - q.hops \in 0..MaxRedirects
        BY <1>5
      <4> QED BY <1>2, <1>5, <2>4, <3>2, <4>1 DEF LeadsTo
    <3> HIDE DEF page
    <3>3. r.at = "open" /\ r.page = page /\ r.url = q.url
      BY <1>2, <2>4 DEF States
    <3> QED BY <1>6, <3>1, <3>2, <3>3 DEF FetchAfter
  <2> QED BY <1>3, <2>1, <2>2, <2>3, <2>4
<1> QED BY <1>1, <1>2, <1>3, <1>7, StableStep

LEMMA OpenFiles ==
    ASSUME TypeOK, FilesExplained, NEW c \in Crawls, OpenFile(c)
    PROVE  FilesExplained'
<1>1. PICK q : q = crawl[c]
  OBVIOUS
<1>2. PICK r : Becomes(c, r) /\ r = [q EXCEPT !.at = "write"]
  BY <1>1 DEF OpenFile
<1>3. /\ q \in States /\ q.url \in Urls /\ q.at = "open" /\ FetchExplained(q)
      /\ cache' = [cache EXCEPT ![q.url] = Empty] /\ cache \in [Urls -> Pages]
      /\ site' = site /\ changes' = changes /\ deaths' = deaths
  BY <1>1, StateFields DEF TypeOK, OpenFile, FilesExplained, world
<1>4. \A u \in Urls : cache'[u] = IF u = q.url THEN Empty ELSE cache[u]
  BY <1>3
<1>5. \A d \in Crawls : crawl'[d] = IF d = c THEN r ELSE crawl[d]
  BY <1>2 DEF TypeOK, Becomes
<1>6. r.at = "write" /\ r.url = q.url /\ r.page = q.page
  BY <1>2, <1>3 DEF States
<1>7. FetchAfter(r)
  BY <1>3, <1>4, <1>6, MarksDiffer DEF FetchAfter, FetchExplained
<1>8. ASSUME NEW u \in Urls PROVE FileExplained(u)'
  <2>1. CASE u = q.url
    <3>1. cache'[u] = Empty /\ crawl'[c].at = "write" /\ crawl'[c].url = u
      BY <1>4, <1>5, <1>6, <2>1
    <3> QED BY <3>1 DEF FileExplained
  <2>2. CASE u # q.url
    <3>1. FileExplained(u) /\ cache'[u] = cache[u]
      BY <1>4, <2>2 DEF FilesExplained
    <3>2. \A d \in Crawls : crawl[d].at = "write" /\ crawl[d].url = u =>
             crawl'[d].at = "write" /\ crawl'[d].url = u
      BY <1>1, <1>5, <1>6, <2>2
    <3> QED BY <1>3, <3>1, <3>2, FileKept
  <2> QED BY <2>1, <2>2
<1>9. \A u \in Urls : cache[u] # Absent => cache'[u] # Absent
  BY <1>4, MarksDiffer
<1> QED BY <1>2, <1>3, <1>7, <1>8, <1>9, FetchStep

\* As long as the site stays, a file is never written over by another page.
LEMMA WriteFiles ==
    ASSUME TypeOK, FilesExplained, NEW c \in Crawls, WriteFile(c)
    PROVE  FilesExplained'
<1>1. PICK q : q = crawl[c]
  OBVIOUS
<1>2. PICK r : Becomes(c, r) /\ r = Collected(q, q.page)
  BY <1>1 DEF WriteFile
<1>3. /\ q \in States /\ q.url \in Urls /\ q.at = "write" /\ FetchExplained(q)
      /\ FileExplained(q.url) /\ cache \in [Urls -> Pages]
      /\ site' = site /\ changes' = changes /\ deaths' = deaths
  BY <1>1, StateFields DEF TypeOK, WriteFile, FilesExplained, world
<1>4. PICK page : /\ cache' = [cache EXCEPT ![q.url] = page]
                  /\ \/ page = q.page
                     \/ page = Mixed /\ cache[q.url] \notin {Empty, q.page}
  BY <1>1 DEF WriteFile
<1>5. \A u \in Urls : cache'[u] = IF u = q.url THEN page ELSE cache[u]
  BY <1>3, <1>4
<1>6. \A d \in Crawls : crawl'[d] = IF d = c THEN r ELSE crawl[d]
  BY <1>2 DEF TypeOK, Becomes
<1>7. FetchAfter(r)
  BY <1>2, <1>3, CollectedIdle, IdleAfter
<1>8. /\ q.page \in Served /\ cache[q.url] # Absent
      /\ changes = 0 => LeadsTo(q.url, q.page)
  BY <1>3 DEF FetchExplained
<1>9. page \notin {Absent, Empty} /\ page \in Served \cup {Mixed}
  BY <1>4, <1>8, ServedReal, MarksDiffer
<1>10. changes = 0 => page = q.page
  <2> SUFFICES ASSUME changes = 0, cache[q.url] # Empty PROVE cache[q.url] = q.page
    BY <1>4
  <2>1. LeadsTo(q.url, cache[q.url]) /\ LeadsTo(q.url, q.page)
    BY <1>3, <1>8 DEF FileExplained
  <2> QED BY <2>1, LeadsToOne
<1>11. ASSUME NEW u \in Urls PROVE FileExplained(u)'
  <2>1. CASE u = q.url
    <3>1. cache'[u] = page
      BY <1>5, <2>1
    <3>2. changes' = 0 => LeadsTo(u, page)'
      BY <1>3, <1>8, <1>10, <2>1, SameSite
    <3> QED BY <1>9, <3>1, <3>2 DEF FileExplained
  <2>2. CASE u # q.url
    <3>1. FileExplained(u) /\ cache'[u] = cache[u]
      BY <1>5, <2>2 DEF FilesExplained
    <3>2. \A d \in Crawls : crawl[d].at = "write" /\ crawl[d].url = u =>
             crawl'[d].at = "write" /\ crawl'[d].url = u
      BY <1>1, <1>6, <2>2
    <3> QED BY <1>3, <3>1, <3>2, FileKept
  <2> QED BY <2>1, <2>2
<1>12. \A u \in Urls : cache[u] # Absent => cache'[u] # Absent
  BY <1>5, <1>9
<1> QED BY <1>2, <1>3, <1>7, <1>11, <1>12, FetchStep

LEMMA DieFiles ==
    ASSUME TypeOK, FilesExplained, NEW c \in Crawls, Die(c)
    PROVE  FilesExplained'
<1>1. PICK r : Becomes(c, r) /\ r = [crawl[c] EXCEPT !.at = "dead"]
  BY DEF Die
<1>2. /\ site' = site /\ changes' = changes /\ deaths' > 0 /\ cache' = cache
  BY LimitsAssumption DEF Die, TypeOK
<1>3. FetchAfter(r)
  <2>1. crawl[c] \in States
    BY DEF TypeOK
  <2> QED BY <1>1, <2>1, IdleAfter DEF Idle, States
<1>4. \A u \in Urls : FileExplained(u)'
  BY <1>2, FileKept DEF FilesExplained
<1> QED BY <1>1, <1>2, <1>3, <1>4, FetchStep

LEMMA ChangeFiles ==
    ASSUME TypeOK, FilesExplained, Change
    PROVE  FilesExplained'
<1>1. changes' # 0 /\ UNCHANGED <<cache, crawl, deaths>>
  BY LimitsAssumption DEF Change, TypeOK
<1>2. \A u \in Urls : FileExplained(u)'
  BY <1>1, FileKept DEF FilesExplained
<1>3. ASSUME NEW c \in Crawls PROVE FetchExplained(crawl[c])'
  <2>1. FetchExplained(crawl[c])
    BY DEF FilesExplained
  <2> QED BY <1>1, <2>1 DEF FetchExplained
<1> QED BY <1>2, <1>3 DEF FilesExplained

\* That of the files.
FilesSound == Sound /\ FilesExplained

LEMMA InitFiles == Init => FilesSound
<1> SUFFICES ASSUME Init PROVE FilesExplained
  BY InitSound DEF FilesSound
<1>1. ASSUME NEW u \in Urls PROVE FileExplained(u)
  <2>1. cache[u] = Absent
    BY DEF Init
  <2> QED BY <2>1, MarksDiffer DEF FileExplained
<1>2. FetchExplained(Waiting)
  BY DEF FetchExplained, Waiting
<1> QED BY <1>1, <1>2 DEF FilesExplained, Init

LEMMA NextFiles == FilesSound /\ [Next]_vars => FilesSound'
<1> SUFFICES ASSUME FilesSound, [Next]_vars PROVE FilesExplained'
  BY NextSound DEF FilesSound
<1>0. TypeOK /\ FilesExplained
  BY DEF FilesSound, Sound
<1>1. CASE UNCHANGED vars
  <2>1. /\ site' = site /\ changes' = changes /\ deaths' = deaths
        /\ cache' = cache /\ crawl' = crawl
    BY <1>1 DEF vars
  <2>2. \A u \in Urls : FileExplained(u)'
    BY <1>0, <2>1, FileKept DEF FilesExplained
  <2>3. ASSUME NEW c \in Crawls PROVE FetchExplained(crawl[c])'
    <3>1. PICK q : q = crawl[c]
      OBVIOUS
    <3>2. FetchExplained(q)
      BY <1>0, <3>1 DEF FilesExplained
    <3>3. FetchAfter(q)
      BY <2>1, <3>2 DEF FetchExplained, FetchAfter
    <3> QED BY <2>1, <3>1, <3>3, AfterFetch
  <2> QED BY <2>2, <2>3 DEF FilesExplained
<1>2. ASSUME NEW c \in Crawls, NEW limit \in Limits, Begin(c, limit) PROVE FilesExplained'
  BY <1>0, <1>2, BeginFiles
<1>3. ASSUME NEW c \in Crawls, Step(c) PROVE FilesExplained'
  <2>1. CASE Finish(c)
    <3>1. PICK r : Becomes(c, r) /\ r = [crawl[c] EXCEPT !.at = "done"]
      BY <2>1 DEF Finish
    <3>2. crawl[c] \in States /\ crawl[c].at = "next" /\ UNCHANGED <<world, cache>>
      BY <1>0, <2>1 DEF Finish, TypeOK
    <3>3. Idle(r)
      BY <3>1, <3>2 DEF Idle, States
    <3> QED BY <1>0, <3>1, <3>2, <3>3, IdleAfter, StableStep
  <2> QED BY <1>0, <1>3, <2>1, DequeueFiles, LookFiles, VetFiles, DialFiles, OpenFiles,
             WriteFiles DEF Step
<1>4. ASSUME NEW c \in Crawls, Die(c) PROVE FilesExplained'
  BY <1>0, <1>4, DieFiles
<1>5. CASE Change
  BY <1>0, <1>5, ChangeFiles
<1> QED BY <1>1, <1>2, <1>3, <1>4, <1>5 DEF Next

(* For every site, however it changes, and with any number of crawls: what a  *)
(* crawl takes into its corpus was served, except from a file that another is *)
(* writing, that one died over, or that two wrote with a change between them. *)
THEOREM ServedHolds == Spec => CorpusServed
<1> DEFINE A == \A c \in Crawls :
                   \A i \in DOMAIN crawl'[c].results \ DOMAIN crawl[c].results :
                      crawl'[c].results[i].page \in Served \/ Spoilt(c)
<1>1. FilesSound /\ [Next]_vars => A
  <2> SUFFICES ASSUME FilesSound, [Next]_vars, NEW c \in Crawls,
                      NEW i \in DOMAIN crawl'[c].results \ DOMAIN crawl[c].results
               PROVE  crawl'[c].results[i].page \in Served \/ Spoilt(c)
    OBVIOUS
  <2>1. PICK q : q = crawl[c]
    OBVIOUS
  <2>2. PICK r : r = crawl'[c]
    OBVIOUS
  <2>3. /\ q \in States /\ r \in States /\ Move(q, r) /\ Orderly(q)
        /\ FileExplained(q.url) /\ FetchExplained(q) /\ q.url \in Urls
    BY <2>1, <2>2, SoundTidy, Moves, StateFields
    DEF FilesSound, Sound, TypeOK, FilesExplained
  <2>4. PICK page : /\ Added(q, r, page)
                    /\ \/ q.at = "look" /\ Cached(q.url) /\ page = cache[q.url]
                       \/ q.at = "write" /\ page = q.page
    <3>1. DOMAIN r.results # DOMAIN q.results /\ r.results # <<>>
      BY <2>1, <2>2
    <3> QED BY <2>3, <3>1 DEF Move, Began, Kept, Taken
  <2>5. r.results[i].page = page
    <3>1. page \in Pages
      BY <2>4 DEF Added
    <3>2. Gain(q, r, page, Len(q.results), q.queue, r.queue)
      BY <2>3, <2>4, <3>1, AddedGain
    <3>3. /\ i \in 1..(Len(q.results) + 1) /\ i \notin 1..Len(q.results)
          /\ Len(q.results) \in Nat
          /\ r.results[Len(q.results) + 1].page = page
      BY <2>1, <2>2, <3>2 DEF Gain
    <3>4. i = Len(q.results) + 1
      BY <3>3
    <3> QED BY <3>3, <3>4
  <2>6. CASE q.at = "write" /\ page = q.page
    BY <2>2, <2>3, <2>5, <2>6 DEF FetchExplained
  <2>7. CASE q.at = "look" /\ Cached(q.url) /\ page = cache[q.url]
    <3>1. page \in Served \/ page = Empty \/ page = Mixed
      BY <2>3, <2>7 DEF FileExplained, Cached
    <3>2. ASSUME page = Empty PROVE Spoilt(c)
      <4>1. deaths > 0 \/ \E d \in Crawls : crawl[d].at = "write" /\ crawl[d].url = q.url
        BY <2>3, <2>7, <3>2 DEF FileExplained
      <4> QED BY <2>1, <2>7, <4>1 DEF Spoilt
    <3>3. ASSUME page = Mixed PROVE Spoilt(c)
      <4>1. TypeOK
        BY DEF FilesSound, Sound
      <4>2. changes # 0
        <5> SUFFICES ASSUME changes = 0 PROVE FALSE
          OBVIOUS
        <5>1. LeadsTo(q.url, Mixed)
          BY <2>3, <2>7, <3>3, MarksDiffer DEF FileExplained
        <5>2. Mixed \in Served
          BY <4>1, <5>1, LeadsServed
        <5> QED BY <5>2, ServedReal
      <4>3. changes > 0
        BY <4>1, <4>2, LimitsAssumption DEF TypeOK
      <4> QED BY <2>1, <2>7, <3>3, <4>3 DEF Spoilt
    <3> QED BY <2>2, <2>5, <3>1, <3>2, <3>3
  <2> QED BY <2>4, <2>6, <2>7
<1>2. FilesSound /\ [Next]_vars => [A]_vars
  BY <1>1
<1>3. CorpusServed <=> [][A]_vars
  BY DEF CorpusServed
<1> HIDE DEF A
<1> QED BY <1>2, <1>3, InitFiles, NextFiles, PTL DEF Spec

-----------------------------------------------------------------------------
(* The course of a crawl.                                                   *)

\* The terms of a crawl and where it stands are as they were.
Unmoved(q, r) ==
    /\ r.limit = q.limit /\ r.queue = q.queue /\ r.seen = q.seen /\ r.results = q.results
    /\ r.after = q.after /\ r.clean = q.clean

\* What the steps of a crawl do, as far as its course goes.
Dies(q, r) == q.at \in {"idle", "write"} /\ r.at = "dead" /\ r.after \in {{}, q.after}

Soiled(q, r) ==
    /\ q.at \in {"next", "vet", "dial"} /\ r.at \in {"next", "look"}
    /\ ~r.clean /\ r.after = q.after
    /\ r.at = "look" => r.robots # "unread"

Starts(q, r) ==
    /\ q.at = "idle" /\ r.at = "next" /\ r.limit \in Nat \ {0} /\ Stands(r, First)
    /\ r.robots = "unread" /\ r.after = {d \in Crawls : crawl[d].at = "done"}

Grasps(q, r) ==
    /\ q.at = "next" /\ More(q) /\ r.queue = Tail(q.queue) /\ r.url = Head(q.queue)
    /\ r.limit = q.limit /\ r.seen = q.seen /\ r.results = q.results
    /\ r.after = q.after /\ r.clean = q.clean
    /\ r.robots = q.robots /\ r.barred = q.barred
    /\ \/ r.at = "vet" /\ r.aim = "robots" /\ Respect
       \/ r.at = "look" /\ (Respect => q.robots # "unread")

Passes(q, r) ==
    /\ q.at = "look" /\ ~CanFetch(q) /\ r.at = "next" /\ Unmoved(q, r)
    /\ r.robots = q.robots /\ r.barred = q.barred

Ends(q, r) ==
    /\ q.at = "next" /\ ~More(q) /\ r.at = "done" /\ Unmoved(q, r)
    /\ r.robots = q.robots /\ r.barred = q.barred

Finds(q, r) ==
    q.at = "look" /\ CanFetch(q) /\ Cached(q.url) /\ r = Collected(q, cache[q.url])

\* On the way to a page, or to robots.txt.
GoesOn(q, r) ==
    /\ InHand(q) /\ q.at # "write" /\ InHand(r) /\ r.at # "look" /\ Unmoved(q, r)
    /\ r.robots = q.robots /\ r.barred = q.barred /\ r.url = q.url
    /\ r.at = "write" => q.at = "open" /\ cache' = [cache EXCEPT ![q.url] = Empty]
    /\ r.at \in {"vet", "dial"} /\ r.aim = "robots" =>
           q.at \in {"vet", "dial"} /\ q.aim = "robots"
    /\ Fetches(r) => Fetches(q) \/ (q.at = "look" /\ ~Cached(q.url))

LearnsRobots(q, r) ==
    /\ q.at = "dial" /\ q.aim = "robots" /\ r.at = "look" /\ r.robots = "read"
    /\ Unmoved(q, r) /\ r.url = q.url

Writes(q, r) == q.at = "write" /\ r = Collected(q, q.page)

Deed(q, r) ==
    \/ Dies(q, r) \/ Soiled(q, r) \/ Starts(q, r) \/ Grasps(q, r) \/ Passes(q, r) \/ Ends(q, r)
    \/ Finds(q, r) \/ GoesOn(q, r) \/ LearnsRobots(q, r) \/ Writes(q, r)

\* The file that a deed writes is that of the URL in hand.
Filed(q, r) ==
    \/ cache' = cache /\ q.at # "write"
    \/ cache' = cache /\ r.at = "dead"
    \/ q.at = "open" /\ r.at = "write" /\ cache' = [cache EXCEPT ![q.url] = Empty]
    \/ /\ q.at = "write"
       /\ \/ cache' = [cache EXCEPT ![q.url] = q.page]
          \/ cache[q.url] # Empty /\ cache' = [cache EXCEPT ![q.url] = Mixed]

Done(c, r) == Becomes(c, r) /\ Deed(crawl[c], r) /\ Filed(crawl[c], r)

LEMMA BeginDeed ==
    ASSUME NEW c \in Crawls, NEW limit \in Limits, Begin(c, limit)
    PROVE  \E r : Done(c, r)
<1>0. limit \in Nat \ {0} /\ Waiting \in States
  BY LimitsAssumption, WaitingType
<1> DEFINE after == {d \in Crawls : crawl[d].at = "done"}
           queue == <<Start>>
           seen == {Start}
<1>1. PICK r : /\ Becomes(c, r)
               /\ \/ r = [Waiting EXCEPT !.at = "next", !.limit = limit, !.queue = queue,
                                         !.seen = seen, !.after = after]
                  \/ r = [Waiting EXCEPT !.at = "dead"]
  BY DEF Begin
<1>2. crawl[c].at = "idle" /\ cache' = cache
  BY DEF Begin
<1>3. CASE r = [Waiting EXCEPT !.at = "dead"]
  <2>1. r.at = "dead" /\ r.after = {}
    BY <1>3 DEF Waiting
  <2> QED BY <1>1, <1>2, <2>1 DEF Done, Deed, Dies, Filed
<1>4. CASE r = [Waiting EXCEPT !.at = "next", !.limit = limit, !.queue = queue,
                               !.seen = seen, !.after = after]
  <2> HIDE DEF after, queue, seen
  <2>1. /\ r.at = "next" /\ r.limit = limit /\ r.queue = queue /\ r.seen = seen
        /\ r.after = after /\ r.results = <<>> /\ r.robots = "unread"
    BY <1>4 DEF Waiting
  <2>2. Stands(r, First)
    BY <2>1 DEF Stands, First, InHand, queue, seen
  <2> QED BY <1>0, <1>1, <1>2, <2>1, <2>2 DEF Done, Deed, Starts, Filed, after
<1> QED BY <1>1, <1>3, <1>4

LEMMA DequeueDeed ==
    ASSUME TypeOK, NEW c \in Crawls, Dequeue(c)
    PROVE  \E r : Done(c, r)
<1> DEFINE p == crawl[c]
           queue == Tail(p.queue)
           url == Head(p.queue)
           q == [p EXCEPT !.queue = queue, !.url = url]
<1>1. p \in States /\ p.at = "next" /\ More(p) /\ cache' = cache
  BY DEF TypeOK, Dequeue
<1>2. queue \in Seq(Urls) /\ url \in Urls
  BY <1>1, StateFields DEF More
<1>3. q = Popped(p)
  BY DEF Popped
<1>4. PICK r : /\ Becomes(c, r)
               /\ \/ r = [q EXCEPT !.clean = FALSE]
                  \/ /\ Respect
                     /\ r = [q EXCEPT !.at = "vet", !.aim = "robots", !.hop = Robots,
                                      !.hops = MaxRedirects]
                  \/ /\ Respect => q.robots # "unread"
                     /\ r = [q EXCEPT !.at = "look"]
  BY <1>3 DEF Dequeue
<1> HIDE DEF p, queue, url
<1>5. /\ q \in States /\ q.queue = queue /\ q.url = url /\ q.at = "next"
      /\ q.limit = p.limit /\ q.seen = p.seen /\ q.results = p.results
      /\ q.robots = p.robots /\ q.barred = p.barred /\ q.after = p.after /\ q.clean = p.clean
  BY <1>1, <1>2 DEF States
<1> HIDE DEF q
<1>6. Deed(p, r)
  <2>1. CASE r = [q EXCEPT !.clean = FALSE]
    <3>1. r.at = "next" /\ ~r.clean /\ r.after = q.after
      BY <1>5, <2>1 DEF States
    <3> QED BY <1>1, <1>5, <3>1 DEF Deed, Soiled
  <2>2. CASE Respect /\ r = [q EXCEPT !.at = "vet", !.aim = "robots", !.hop = Robots,
                                      !.hops = MaxRedirects]
    <3>1. /\ r.at = "vet" /\ r.aim = "robots" /\ r.queue = q.queue /\ r.url = q.url
          /\ r.limit = q.limit /\ r.seen = q.seen /\ r.results = q.results
          /\ r.robots = q.robots /\ r.barred = q.barred /\ r.after = q.after
          /\ r.clean = q.clean
      BY <1>5, <2>2 DEF States
    <3> QED BY <1>1, <1>5, <2>2, <3>1 DEF Deed, Grasps, queue, url
  <2>3. CASE (Respect => q.robots # "unread") /\ r = [q EXCEPT !.at = "look"]
    <3>1. /\ r.at = "look" /\ r.queue = q.queue /\ r.url = q.url
          /\ r.limit = q.limit /\ r.seen = q.seen /\ r.results = q.results
          /\ r.robots = q.robots /\ r.barred = q.barred /\ r.after = q.after
          /\ r.clean = q.clean
      BY <1>5, <2>3 DEF States
    <3> QED BY <1>1, <1>5, <2>3, <3>1 DEF Deed, Grasps, queue, url
  <2> QED BY <1>4, <2>1, <2>2, <2>3
<1>7. Becomes(c, r)
  BY <1>4
<1> QED BY <1>1, <1>6, <1>7 DEF Done, Filed, p

LEMMA MissedSoiled ==
    ASSUME NEW q \in States, q.at \in {"vet", "dial"}
    PROVE  Soiled(q, Missed(q))
<1> DEFINE r == Missed(q)
<1>1. CASE q.aim = "robots"
  <2>1. r = [q EXCEPT !.at = "look", !.robots = "unreadable", !.clean = FALSE]
    BY <1>1 DEF Missed
  <2> HIDE DEF r
  <2>2. r.at = "look" /\ r.robots = "unreadable" /\ ~r.clean /\ r.after = q.after
    BY <2>1 DEF States
  <2> QED BY <2>2 DEF Soiled, r
<1>2. CASE q.aim # "robots"
  <2>1. r = [q EXCEPT !.at = "next", !.clean = FALSE]
    BY <1>2 DEF Missed
  <2> HIDE DEF r
  <2>2. r.at = "next" /\ ~r.clean /\ r.after = q.after
    BY <2>1 DEF States
  <2> QED BY <2>2 DEF Soiled, r
<1> QED BY <1>1, <1>2

LEMMA LookDeed ==
    ASSUME TypeOK, NEW c \in Crawls, Look(c)
    PROVE  \E r : Done(c, r)
<1> DEFINE q == crawl[c]
           hop == q.url
<1>1. q \in States /\ q.at = "look" /\ cache' = cache
  BY DEF TypeOK, Look
<1>2. PICK r : /\ Becomes(c, r)
               /\ \/ ~CanFetch(q) /\ r = [q EXCEPT !.at = "next"]
                  \/ CanFetch(q) /\ Cached(q.url) /\ r = Collected(q, cache[q.url])
                  \/ /\ ~Cached(q.url)
                     /\ r = [q EXCEPT !.at = "vet", !.aim = "page", !.hop = hop,
                                      !.hops = MaxRedirects]
  BY DEF Look
<1>3. Deed(q, r)
  <2> HIDE DEF q, hop
  <2>1. CASE ~CanFetch(q) /\ r = [q EXCEPT !.at = "next"]
    <3>1. /\ r.at = "next" /\ Unmoved(q, r) /\ r.robots = q.robots /\ r.barred = q.barred
      BY <1>1, <2>1 DEF States, Unmoved
    <3> QED BY <1>1, <2>1, <3>1 DEF Deed, Passes
  <2>2. CASE CanFetch(q) /\ Cached(q.url) /\ r = Collected(q, cache[q.url])
    BY <1>1, <2>2 DEF Deed, Finds
  <2>3. CASE /\ ~Cached(q.url)
             /\ r = [q EXCEPT !.at = "vet", !.aim = "page", !.hop = hop,
                              !.hops = MaxRedirects]
    <3>1. /\ r.at = "vet" /\ r.aim = "page" /\ Unmoved(q, r) /\ r.url = q.url
          /\ r.robots = q.robots /\ r.barred = q.barred
      BY <1>1, <2>3 DEF States, Unmoved
    <3> QED BY <1>1, <2>3, <3>1 DEF Deed, GoesOn, InHand
  <2> QED BY <1>2, <2>1, <2>2, <2>3
<1>4. Becomes(c, r)
  BY <1>2
<1> QED BY <1>1, <1>3, <1>4 DEF Done, Filed

LEMMA VetDeed ==
    ASSUME TypeOK, NEW c \in Crawls, Vet(c)
    PROVE  \E r : Done(c, r)
<1> DEFINE q == crawl[c]
<1>1. q \in States /\ q.at = "vet" /\ cache' = cache
  BY DEF TypeOK, Vet
<1>2. PICK r : /\ Becomes(c, r)
               /\ r = Missed(q) \/ \E a : r = [q EXCEPT !.at = "dial", !.address = a]
  BY DEF Vet
<1>3. Deed(q, r)
  <2> HIDE DEF q
  <2>1. CASE r = Missed(q)
    BY <1>1, <2>1, MissedSoiled DEF Deed
  <2>2. CASE \E a : r = [q EXCEPT !.at = "dial", !.address = a]
    <3>1. /\ r.at = "dial" /\ r.aim = q.aim /\ Unmoved(q, r) /\ r.url = q.url
          /\ r.robots = q.robots /\ r.barred = q.barred
      BY <1>1, <2>2 DEF States, Unmoved
    <3> QED BY <1>1, <3>1 DEF Deed, GoesOn, InHand, Fetches
  <2> QED BY <1>2, <2>1, <2>2
<1>4. Becomes(c, r)
  BY <1>2
<1> QED BY <1>1, <1>3, <1>4 DEF Done, Filed

LEMMA DialDeed ==
    ASSUME TypeOK, NEW c \in Crawls, Dial(c) \/ NoAnswer(c)
    PROVE  \E r : Done(c, r)
<1> DEFINE q == crawl[c]
           answer == site[q.hop]
           location == Head(answer.links)
           page == Page(answer)
           bars == ToSet(answer.links)
<1>1. q \in States /\ q.at = "dial" /\ cache' = cache
  BY DEF TypeOK, Dial, NoAnswer
<1>2. PICK r : /\ Becomes(c, r)
               /\ \/ r = Missed(q)
                  \/ r = Redirected(q, location)
                  \/ q.aim = "robots" /\ r = Read(q, answer)
                  \/ q.aim = "page" /\ r = [q EXCEPT !.at = "open", !.page = page]
  BY DEF Dial, NoAnswer
<1>3. Deed(q, r)
  <2> HIDE DEF q, location, page
  <2>1. CASE r = Missed(q)
    BY <1>1, <2>1, MissedSoiled DEF Deed
  <2>2. CASE r # Missed(q) /\ r = Redirected(q, location)
    <3>1. r = [q EXCEPT !.at = "vet", !.hop = location, !.hops = @ - 1]
      BY <2>2 DEF Redirected
    <3>2. /\ r.at = "vet" /\ r.aim = q.aim /\ Unmoved(q, r) /\ r.url = q.url
          /\ r.robots = q.robots /\ r.barred = q.barred
      BY <1>1, <3>1 DEF States, Unmoved
    <3> QED BY <1>1, <3>2 DEF Deed, GoesOn, InHand, Fetches
  <2>3. CASE r # Missed(q) /\ q.aim = "robots" /\ r = Read(q, answer)
    <3>1. \/ r = [q EXCEPT !.at = "look", !.robots = "read", !.barred = bars]
          \/ r = [q EXCEPT !.at = "look", !.robots = "read", !.barred = {}]
      BY <2>3 DEF Read
    <3> HIDE DEF bars
    <3>2. r.at = "look" /\ r.robots = "read" /\ Unmoved(q, r) /\ r.url = q.url
      BY <1>1, <3>1 DEF States, Unmoved
    <3> QED BY <1>1, <2>3, <3>2 DEF Deed, LearnsRobots
  <2>4. CASE q.aim = "page" /\ r = [q EXCEPT !.at = "open", !.page = page]
    <3>1. /\ r.at = "open" /\ Unmoved(q, r) /\ r.url = q.url
          /\ r.robots = q.robots /\ r.barred = q.barred
      BY <1>1, <2>4 DEF States, Unmoved
    <3> QED BY <1>1, <2>4, <3>1 DEF Deed, GoesOn, InHand, Fetches
  <2> QED BY <1>2, <2>1, <2>2, <2>3, <2>4
<1>4. Becomes(c, r)
  BY <1>2
<1> QED BY <1>1, <1>3, <1>4 DEF Done, Filed

LEMMA RestDeed ==
    ASSUME TypeOK, NEW c \in Crawls, Finish(c) \/ OpenFile(c) \/ WriteFile(c) \/ Die(c)
    PROVE  \E r : Done(c, r)
<1> DEFINE q == crawl[c]
<1>1. q \in States
  BY DEF TypeOK
<1>2. CASE Finish(c)
  <2>1. PICK r : Becomes(c, r) /\ r = [q EXCEPT !.at = "done"]
    BY <1>2 DEF Finish
  <2>2. q.at = "next" /\ ~More(q) /\ cache' = cache
    BY <1>2 DEF Finish
  <2> HIDE DEF q
  <2>3. r.at = "done" /\ Unmoved(q, r) /\ r.robots = q.robots /\ r.barred = q.barred
    BY <1>1, <2>1 DEF States, Unmoved
  <2> QED BY <2>1, <2>2, <2>3 DEF Done, Deed, Ends, Filed, q
<1>3. CASE OpenFile(c)
  <2>1. PICK r : Becomes(c, r) /\ r = [q EXCEPT !.at = "write"]
    BY <1>3 DEF OpenFile
  <2>2. q.at = "open" /\ cache' = [cache EXCEPT ![q.url] = Empty]
    BY <1>3 DEF OpenFile
  <2> HIDE DEF q
  <2>3. /\ r.at = "write" /\ Unmoved(q, r) /\ r.robots = q.robots /\ r.barred = q.barred
        /\ r.url = q.url
    BY <1>1, <2>1 DEF States, Unmoved
  <2>4. GoesOn(q, r)
    BY <2>2, <2>3 DEF GoesOn, InHand, Fetches
  <2> QED BY <2>1, <2>2, <2>3, <2>4 DEF Done, Deed, Filed, q
<1>4. CASE WriteFile(c)
  <2>1. Becomes(c, Collected(q, q.page))
    BY <1>4 DEF WriteFile
  <2>2. /\ q.at = "write"
        /\ \/ cache' = [cache EXCEPT ![q.url] = q.page]
           \/ cache[q.url] # Empty /\ cache' = [cache EXCEPT ![q.url] = Mixed]
    BY <1>4 DEF WriteFile
  <2> QED BY <2>1, <2>2 DEF Done, Deed, Writes, Filed
<1>5. CASE Die(c)
  <2>1. PICK r : Becomes(c, r) /\ r = [q EXCEPT !.at = "dead"]
    BY <1>5 DEF Die
  <2>2. q.at = "write" /\ cache' = cache
    BY <1>5 DEF Die
  <2> HIDE DEF q
  <2>3. r.at = "dead" /\ r.after = q.after
    BY <1>1, <2>1 DEF States
  <2> QED BY <2>1, <2>2, <2>3 DEF Done, Deed, Dies, Filed, q
<1> QED BY <1>2, <1>3, <1>4, <1>5

\* A step does one of these things to one crawl, or nothing to the crawls and their files.
LEMMA Deeds ==
    ASSUME TypeOK, [Next]_vars
    PROVE  \/ UNCHANGED <<crawl, cache>>
           \/ \E c \in Crawls : \E r : Done(c, r)
  BY BeginDeed, DequeueDeed, LookDeed, VetDeed, DialDeed, RestDeed DEF Next, Step, Change, vars

LEMMA CollectedRest ==
    ASSUME NEW q \in States, NEW page
    PROVE  LET r == Collected(q, page) IN
           /\ r.at = "next" /\ r.limit = q.limit /\ r.robots = q.robots /\ r.barred = q.barred
           /\ r.after = q.after /\ r.clean = q.clean
           /\ IF \E i \in DOMAIN q.results : q.results[i].page.text = page.text
              THEN r.queue = q.queue /\ r.seen = q.seen /\ r.results = q.results
              ELSE LET frontier == Frontier(q.queue, q.seen, q.limit, page.links) IN
                   /\ r.queue = frontier.queue /\ r.seen = frontier.seen
                   /\ r.results = Append(q.results, [url |-> q.url, page |-> page])
<1> DEFINE f == Frontier(q.queue, q.seen, q.limit, page.links)
           results == Append(q.results, [url |-> q.url, page |-> page])
           queue == f.queue
           seen == f.seen
           r == Collected(q, page)
<1>1. CASE \E i \in DOMAIN q.results : q.results[i].page.text = page.text
  <2>1. r = [q EXCEPT !.at = "next"]
    BY <1>1 DEF Collected
  <2> HIDE DEF r
  <2>2. /\ r.at = "next" /\ r.limit = q.limit /\ r.robots = q.robots /\ r.barred = q.barred
        /\ r.after = q.after /\ r.clean = q.clean
        /\ r.queue = q.queue /\ r.seen = q.seen /\ r.results = q.results
    BY <2>1 DEF States
  <2> QED BY <1>1, <2>2 DEF r
<1>2. CASE ~\E i \in DOMAIN q.results : q.results[i].page.text = page.text
  <2>1. r = [q EXCEPT !.at = "next", !.results = results, !.queue = queue, !.seen = seen]
    BY <1>2 DEF Collected
  <2> HIDE DEF r, results, queue, seen
  <2>2. /\ r.at = "next" /\ r.limit = q.limit /\ r.robots = q.robots /\ r.barred = q.barred
        /\ r.after = q.after /\ r.clean = q.clean
        /\ r.queue = queue /\ r.seen = seen /\ r.results = results
    BY <2>1 DEF States
  <2> QED BY <1>2, <2>2 DEF r, queue, seen, results
<1> QED BY <1>1, <1>2

LEMMA DeedActive ==
    ASSUME NEW q \in States, NEW r, Deed(q, r)
    PROVE  r.at # "idle" /\ q.at \notin {"done", "dead"}
<1>1. ASSUME NEW page PROVE Collected(q, page).at = "next"
  BY CollectedRest
<1> QED BY <1>1 DEF Deed, Dies, Soiled, Starts, Grasps, Passes, Ends, Finds, GoesOn,
           LearnsRobots, Writes, InHand

\* Where the crawl stood at p, it still does, or has p's first URL behind it.
LEMMA GraspStands ==
    ASSUME NEW q, NEW r, NEW p, Stands(q, p), Grasps(q, r)
    PROVE  Stands(r, p)
  BY DEF Stands, Grasps, InHand, More

LEMMA EndStands ==
    ASSUME NEW q, NEW r, NEW p, Stands(q, p), Ends(q, r)
    PROVE  Stands(r, p)
  BY DEF Stands, Ends, InHand, Unmoved

LEMMA GoesOnStands ==
    ASSUME NEW q, NEW r, NEW p, Stands(q, p), GoesOn(q, r)
    PROVE  Stands(r, p)
  BY DEF Stands, GoesOn, Unmoved

LEMMA LearnsStands ==
    ASSUME NEW q, NEW r, NEW p, Stands(q, p), LearnsRobots(q, r)
    PROVE  Stands(r, p)
  BY DEF Stands, LearnsRobots, Unmoved, InHand

LEMMA DeedRobots ==
    ASSUME NEW q \in States, NEW r, RobotsFirst(q), Fetching(q), Deed(q, r)
    PROVE  RobotsFirst(r)
<1>1. CASE Dies(q, r)
  BY <1>1 DEF Dies, RobotsFirst
<1>2. CASE Soiled(q, r)
  BY <1>2 DEF Soiled, RobotsFirst
<1>3. CASE Starts(q, r)
  BY <1>3 DEF Starts, RobotsFirst
<1>4. CASE Grasps(q, r)
  BY <1>4, GraspStands DEF Grasps, RobotsFirst
<1>5. CASE Passes(q, r)
  BY <1>5 DEF Passes, RobotsFirst, Unmoved
<1>6. CASE Ends(q, r)
  <2>1. ~More(r)
    BY <1>6 DEF Ends, Unmoved, More
  <2> QED BY <1>6, <2>1, EndStands DEF Ends, RobotsFirst, Unmoved
<1>7. CASE Finds(q, r)
  <2>1. r.at = "next" /\ r.robots = q.robots /\ r.clean = q.clean /\ q.at = "look"
    BY <1>7, CollectedRest DEF Finds
  <2> QED BY <2>1 DEF RobotsFirst
<1>8. CASE GoesOn(q, r)
  BY <1>8, GoesOnStands DEF GoesOn, RobotsFirst, Unmoved, InHand
<1>9. CASE LearnsRobots(q, r)
  BY <1>9 DEF LearnsRobots, RobotsFirst, Unmoved
<1>10. CASE Writes(q, r)
  <2>1. r.at = "next" /\ r.robots = q.robots /\ r.clean = q.clean /\ q.at = "write"
    BY <1>10, CollectedRest DEF Writes
  <2>2. Respect => q.robots = "read"
    BY <2>1 DEF Fetching, CanFetch
  <2> QED BY <2>1, <2>2 DEF RobotsFirst
<1> QED BY <1>1, <1>2, <1>3, <1>4, <1>5, <1>6, <1>7, <1>8, <1>9, <1>10 DEF Deed

\* A crawl that is clean afterwards was, and began when it did; one that begins was idle.
LEMMA DeedAfter ==
    ASSUME NEW q \in States, NEW r, Deed(q, r)
    PROVE  \/ q.at = "idle" /\ r.at = "dead" /\ r.after \in {{}, q.after}
           \/ q.at = "idle" /\ r.after = {d \in Crawls : crawl[d].at = "done"}
           \/ /\ q.at # "idle" /\ r.after \in {{}, q.after}
              /\ r.clean /\ r.at # "dead" => q.clean
<1>1. CASE Finds(q, r) \/ Writes(q, r)
  <2>1. PICK page : q.at # "idle" /\ r = Collected(q, page)
    BY <1>1 DEF Finds, Writes
  <2>2. /\ Collected(q, page).after = q.after
        /\ Collected(q, page).clean = q.clean
    BY CollectedRest
  <2> QED BY <2>1, <2>2
<1>2. CASE Dies(q, r)
  BY <1>2 DEF Dies
<1>3. CASE Soiled(q, r)
  BY <1>3 DEF Soiled
<1>4. CASE Starts(q, r)
  BY <1>4 DEF Starts
<1>5. CASE Grasps(q, r)
  BY <1>5 DEF Grasps
<1>6. CASE Passes(q, r) \/ Ends(q, r)
  BY <1>6 DEF Passes, Ends, Unmoved
<1>7. CASE GoesOn(q, r) \/ LearnsRobots(q, r)
  BY <1>7 DEF GoesOn, LearnsRobots, Unmoved, InHand
<1> QED BY <1>1, <1>2, <1>3, <1>4, <1>5, <1>6, <1>7 DEF Deed

-----------------------------------------------------------------------------
(* Who crawls alone.                                                        *)

LEMMA SinceStep ==
    ASSUME TypeOK, Since, \A c \in Crawls : RobotsFirst(crawl[c]),
           NEW c \in Crawls, NEW r, Done(c, r)
    PROVE  Since'
<1>1. PICK q : q = crawl[c]
  OBVIOUS
<1>2. /\ q \in States /\ Deed(q, r) /\ Filed(q, r) /\ cache \in [Urls -> Pages]
      /\ \A d \in Crawls : crawl'[d] = IF d = c THEN r ELSE crawl[d]
      /\ q.at = "idle" => q.after = {}
  <2>1. q.at = "idle" => q = Waiting
    BY <1>1 DEF RobotsFirst
  <2> QED BY <1>1, <2>1 DEF Done, TypeOK, Becomes, Waiting
<1>3. q.url \in Urls
  BY <1>2, StateFields
<1>4. r.at # "idle" /\ q.at \notin {"done", "dead"}
  BY <1>2, DeedActive
<1>5. ASSUME NEW e \in Crawls, NEW d \in crawl'[e].after
      PROVE  d \in Crawls /\ d # e /\ crawl[d].at = "done" /\ crawl'[d].at = "done"
  <2>1. \A b \in Crawls : b \in crawl[e].after => b # e /\ crawl[b].at = "done"
    BY DEF Since
  <2>2. crawl[e].after \subseteq Crawls
    BY DEF TypeOK, States
  <2>3. \/ d \in crawl[e].after
        \/ e = c /\ q.at = "idle" /\ d \in Crawls /\ crawl[d].at = "done"
    BY <1>1, <1>2, DeedAfter
  <2>4. d \in Crawls /\ d # e /\ crawl[d].at = "done"
    BY <1>1, <2>1, <2>2, <2>3
  <2> QED BY <1>1, <1>2, <1>4, <2>4
<1>6. ASSUME NEW e \in Crawls, Alone(e)', crawl'[e].at = "write"
      PROVE  cache'[crawl'[e].url] = Empty
  <2>1. CASE e = c
    <3>1. r.at = "write"
      BY <1>2, <1>6, <2>1
    <3>2. /\ q.at = "open" /\ r.url = q.url
          /\ cache' = [cache EXCEPT ![q.url] = Empty]
      <4>1. CASE Finds(q, r) \/ Writes(q, r)
        BY <1>2, <3>1, <4>1, CollectedRest DEF Finds, Writes
      <4> QED BY <1>2, <3>1, <4>1 DEF Deed, Dies, Soiled, Starts, Grasps, Passes, Ends, GoesOn,
                 LearnsRobots, Unmoved
    <3> QED BY <1>2, <1>3, <2>1, <3>2
  <2>2. CASE e # c
    <3>1. crawl'[c].at = "idle" \/ e \in crawl'[c].after
      BY <1>6, <2>2 DEF Alone
    <3>2. e \in crawl'[c].after
      BY <1>2, <1>4, <3>1
    <3>3. crawl'[e].at = "done"
      BY <1>5, <3>2
    <3> QED BY <1>6, <3>3
  <2> QED BY <2>1, <2>2
<1> QED BY <1>5, <1>6 DEF Since

\* Who is alone after a step has just begun or was before.
LEMMA AloneStep ==
    ASSUME TypeOK, \A c \in Crawls : RobotsFirst(crawl[c]),
           NEW c \in Crawls, NEW r, Done(c, r), NEW d \in Crawls, Alone(d)'
    PROVE  Alone(d) \/ (d = c /\ crawl[c].at = "idle")
<1>1. PICK q : q = crawl[c]
  OBVIOUS
<1>2. /\ q \in States /\ Deed(q, r)
      /\ \A e \in Crawls : crawl'[e] = IF e = c THEN r ELSE crawl[e]
      /\ q.at = "idle" => q.after = {}
  <2>1. q.at = "idle" => q = Waiting
    BY <1>1 DEF RobotsFirst
  <2> QED BY <1>1, <2>1 DEF Done, TypeOK, Becomes, Waiting
<1>3. r.at # "idle" /\ q.at \notin {"done", "dead"}
  BY <1>2, DeedActive
<1>4. /\ crawl'[d].at \notin {"idle", "dead"} /\ crawl'[d].clean
      /\ \A e \in Crawls \ {d} : crawl'[e].at = "idle" \/ d \in crawl'[e].after
  BY DEF Alone
<1>5. ASSUME NEW e \in Crawls \ {d} PROVE crawl[e].at = "idle" \/ d \in crawl[e].after
  <2>1. CASE e = c
    <3>1. d \in r.after
      BY <1>2, <1>3, <1>4, <2>1
    <3> QED BY <1>1, <1>2, <2>1, <3>1, DeedAfter
  <2>2. CASE e # c
    BY <1>2, <1>4, <2>2
  <2> QED BY <2>1, <2>2
<1>6. CASE d = c
  <2>1. CASE q.at = "idle"
    BY <1>1, <1>6, <2>1
  <2>2. CASE q.at # "idle"
    <3>1. r.clean /\ r.at # "dead"
      BY <1>2, <1>4, <1>6
    <3>2. q.clean
      BY <1>2, <2>2, <3>1, DeedAfter
    <3> QED BY <1>1, <1>3, <1>5, <1>6, <2>2, <3>2 DEF Alone
  <2> QED BY <2>1, <2>2
<1>7. CASE d # c
  BY <1>2, <1>4, <1>5, <1>7 DEF Alone
<1> QED BY <1>6, <1>7

-----------------------------------------------------------------------------
(* The course of who crawls alone.                                          *)

\* By a URL that is barred, or whose page is in a file.
LEMMA PassOnward ==
    ASSUME NEW q \in States, NEW r, NEW p, NEW files, Stands(q, p), RobotsFirst(q), q.clean,
           Passes(q, r)
    PROVE  /\ Stands(r, Onward(p, q.limit, q.barred, files))
           /\ p.queue # <<>> /\ Len(p.results) < q.limit
           /\ Respect /\ Head(p.queue) \in q.barred
<1>1. /\ p.queue # <<>> /\ Len(p.results) < q.limit /\ q.url = Head(p.queue)
      /\ q.queue = Tail(p.queue) /\ q.seen = p.seen /\ q.results = p.results
  BY DEF Stands, Passes, InHand
<1>2. q.robots \in {"unread", "read", "unreadable"}
  BY DEF States
<1>3. Respect /\ q.robots = "read"
  BY <1>2 DEF Passes, CanFetch, RobotsFirst
<1>4. q.url \in q.barred
  BY <1>3 DEF Passes, CanFetch
<1>5. Onward(p, q.limit, q.barred, files)
        = [queue |-> Tail(p.queue), seen |-> p.seen, results |-> p.results]
  BY <1>1, <1>3, <1>4 DEF Onward
<1>6. /\ r.queue = q.queue /\ r.seen = q.seen /\ r.results = q.results /\ ~InHand(r)
  BY DEF Passes, Unmoved, InHand
<1> QED BY <1>1, <1>3, <1>4, <1>5, <1>6 DEF Stands

LEMMA CollectOnward ==
    ASSUME NEW q \in States, NEW p, Stands(q, p), InHand(q), CanFetch(q), NEW page,
           NEW files, files[q.url] = page
    PROVE  /\ p.queue # <<>> /\ Len(p.results) < q.limit /\ q.url = Head(p.queue)
           /\ ~(Respect /\ Head(p.queue) \in q.barred)
           /\ Stands(Collected(q, page), Onward(p, q.limit, q.barred, files))
<1>1. /\ p.queue # <<>> /\ Len(p.results) < q.limit /\ q.url = Head(p.queue)
      /\ q.queue = Tail(p.queue) /\ q.seen = p.seen /\ q.results = p.results
  BY DEF Stands
<1>2. ~(Respect /\ Head(p.queue) \in q.barred)
  BY <1>1 DEF CanFetch
<1> DEFINE f == Frontier(Tail(p.queue), p.seen, q.limit, page.links)
           dup == \E i \in DOMAIN p.results : p.results[i].page.text = page.text
           o == IF dup
                THEN [queue |-> Tail(p.queue), seen |-> p.seen, results |-> p.results]
                ELSE [queue |-> f.queue, seen |-> f.seen,
                      results |-> Append(p.results, [url |-> q.url, page |-> page])]
           r == Collected(q, page)
<1>3. Stands(r, o)
  <2>1. /\ r.at = "next"
        /\ IF dup
           THEN r.queue = q.queue /\ r.seen = q.seen /\ r.results = q.results
           ELSE /\ r.queue = f.queue /\ r.seen = f.seen
                /\ r.results = Append(q.results, [url |-> q.url, page |-> page])
    BY <1>1, CollectedRest
  <2>2. ~InHand(r)
    BY <2>1 DEF InHand
  <2> HIDE DEF r, f, dup
  <2>3. CASE dup
    BY <1>1, <2>1, <2>2, <2>3 DEF Stands
  <2>4. CASE ~dup
    BY <1>1, <2>1, <2>2, <2>4 DEF Stands
  <2> QED BY <2>3, <2>4
<1>4. Onward(p, q.limit, q.barred, files) = o
  <2>1. files[Head(p.queue)] = page
    BY <1>1
  <2> QED BY <1>1, <1>2, <2>1 DEF Onward
<1> HIDE DEF o, r
<1> QED BY <1>1, <1>2, <1>3, <1>4 DEF r

LEMMA OnwardSame ==
    ASSUME NEW p, NEW limit, NEW barred, NEW files, NEW others,
           (Respect /\ Head(p.queue) \in barred) \/ others[Head(p.queue)] = files[Head(p.queue)]
    PROVE  Onward(p, limit, barred, files) = Onward(p, limit, barred, others)
  BY DEF Onward

\* A course is kept as long as its files are.
LEMMA LeadsStill ==
    ASSUME NEW f, NEW n \in Nat, NEW limit, NEW barred, NEW files, NEW risk,
           NEW others, NEW danger,
           Leads(f, n, limit, barred, files, risk),
           \A u \in Urls \ risk : files[u] # Absent => others[u] = files[u] /\ u \notin danger
    PROVE  Leads(f, n, limit, barred, others, danger)
<1>1. f[0] = First
  BY DEF Leads
<1>2. ASSUME NEW k \in 0..(n - 1)
      PROVE  LET url == Head(f[k].queue) IN
             /\ f[k].queue # <<>> /\ Len(f[k].results) < limit
             /\ (Respect /\ url \in barred) \/ (others[url] # Absent /\ url \in Urls \ danger)
             /\ f[k + 1] = Onward(f[k], limit, barred, others)
  <2> DEFINE url == Head(f[k].queue)
  <2>1. /\ f[k].queue # <<>> /\ Len(f[k].results) < limit
        /\ (Respect /\ url \in barred) \/ (files[url] # Absent /\ url \in Urls \ risk)
        /\ f[k + 1] = Onward(f[k], limit, barred, files)
    BY DEF Leads
  <2>2. \/ Respect /\ url \in barred
        \/ /\ others[url] = files[url]
           /\ others[url] # Absent /\ url \in Urls \ danger
    BY <2>1
  <2>3. Onward(f[k], limit, barred, files) = Onward(f[k], limit, barred, others)
    BY <2>2, OnwardSame
  <2> QED BY <2>1, <2>2, <2>3
<1> QED BY <1>1, <1>2 DEF Leads

\* A course goes on by one URL.
LEMMA LeadsFurther ==
    ASSUME NEW f, NEW n \in Nat, NEW limit, NEW barred, NEW files, NEW risk,
           Leads(f, n, limit, barred, files, risk),
           f[n].queue # <<>>, Len(f[n].results) < limit,
           \/ Respect /\ Head(f[n].queue) \in barred
           \/ files[Head(f[n].queue)] # Absent /\ Head(f[n].queue) \in Urls \ risk
    PROVE  \E g : Leads(g, n + 1, limit, barred, files, risk)
                  /\ g[n + 1] = Onward(f[n], limit, barred, files)
<1> DEFINE next == Onward(f[n], limit, barred, files)
           g == [k \in 0..(n + 1) |-> IF k = n + 1 THEN next ELSE f[k]]
<1> HIDE DEF next
<1>1. g[n + 1] = next /\ \A k \in 0..n : g[k] = f[k]
  OBVIOUS
<1> HIDE DEF g
<1>2. g[0] = First
  BY <1>1 DEF Leads
<1>3. ASSUME NEW k \in 0..n
      PROVE  LET url == Head(g[k].queue) IN
             /\ g[k].queue # <<>> /\ Len(g[k].results) < limit
             /\ (Respect /\ url \in barred) \/ (files[url] # Absent /\ url \in Urls \ risk)
             /\ g[k + 1] = Onward(g[k], limit, barred, files)
  <2>1. CASE k = n
    <3>1. g[k] = f[n] /\ g[k + 1] = Onward(f[n], limit, barred, files)
      BY <1>1, <2>1 DEF next
    <3> QED BY <3>1
  <2>2. CASE k # n
    <3>1. k \in 0..(n - 1) /\ g[k] = f[k] /\ g[k + 1] = f[k + 1]
      BY <1>1, <2>2
    <3> QED BY <3>1 DEF Leads
  <2> QED BY <2>1, <2>2
<1>4. Leads(g, n + 1, limit, barred, files, risk)
  <2>1. (n + 1) - 1 = n
    OBVIOUS
  <2> QED BY <1>2, <1>3, <2>1 DEF Leads
<1> QED BY <1>1, <1>4 DEF next

LEMMA DeedFetches ==
    ASSUME NEW q \in States, NEW r, Deed(q, r), Fetches(r)
    PROVE  r.url = q.url /\ (Fetches(q) \/ (q.at = "look" /\ ~Cached(q.url)))
<1>1. ~Finds(q, r) /\ ~Writes(q, r)
  <2>1. ASSUME NEW page PROVE Collected(q, page).at = "next"
    BY CollectedRest
  <2> QED BY <2>1 DEF Finds, Writes, Fetches
<1>2. ~Starts(q, r) /\ ~Grasps(q, r) /\ ~Passes(q, r) /\ ~Ends(q, r)
  BY DEF Starts, Grasps, Passes, Ends, Fetches
<1>3. ~Dies(q, r) /\ ~Soiled(q, r) /\ ~LearnsRobots(q, r)
  BY DEF Dies, Soiled, LearnsRobots, Fetches
<1>4. GoesOn(q, r)
  BY <1>1, <1>2, <1>3 DEF Deed
<1> QED BY <1>4 DEF GoesOn

\* A file that is there and that nobody fetches is not written, nor fetched.
LEMMA FilesKept ==
    ASSUME TypeOK, NEW c \in Crawls, NEW r, Done(c, r)
    PROVE  \A u \in Urls \ AtRisk :
               cache[u] # Absent => cache'[u] = cache[u] /\ u \notin AtRisk'
<1>1. PICK q : q = crawl[c]
  OBVIOUS
<1>2. /\ q \in States /\ Deed(q, r) /\ Filed(q, r) /\ cache \in [Urls -> Pages]
      /\ \A d \in Crawls : crawl'[d] = IF d = c THEN r ELSE crawl[d]
  BY <1>1 DEF Done, TypeOK, Becomes
<1>3. TAKE u \in Urls \ AtRisk
<1>4. HAVE cache[u] # Absent
<1>5. Fetches(q) => u # q.url
  BY <1>1, <1>3 DEF AtRisk
<1>6. cache'[u] = cache[u]
  <2>1. CASE q.at \in {"open", "write"}
    <3>1. u # q.url
      BY <1>5, <2>1 DEF Fetches
    <3> QED BY <1>2, <3>1 DEF Filed
  <2>2. CASE q.at \notin {"open", "write"}
    BY <1>2, <2>2 DEF Filed
  <2> QED BY <2>1, <2>2
<1>7. ASSUME NEW d \in Crawls, Fetches(crawl[d])' PROVE crawl'[d].url # u
  <2>1. CASE d = c
    <3>1. Fetches(r) /\ crawl'[d] = r
      BY <1>2, <1>7, <2>1 DEF Fetches
    <3>2. r.url = q.url /\ (Fetches(q) \/ (q.at = "look" /\ ~Cached(q.url)))
      BY <1>2, <3>1, DeedFetches
    <3> QED BY <1>4, <1>5, <3>1, <3>2 DEF Cached
  <2>2. CASE d # c
    <3>1. crawl'[d] = crawl[d]
      BY <1>2, <2>2
    <3>2. Fetches(crawl[d])
      BY <1>7, <3>1 DEF Fetches
    <3> QED BY <1>3, <3>1, <3>2 DEF AtRisk
  <2> QED BY <2>1, <2>2
<1>8. u \notin AtRisk'
  BY <1>7 DEF AtRisk
<1> QED BY <1>6, <1>8

\* What becomes of a crawl that stands at p, by a deed that leaves it clean.
LEMMA DeedTerms ==
    ASSUME NEW q \in States, NEW r, Deed(q, r), q.at # "idle", r.clean, r.at # "dead",
           ~LearnsRobots(q, r)
    PROVE  r.limit = q.limit /\ r.barred = q.barred
<1>1. CASE Finds(q, r) \/ Writes(q, r)
  <2>1. PICK page : r = Collected(q, page)
    BY <1>1 DEF Finds, Writes
  <2>2. Collected(q, page).limit = q.limit /\ Collected(q, page).barred = q.barred
    BY CollectedRest
  <2> QED BY <2>1, <2>2
<1>2. CASE Grasps(q, r) \/ Passes(q, r) \/ Ends(q, r) \/ GoesOn(q, r)
  BY <1>2 DEF Grasps, Passes, Ends, GoesOn, Unmoved
<1>3. ~Dies(q, r) /\ ~Soiled(q, r) /\ ~Starts(q, r)
  BY DEF Dies, Soiled, Starts
<1> QED BY <1>1, <1>2, <1>3 DEF Deed

LEMMA DeedStands ==
    ASSUME NEW q \in States, NEW r, NEW p, NEW files, Stands(q, p), RobotsFirst(q), Fetching(q),
           q.clean, Deed(q, r), r.clean, r.at # "dead", q.at # "idle", ~LearnsRobots(q, r),
           q.at = "look" => files[q.url] = cache[q.url],
           q.at = "write" => files[q.url] = q.page
    PROVE  \/ Stands(r, p)
           \/ /\ p.queue # <<>> /\ Len(p.results) < q.limit /\ q.url = Head(p.queue)
              /\ r.at = "next"
              /\ Stands(r, Onward(p, q.limit, q.barred, files))
              /\ \/ q.at = "look" /\ Respect /\ q.url \in q.barred
                 \/ q.at = "look" /\ Cached(q.url)
                 \/ q.at = "write" /\ CanFetch(q)
<1>1. CASE Grasps(q, r)
  BY <1>1, GraspStands
<1>2. CASE Ends(q, r)
  BY <1>2, EndStands
<1>3. CASE GoesOn(q, r)
  BY <1>3, GoesOnStands
<1>4. CASE Passes(q, r)
  <2>1. q.at = "look" /\ r.at = "next" /\ q.url = Head(p.queue)
    BY <1>4 DEF Passes, Stands, InHand
  <2> QED BY <1>4, <2>1, PassOnward
<1>5. CASE Finds(q, r)
  <2>1. /\ q.at = "look" /\ CanFetch(q) /\ Cached(q.url) /\ r = Collected(q, cache[q.url])
        /\ InHand(q)
    BY <1>5 DEF Finds, InHand
  <2>2. files[q.url] = cache[q.url]
    BY <2>1
  <2>3. r.at = "next"
    BY <2>1, CollectedRest
  <2>4. /\ p.queue # <<>> /\ Len(p.results) < q.limit /\ q.url = Head(p.queue)
        /\ Stands(r, Onward(p, q.limit, q.barred, files))
    BY <2>1, <2>2, CollectOnward
  <2> QED BY <2>1, <2>3, <2>4
<1>6. CASE Writes(q, r)
  <2>1. q.at = "write" /\ r = Collected(q, q.page) /\ CanFetch(q) /\ InHand(q)
    BY <1>6 DEF Writes, Fetching, InHand
  <2>2. files[q.url] = q.page
    BY <2>1
  <2>3. r.at = "next"
    BY <2>1, CollectedRest
  <2>4. /\ p.queue # <<>> /\ Len(p.results) < q.limit /\ q.url = Head(p.queue)
        /\ Stands(r, Onward(p, q.limit, q.barred, files))
    BY <2>1, <2>2, CollectOnward
  <2> QED BY <2>1, <2>3, <2>4
<1>7. ~Dies(q, r) /\ ~Soiled(q, r) /\ ~Starts(q, r)
  BY DEF Dies, Soiled, Starts
<1> QED BY <1>1, <1>2, <1>3, <1>4, <1>5, <1>6, <1>7 DEF Deed

\* Whoever crawls alone is on a course that the files hold.
OnCourse(d) == Alone(d) => \E n \in Nat : \E f : Retraced(f, n, d)

\* The inductive invariant of the courses.
CourseSound ==
    /\ FilesSound /\ IInv /\ Since
    /\ \A c \in Crawls : RobotsFirst(crawl[c]) /\ OnCourse(c)

\* The first step of who crawls alone.
LEMMA FirstStep ==
    ASSUME NEW d \in Crawls, Since, NEW r, Done(d, r), Alone(d)', crawl[d].at = "idle",
           TypeOK
    PROVE  \E n \in Nat : \E f : Retraced(f, n, d)'
<1>1. PICK q : q = crawl[d]
  OBVIOUS
<1>2. /\ q \in States /\ Deed(q, r) /\ crawl'[d] = r /\ q.at = "idle"
      /\ \A e \in Crawls \ {d} : crawl'[e] = crawl[e]
  BY <1>1 DEF Done, TypeOK, Becomes
<1>3. r.at # "dead"
  BY <1>2 DEF Alone
<1>4. Starts(q, r)
  BY <1>2, <1>3 DEF Deed, Dies, Soiled, Grasps, Passes, Ends, Finds, GoesOn, LearnsRobots,
     Writes, InHand
<1>5. Stands(r, First) /\ r.after = {c \in Crawls : crawl[c].at = "done"}
  BY <1>4 DEF Starts
<1>6. ASSUME NEW c \in Crawls PROVE d \notin crawl'[c].after
  <2>1. CASE c = d
    BY <1>1, <1>2, <1>5, <2>1
  <2>2. CASE c # d
    BY <1>1, <1>2, <2>2 DEF Since
  <2> QED BY <2>1, <2>2
<1> DEFINE f == [k \in {0} |-> First]
<1>7. f[0] = First
  OBVIOUS
<1> HIDE DEF f
<1>8. Leads(f, 0, r.limit, r.barred, cache', AtRisk')
  BY <1>7 DEF Leads
<1>9. Retraced(f, 0, d)'
  BY <1>2, <1>5, <1>6, <1>7, <1>8 DEF Retraced
<1> QED BY <1>9

\* Nobody has begun since a crawl that is under way did.
LEMMA NobodySince ==
    ASSUME NEW d \in Crawls, Since, NEW r, Done(d, r), TypeOK,
           crawl[d].at # "idle"
    PROVE  \A c \in Crawls : d \notin crawl'[c].after
<1>1. PICK q : q = crawl[d]
  OBVIOUS
<1>2. /\ q \in States /\ Deed(q, r) /\ crawl'[d] = r /\ q.at # "idle"
      /\ \A e \in Crawls \ {d} : crawl'[e] = crawl[e]
  BY <1>1 DEF Done, TypeOK, Becomes
<1>3. q.at # "done"
  BY <1>2, DeedActive
<1>4. r.after \in {{}, q.after}
  BY <1>2, DeedAfter
<1>5. TAKE c \in Crawls
<1>6. CASE c = d
  BY <1>1, <1>2, <1>4, <1>6 DEF Since
<1>7. CASE c # d
  BY <1>1, <1>2, <1>3, <1>7 DEF Since
<1> QED BY <1>6, <1>7

\* Another step of who crawls alone.
LEMMA OwnStep ==
    ASSUME NEW d \in Crawls, CourseSound, Since', NEW r, Done(d, r), Alone(d)',
           crawl[d].at # "idle"
    PROVE  \E n \in Nat : \E f : Retraced(f, n, d)'
<1>0. TypeOK /\ Since /\ FilesExplained /\ Alone(d)
  BY AloneStep DEF CourseSound, FilesSound, Sound
<1>1. PICK q : q = crawl[d]
  OBVIOUS
<1>2. /\ q \in States /\ Deed(q, r) /\ Filed(q, r) /\ crawl'[d] = r /\ q.at # "idle"
      /\ RobotsFirst(q) /\ Fetching(q) /\ q.clean
      /\ cache \in [Urls -> Pages] /\ q.url \in Urls
  BY <1>0, <1>1, StateFields
  DEF Done, TypeOK, Becomes, CourseSound, IInv, Good, Alone
<1>3. r.at # "dead" /\ r.clean
  BY <1>2 DEF Alone
<1>4. \A c \in Crawls : d \notin crawl'[c].after
  BY <1>0, <1>1, <1>2, NobodySince
<1>5. PICK n \in Nat : \E f : Retraced(f, n, d)
  BY <1>0 DEF CourseSound, OnCourse
<1>6. PICK f : Leads(f, n, q.limit, q.barred, cache, AtRisk) /\ Stands(q, f[n])
  BY <1>1, <1>5 DEF Retraced
<1>7. ASSUME NEW m \in Nat, NEW g, Leads(g, m, r.limit, r.barred, cache', AtRisk'),
             Stands(r, g[m])
      PROVE  \E k \in Nat : \E h : Retraced(h, k, d)'
  <2>1. Retraced(g, m, d)'
    BY <1>2, <1>4, <1>7 DEF Retraced
  <2> QED BY <2>1
<1>8. CASE LearnsRobots(q, r)
  <2>1. Stands(q, First)
    BY <1>2, <1>8 DEF LearnsRobots, RobotsFirst, Fetching
  <2>2. Stands(r, First)
    BY <1>8, <2>1, LearnsStands
  <2> DEFINE g == [k \in {0} |-> First]
  <2>3. g[0] = First
    OBVIOUS
  <2> HIDE DEF g
  <2>4. Leads(g, 0, r.limit, r.barred, cache', AtRisk')
    BY <2>3 DEF Leads
  <2>5. Stands(r, g[0])
    BY <2>2, <2>3
  <2> QED BY <1>7, <2>4, <2>5
<1>9. CASE ~LearnsRobots(q, r)
  <2>1. Leads(f, n, q.limit, q.barred, cache', AtRisk')
    <3>1. \A u \in Urls \ AtRisk :
             cache[u] # Absent => cache'[u] = cache[u] /\ u \notin AtRisk'
      BY <1>0, FilesKept
    <3> QED BY <1>6, <3>1, LeadsStill
  <2>2. /\ q.at = "look" => cache'[q.url] = cache[q.url]
        /\ q.at = "write" => cache'[q.url] = q.page
    <3>1. CASE q.at = "write"
      <4>1. cache[q.url] = Empty
        BY <1>0, <1>1, <3>1 DEF Since
      <4> QED BY <1>2, <1>3, <3>1, <4>1 DEF Filed
    <3>2. CASE q.at = "look"
      BY <1>2, <3>2 DEF Filed
    <3> QED BY <3>1, <3>2
  <2>3. r.limit = q.limit /\ r.barred = q.barred
    BY <1>2, <1>3, <1>9, DeedTerms
  <2>6. \/ Stands(r, f[n])
        \/ /\ f[n].queue # <<>> /\ Len(f[n].results) < q.limit
           /\ q.url = Head(f[n].queue) /\ r.at = "next"
           /\ Stands(r, Onward(f[n], q.limit, q.barred, cache'))
           /\ \/ q.at = "look" /\ Respect /\ q.url \in q.barred
              \/ q.at = "look" /\ Cached(q.url)
              \/ q.at = "write" /\ CanFetch(q)
    BY <1>2, <1>3, <1>6, <1>9, <2>2, DeedStands
  <2>4. CASE Stands(r, f[n])
    BY <1>7, <2>1, <2>3, <2>4
  <2>5. CASE ~Stands(r, f[n])
    <3>1. cache'[q.url] # Absent \/ (Respect /\ q.url \in q.barred)
      <4>1. CASE q.at = "look"
        BY <2>2, <2>3, <2>5, <2>6, <4>1 DEF Cached
      <4>2. CASE q.at = "write"
        <5>1. q.page \in Served
          BY <1>0, <1>1, <4>2 DEF FilesExplained, FetchExplained
        <5> QED BY <2>2, <4>2, <5>1, ServedReal
      <4> QED BY <2>3, <2>5, <2>6, <4>1, <4>2
    <3>2. AtRisk' = {}
      <4>1. ASSUME NEW e \in Crawls, Fetches(crawl[e])' PROVE FALSE
        <5>1. CASE e = d
          BY <1>2, <2>3, <2>5, <2>6, <4>1, <5>1 DEF Fetches
        <5>2. CASE e # d
          <6>1. crawl'[e].at = "idle"
            BY <1>4, <5>2 DEF Alone
          <6> QED BY <4>1, <6>1 DEF Fetches
        <5> QED BY <5>1, <5>2
      <4> QED BY <4>1 DEF AtRisk
    <3>3. PICK g : /\ Leads(g, n + 1, q.limit, q.barred, cache', AtRisk')
                   /\ g[n + 1] = Onward(f[n], q.limit, q.barred, cache')
      BY <1>2, <2>1, <2>3, <2>5, <2>6, <3>1, <3>2, LeadsFurther
    <3> QED BY <1>7, <2>3, <2>5, <2>6, <3>3
  <2> QED BY <2>4, <2>5
<1> QED BY <1>8, <1>9

\* A step of one who follows.
LEMMA OtherStep ==
    ASSUME NEW d \in Crawls, CourseSound, Since', NEW c \in Crawls \ {d}, NEW r, Done(c, r),
           Alone(d)'
    PROVE  \E n \in Nat : \E f : Retraced(f, n, d)'
<1>0. TypeOK /\ Since /\ Alone(d)
  BY AloneStep DEF CourseSound, FilesSound, Sound
<1>1. PICK q : q = crawl[c]
  OBVIOUS
<1>2. PICK b : b = crawl[d]
  OBVIOUS
<1>3. /\ q \in States /\ Deed(q, r) /\ Filed(q, r) /\ crawl'[c] = r /\ crawl'[d] = b
      /\ RobotsFirst(q) /\ Fetching(q) /\ RobotsFirst(b)
      /\ \A e \in Crawls \ {c} : crawl'[e] = crawl[e]
  BY <1>0, <1>1, <1>2 DEF Done, TypeOK, Becomes, CourseSound, IInv, Good
<1>4. d \in r.after
  <2>1. r.at # "idle"
    BY <1>3, DeedActive
  <2> QED BY <1>3, <2>1 DEF Alone
<1>5. b.at = "done" /\ ~More(b)
  <2>1. crawl'[d].at = "done"
    BY <1>3, <1>4 DEF Since
  <2> QED BY <1>3, <2>1 DEF RobotsFirst
<1>6. PICK n \in Nat : \E f : Retraced(f, n, d)
  BY <1>0 DEF CourseSound, OnCourse
<1>7. PICK f : Retraced(f, n, d)
  BY <1>6
<1>8. /\ Leads(f, n, b.limit, b.barred, cache, AtRisk) /\ Stands(b, f[n])
      /\ \A e \in Crawls :
            /\ d \in crawl[e].after /\ crawl[e].at # "dead" /\ crawl[e].clean
            /\ crawl[e].limit = b.limit /\ crawl[e].barred = b.barred
            => \E k \in 0..n : Stands(crawl[e], f[k])
  BY <1>2, <1>7 DEF Retraced
<1>9. Leads(f, n, b.limit, b.barred, cache', AtRisk')
  <2>1. \A u \in Urls \ AtRisk :
           cache[u] # Absent => cache'[u] = cache[u] /\ u \notin AtRisk'
    BY <1>0, FilesKept
  <2> QED BY <1>8, <2>1, LeadsStill
<1>10. ASSUME r.at # "dead", r.clean, r.limit = b.limit, r.barred = b.barred
       PROVE  \E k \in 0..n : Stands(r, f[k])
  <2>1. CASE Starts(q, r)
    <3>1. Stands(r, f[0]) /\ 0 \in 0..n
      BY <1>8, <2>1 DEF Starts, Leads
    <3> QED BY <3>1
  <2>2. CASE LearnsRobots(q, r)
    <3>1. Stands(q, First)
      <4>1. q.clean
        BY <1>3, <1>10, <2>2 DEF LearnsRobots, Unmoved
      <4> QED BY <1>3, <2>2, <4>1 DEF LearnsRobots, RobotsFirst, Fetching
    <3>2. Stands(r, f[0]) /\ 0 \in 0..n
      BY <1>8, <2>2, <3>1, LearnsStands DEF Leads
    <3> QED BY <3>2
  <2>3. CASE ~Starts(q, r) /\ ~LearnsRobots(q, r)
    <3>1. q.at # "idle"
      BY <1>3, <1>10, <2>3 DEF Deed, Dies, Soiled, Grasps, Passes, Ends, Finds, GoesOn,
         Writes, InHand
    <3>2. d \in q.after /\ q.clean /\ q.at # "dead"
      <4>1. r.after \in {{}, q.after} /\ q.clean
        BY <1>3, <1>10, <3>1, DeedAfter
      <4> QED BY <1>3, <1>4, <4>1, DeedActive
    <3>3. r.limit = q.limit /\ r.barred = q.barred
      BY <1>3, <1>10, <2>3, <3>1, DeedTerms
    <3>4. PICK k \in 0..n : Stands(q, f[k])
      BY <1>1, <1>8, <1>10, <3>2, <3>3
    <3> DEFINE files == [u \in {q.url} |-> IF q.at = "write" THEN q.page ELSE cache[u]]
    <3>5. /\ q.at = "look" => files[q.url] = cache[q.url]
          /\ q.at = "write" => files[q.url] = q.page
      OBVIOUS
    <3> HIDE DEF files
    <3>6. \/ Stands(r, f[k])
          \/ /\ f[k].queue # <<>> /\ Len(f[k].results) < q.limit /\ q.url = Head(f[k].queue)
             /\ r.at = "next"
             /\ Stands(r, Onward(f[k], q.limit, q.barred, files))
             /\ \/ q.at = "look" /\ Respect /\ q.url \in q.barred
                \/ q.at = "look" /\ Cached(q.url)
                \/ q.at = "write" /\ CanFetch(q)
      BY <1>3, <1>10, <2>3, <3>1, <3>2, <3>4, <3>5, DeedStands
    <3>7. CASE ~Stands(r, f[k])
      <4>1. k # n
        <5>1. b.queue = f[n].queue /\ b.results = f[n].results
          BY <1>5, <1>8 DEF Stands, InHand
        <5> QED BY <1>5, <1>10, <3>3, <3>6, <3>7, <5>1 DEF More
      <4>2. /\ k \in 0..(n - 1) /\ k + 1 \in 0..n
            /\ f[k + 1] = Onward(f[k], b.limit, b.barred, cache)
            /\ (Respect /\ q.url \in b.barred) \/ q.url \notin AtRisk
        BY <1>8, <3>6, <3>7, <4>1 DEF Leads
      <4>3. q.at # "write"
        <5> SUFFICES ASSUME q.at = "write" PROVE FALSE
          OBVIOUS
        <5>1. q.url \in AtRisk
          BY <1>1 DEF AtRisk, Fetches
        <5>2. CanFetch(q)
          BY <3>6, <3>7
        <5> QED BY <1>10, <3>3, <4>2, <5>1, <5>2 DEF CanFetch
      <4>4. Onward(f[k], q.limit, q.barred, files) = Onward(f[k], q.limit, q.barred, cache)
        BY <3>5, <3>6, <3>7, <4>3, OnwardSame
      <4>5. Stands(r, f[k + 1])
        BY <1>10, <3>3, <3>6, <3>7, <4>2, <4>4
      <4> QED BY <4>2, <4>5
    <3> QED BY <3>4, <3>7
  <2> QED BY <2>1, <2>2, <2>3
<1>11. ASSUME NEW e \in Crawls, d \in crawl'[e].after, crawl'[e].at # "dead",
              crawl'[e].clean, crawl'[e].limit = b.limit, crawl'[e].barred = b.barred
       PROVE  \E k \in 0..n : Stands(crawl'[e], f[k])
  <2>1. CASE e = c
    BY <1>3, <1>10, <1>11, <2>1
  <2>2. CASE e # c
    BY <1>3, <1>8, <1>11, <2>2
  <2> QED BY <2>1, <2>2
<1>12. Retraced(f, n, d)'
  BY <1>3, <1>8, <1>9, <1>11 DEF Retraced
<1> QED BY <1>12

LEMMA InitCourse == Init => CourseSound
<1> SUFFICES ASSUME Init PROVE CourseSound
  OBVIOUS
<1>1. FilesSound /\ IInv
  BY InitFiles, InitIInv
<1>2. \A c \in Crawls : crawl[c] = Waiting
  BY DEF Init
<1>3. RobotsFirst(Waiting) /\ Waiting.at = "idle" /\ Waiting.after = {}
  BY DEF RobotsFirst, Waiting
<1>4. \A c \in Crawls : RobotsFirst(crawl[c])
  BY <1>2, <1>3
<1>5. \A c \in Crawls : ~Alone(c) /\ crawl[c].after = {}
  BY <1>2, <1>3 DEF Alone
<1>6. Since
  BY <1>5 DEF Since
<1> QED BY <1>1, <1>4, <1>5, <1>6 DEF CourseSound, OnCourse

LEMMA StillCourse ==
    ASSUME CourseSound, UNCHANGED <<crawl, cache>>
    PROVE  Since' /\ \A c \in Crawls : RobotsFirst(crawl[c])' /\ OnCourse(c)'
<1>1. crawl' = crawl /\ cache' = cache
  OBVIOUS
<1>2. Since' /\ \A c \in Crawls : RobotsFirst(crawl[c])'
  BY <1>1 DEF CourseSound, Since, Alone, RobotsFirst, Stands, InHand, More
<1>3. ASSUME NEW d \in Crawls, Alone(d)' PROVE \E n \in Nat : \E f : Retraced(f, n, d)'
  <2>1. Alone(d)
    BY <1>1, <1>3 DEF Alone
  <2>2. PICK n \in Nat : \E f : Retraced(f, n, d)
    BY <2>1 DEF CourseSound, OnCourse
  <2>3. PICK f : Retraced(f, n, d)
    BY <2>2
  <2>4. AtRisk' = AtRisk
    BY <1>1 DEF AtRisk, Fetches
  <2>5. Retraced(f, n, d)'
    BY <1>1, <2>3, <2>4 DEF Retraced
  <2> QED BY <2>5
<1> QED BY <1>2, <1>3 DEF OnCourse

LEMMA NextCourse == CourseSound /\ [Next]_vars => CourseSound'
<1> SUFFICES ASSUME CourseSound, [Next]_vars PROVE CourseSound'
  OBVIOUS
<1>1. FilesSound' /\ IInv' /\ TypeOK
  BY NextFiles, NextIInv DEF CourseSound, FilesSound, Sound
<1>2. CASE UNCHANGED <<crawl, cache>>
  BY <1>1, <1>2, StillCourse DEF CourseSound
<1>3. ASSUME NEW c \in Crawls, NEW r, Done(c, r) PROVE CourseSound'
  <2>1. Since /\ \A d \in Crawls : RobotsFirst(crawl[d])
    BY DEF CourseSound
  <2>2. Since'
    BY <1>1, <1>3, <2>1, SinceStep
  <2>3. ASSUME NEW d \in Crawls PROVE RobotsFirst(crawl[d])'
    <3>1. PICK q : q = crawl[c]
      OBVIOUS
    <3>2. /\ q \in States /\ Deed(q, r) /\ RobotsFirst(q) /\ Fetching(q)
          /\ crawl'[d] = IF d = c THEN r ELSE crawl[d]
      BY <1>1, <1>3, <2>1, <3>1 DEF Done, TypeOK, Becomes, CourseSound, IInv, Good
    <3>3. RobotsFirst(r)
      BY <3>2, DeedRobots
    <3>4. RobotsFirst(crawl'[d])
      BY <2>1, <3>2, <3>3
    <3> QED BY <3>4 DEF RobotsFirst, Stands, InHand, More
  <2>4. ASSUME NEW d \in Crawls PROVE OnCourse(d)'
    <3> SUFFICES ASSUME Alone(d)' PROVE \E n \in Nat : \E f : Retraced(f, n, d)'
      BY DEF OnCourse
    <3> QED BY <1>1, <1>3, <2>1, <2>2, FirstStep, OwnStep, OtherStep
  <2> QED BY <1>1, <2>2, <2>3, <2>4 DEF CourseSound
<1> QED BY <1>1, <1>2, <1>3, Deeds

(* For every site, however it changes, and with any number of crawls: a crawl *)
(* that begins when another has ended, both of which found all they looked    *)
(* at, ends with the same corpus, if robots.txt bars the same and no third    *)
(* crawl is about; the files that the first has left are the reason.          *)
THEOREM RepeatsHold == Spec => []Repeats
<1>1. CourseSound => Repeats
  <2> SUFFICES ASSUME CourseSound, NEW c \in Crawls, NEW d \in crawl[c].after,
                      crawl[c].at = "done", crawl[c].clean, crawl[d].clean,
                      crawl[c].limit = crawl[d].limit, crawl[c].barred = crawl[d].barred,
                      \A e \in Crawls \ {c, d} : crawl[e].at = "idle"
               PROVE  crawl[c].results = crawl[d].results
    BY DEF Repeats
  <2>1. d \in Crawls /\ crawl[d].at = "done" /\ ~More(crawl[c])
    BY DEF CourseSound, FilesSound, Sound, TypeOK, States, Since, RobotsFirst
  <2>2. Alone(d)
    BY <2>1 DEF Alone
  <2>3. PICK n \in Nat : \E f : Retraced(f, n, d)
    BY <2>1, <2>2 DEF CourseSound, OnCourse
  <2>4. PICK f : Retraced(f, n, d)
    BY <2>3
  <2>5. PICK k \in 0..n : Stands(crawl[c], f[k])
    BY <2>4 DEF Retraced
  <2>6. k = n
    <3> SUFFICES ASSUME k # n PROVE FALSE
      OBVIOUS
    <3>1. k \in 0..(n - 1) /\ Leads(f, n, crawl[d].limit, crawl[d].barred, cache, AtRisk)
      BY <2>4 DEF Retraced
    <3>2. f[k].queue # <<>> /\ Len(f[k].results) < crawl[d].limit
      BY <3>1 DEF Leads
    <3> QED BY <2>1, <2>5, <3>2 DEF Stands, InHand, More
  <2>7. Stands(crawl[d], f[n])
    BY <2>4 DEF Retraced
  <2> QED BY <2>5, <2>6, <2>7 DEF Stands
<1> QED BY <1>1, InitCourse, NextCourse, PTL DEF Spec

=============================================================================
