------------------------------ MODULE Crawler ------------------------------
(***************************************************************************)
(* Breadth-first crawls of one site (crawl/crawler.py) with its robots.txt  *)
(* (crawl/robots.py), under the URL policy (crawl/guard.py). The worker's   *)
(* threads each make a crawl; they share the cache on disk, and nothing     *)
(* else. The site, and what its names resolve to, may change at any time.   *)
(***************************************************************************)
EXTENDS Integers, FiniteSets, Sequences, SequencesExt

CONSTANTS
    Crawls,        \* the crawls, each by a thread of its own
    Urls,          \* canonical URLs, of the site and of others
    Start,         \* the URL the crawls start from
    Robots,        \* the site's /robots.txt
    Hosts,
    HostOf,        \* HostOf[u]: the host of u
    Skipped,       \* URLs with one of _SKIP_EXTENSIONS
    Refused,       \* URLs whose scheme, host or port the policy refuses
    Addresses,     \* IP addresses
    NoAddress,     \* none, before the first lookup
    Blocked,       \* those is_blocked_address refuses
    AllowedHosts,  \* the policy's hosts that are not asked for their addresses
    Respect,       \* crawl_respect_robots
    MaxRedirects,  \* max_redirects of the policy
    Limits,        \* the max_pages of the crawls
    Texts,         \* the texts pages have
    Sites,         \* what the site and the others may serve, URL by URL
    Lookups,       \* what their names may resolve to
    MaxChanges,    \* bound: changes of the site or of its names
    MaxDeaths      \* bound: crawls that are killed, or fail to write a file

Answers ==
    [kind : {"html", "plain", "redirect", "missing", "error"}, text : Texts, links : Seq(Urls)]

ASSUME NamesAssumption ==
    /\ Start \in Urls /\ Robots \in Urls /\ Skipped \subseteq Urls /\ Refused \subseteq Urls
    /\ HostOf \in [Urls -> Hosts] /\ HostOf[Robots] = HostOf[Start]
    /\ Blocked \subseteq Addresses /\ AllowedHosts \subseteq Hosts /\ Respect \in BOOLEAN
    /\ {"absent", "", "mixed"} \cap Texts = {}
ASSUME LimitsAssumption ==
    /\ Limits \subseteq Nat \ {0} /\ MaxRedirects \in Nat
    /\ MaxChanges \in Nat /\ MaxDeaths \in Nat
ASSUME WebAssumption ==
    /\ Sites \subseteq [Urls -> Answers]
    /\ \A s \in Sites, u \in Urls : s[u].kind = "redirect" => Len(s[u].links) = 1
    /\ Lookups \subseteq [Hosts -> SUBSET Addresses]

VARIABLES
    site,     \* site[u]: what is served under u, by the site and the others
    dns,      \* dns[h]: the addresses h resolves to
    cache,    \* cache[u]: the file of the page of u
    crawl,    \* crawl[c]: the state of crawl c
    changes,  \* changes of the site or of its names so far (bounded by MaxChanges)
    deaths    \* crawls that died so far (bounded by MaxDeaths)

vars == <<site, dns, cache, crawl, changes, deaths>>

Page(answer) == [text |-> answer.text, links |-> answer.links]
Absent == [text |-> "absent", links |-> <<>>]   \* there is no file
Empty == [text |-> "", links |-> <<>>]          \* opened, and not written yet
Mixed == [text |-> "mixed", links |-> <<>>]     \* two pages written into one file

\* What crawl, RobotsPolicy and safe_get have in their variables. The last two
\* fields tell what happened, and no action reads them: the crawls that had ended
\* when this one began, and whether all it looked at was there.
Waiting ==
    [at |-> "idle", limit |-> 0, queue |-> <<>>, seen |-> {}, results |-> <<>>,
     robots |-> "unread", barred |-> {}, url |-> Start, aim |-> "page", hop |-> Start,
     hops |-> 0, address |-> NoAddress, page |-> Absent, after |-> {}, clean |-> TRUE]

Init ==
    /\ site \in Sites
    /\ dns \in Lookups
    /\ cache = [u \in Urls |-> Absent]
    /\ crawl = [c \in Crawls |-> Waiting]
    /\ changes = 0
    /\ deaths = 0

Becomes(c, state) == crawl' = [crawl EXCEPT ![c] = state]

world == <<site, dns, changes, deaths>>

-----------------------------------------------------------------------------
(* The policy (guard.py).                                                   *)

\* A slip: one public address is enough.
PublicOnce(h) == h \in AllowedHosts \/ dns[h] \ Blocked # {}

\* Every address of a host is looked at, since any of them may be dialled.
Public(h) == h \in AllowedHosts \/ dns[h] \cap Blocked = {}

\* validate_url: a host must resolve.
Permitted(u) == u \notin Refused /\ dns[HostOf[u]] # {} /\ Public(HostOf[u])

-----------------------------------------------------------------------------
(* The loop of crawl.                                                       *)

\* The seed is validated before anything; a refused one is the caller's error.
Begin(c, limit) ==
    /\ crawl[c].at = "idle"
    /\ IF Permitted(Start)
       THEN Becomes(c, [Waiting EXCEPT
                !.at = "next", !.limit = limit, !.queue = <<Start>>, !.seen = {Start},
                !.after = {d \in Crawls : crawl[d].at = "done"}])
       ELSE Becomes(c, [Waiting EXCEPT !.at = "dead"])
    /\ UNCHANGED <<world, cache>>

More(q) == q.queue # <<>> /\ Len(q.results) < q.limit

\* A slip: the frontier is a stack.
PoppedLast(q) == [q EXCEPT !.queue = Front(@), !.url = Last(q.queue)]

\* queue.popleft()
Popped(q) == [q EXCEPT !.queue = Tail(@), !.url = Head(q.queue)]

\* The URL is validated, cached or not; robots.txt is fetched with the first.
Dequeue(c) ==
    LET q == Popped(crawl[c])
    IN  /\ crawl[c].at = "next"
        /\ More(crawl[c])
        /\ Becomes(c,
               CASE ~Permitted(q.url) -> [q EXCEPT !.clean = FALSE]
                 [] Permitted(q.url) /\ Respect /\ q.robots = "unread" ->
                      [q EXCEPT !.at = "vet", !.aim = "robots", !.hop = Robots,
                                !.hops = MaxRedirects]
                 [] OTHER -> [q EXCEPT !.at = "look"])
        /\ UNCHANGED <<world, cache>>

Finish(c) ==
    /\ crawl[c].at = "next"
    /\ ~More(crawl[c])
    /\ Becomes(c, [crawl[c] EXCEPT !.at = "done"])
    /\ UNCHANGED <<world, cache>>

\* can_fetch: a policy that could not be read bars everything.
CanFetch(q) == Respect => q.robots = "read" /\ q.url \notin q.barred

\* One link of a page, if it is new, on the host, and the frontier has room.
Link(frontier, u, limit) ==
    IF \/ Cardinality(frontier.seen) >= 4 * limit
       \/ HostOf[u] # HostOf[Start]
       \/ u \in frontier.seen
       \/ u \in Skipped
    THEN frontier
    ELSE [queue |-> Append(frontier.queue, u), seen |-> frontier.seen \cup {u}]

Frontier(queue, seen, limit, links) ==
    LET frontier[n \in 0..Len(links)] ==
            IF n = 0 THEN [queue |-> queue, seen |-> seen]
            ELSE Link(frontier[n - 1], links[n], limit)
    IN  frontier[Len(links)]

\* A slip: a text may come twice.
CollectedTwice(q, page) ==
    LET frontier == Frontier(q.queue, q.seen, q.limit, page.links)
    IN  [q EXCEPT !.at = "next", !.results = Append(@, [url |-> q.url, page |-> page]),
                  !.queue = frontier.queue, !.seen = frontier.seen]

\* The page is a result and its links are followed, unless its text is known.
Collected(q, page) ==
    LET frontier == Frontier(q.queue, q.seen, q.limit, page.links)
    IN  IF \E i \in DOMAIN q.results : q.results[i].page.text = page.text
        THEN [q EXCEPT !.at = "next"]
        ELSE [q EXCEPT !.at = "next",
                       !.results = Append(@, [url |-> q.url, page |-> page]),
                       !.queue = frontier.queue, !.seen = frontier.seen]

\* A slip: the cache is written only.
CachedNever(u) == FALSE

Cached(u) == cache[u] # Absent

\* Barred by robots.txt, found in the cache, or to be fetched.
Look(c) ==
    LET q == crawl[c]
    IN  /\ q.at = "look"
        /\ Becomes(c,
               IF ~CanFetch(q) THEN [q EXCEPT !.at = "next"]
               ELSE IF Cached(q.url) THEN Collected(q, cache[q.url])
               ELSE [q EXCEPT !.at = "vet", !.aim = "page", !.hop = q.url,
                              !.hops = MaxRedirects])
        /\ UNCHANGED <<world, cache>>

-----------------------------------------------------------------------------
(* safe_get: of robots.txt or of a page, hop by hop.                        *)

\* A slip: the body of an error is kept like a page.
MissedKept(q) ==
    IF q.aim = "robots" THEN [q EXCEPT !.at = "look", !.robots = "unreadable", !.clean = FALSE]
    ELSE [q EXCEPT !.at = "open", !.page = Empty, !.clean = FALSE]

\* Without robots.txt nothing may be crawled; without the page, go on.
Missed(q) ==
    IF q.aim = "robots" THEN [q EXCEPT !.at = "look", !.robots = "unreadable", !.clean = FALSE]
    ELSE [q EXCEPT !.at = "next", !.clean = FALSE]

\* Each hop is validated from scratch, and one of the addresses seen is kept.
Vet(c) ==
    LET q == crawl[c]
    IN  /\ q.at = "vet"
        /\ IF Permitted(q.hop)
           THEN \E a \in dns[HostOf[q.hop]] :
                    Becomes(c, [q EXCEPT !.at = "dial", !.address = a])
           ELSE Becomes(c, Missed(q))
        /\ UNCHANGED <<world, cache>>

\* What robots.txt says: a plain text lists what is disallowed.
Read(q, answer) ==
    CASE answer.kind = "error" -> Missed(q)
      [] answer.kind = "plain" ->
           [q EXCEPT !.at = "look", !.robots = "read", !.barred = ToSet(answer.links)]
      [] OTHER -> [q EXCEPT !.at = "look", !.robots = "read", !.barred = {}]

\* A slip: the hops are not counted down.
RedirectedRound(q, location) ==
    IF q.hops = 0 THEN Missed(q) ELSE [q EXCEPT !.at = "vet", !.hop = location]

\* At most max_redirects of them.
Redirected(q, location) ==
    IF q.hops = 0 THEN Missed(q)
    ELSE [q EXCEPT !.at = "vet", !.hop = location, !.hops = @ - 1]

\* The address that was vetted is dialled, and it answers.
Dial(c) ==
    LET q == crawl[c]
        answer == site[q.hop]
    IN  /\ q.at = "dial"
        /\ Becomes(c,
               CASE answer.kind = "redirect" -> Redirected(q, Head(answer.links))
                 [] answer.kind # "redirect" /\ q.aim = "robots" -> Read(q, answer)
                 [] answer.kind = "html" /\ q.aim = "page" ->
                      [q EXCEPT !.at = "open", !.page = Page(answer)]
                 [] OTHER -> Missed(q))
        /\ UNCHANGED <<world, cache>>

\* It does not, or not in time, or with more than max_bytes.
NoAnswer(c) ==
    /\ crawl[c].at = "dial"
    /\ Becomes(c, Missed(crawl[c]))
    /\ UNCHANGED <<world, cache>>

-----------------------------------------------------------------------------
(* _write_cache: the file is truncated, then written, and nobody is locked out. *)

OpenFile(c) ==
    /\ crawl[c].at = "open"
    /\ cache' = [cache EXCEPT ![crawl[c].url] = Empty]
    /\ Becomes(c, [crawl[c] EXCEPT !.at = "write"])
    /\ UNCHANGED world

\* Over another page, the longer of the two shows behind the shorter.
WriteFile(c) ==
    LET q == crawl[c]
    IN  /\ q.at = "write"
        /\ \/ cache' = [cache EXCEPT ![q.url] = q.page]
           \/ /\ cache[q.url] \notin {Empty, q.page}
              /\ cache' = [cache EXCEPT ![q.url] = Mixed]
        /\ Becomes(c, Collected(q, q.page))
        /\ UNCHANGED world

\* The worker is killed, or the disk is full, in the middle of a file. A crawl
\* that dies elsewhere leaves nothing behind: it just takes no more steps.
Die(c) ==
    /\ crawl[c].at = "write"
    /\ deaths < MaxDeaths
    /\ deaths' = deaths + 1
    /\ Becomes(c, [crawl[c] EXCEPT !.at = "dead"])
    /\ UNCHANGED <<site, dns, cache, changes>>

-----------------------------------------------------------------------------
(* The site and its names.                                                  *)

Change ==
    /\ changes < MaxChanges
    /\ changes' = changes + 1
    /\ \/ site' \in Sites /\ UNCHANGED dns
       \/ dns' \in Lookups /\ UNCHANGED site
    /\ UNCHANGED <<cache, crawl, deaths>>

Step(c) ==
    \/ Dequeue(c) \/ Finish(c) \/ Look(c) \/ Vet(c) \/ Dial(c) \/ NoAnswer(c)
    \/ OpenFile(c) \/ WriteFile(c)

Next ==
    \/ \E c \in Crawls :
        \/ \E limit \in Limits : Begin(c, limit)
        \/ Step(c)
        \/ Die(c)
    \/ Change

Spec == Init /\ [][Next]_vars

\* As long as a thread crawls, one gets on: every request of httpx has a timeout.
FairSpec == Spec /\ WF_vars(\E c \in Crawls : Step(c))

-----------------------------------------------------------------------------
(* Properties.                                                             *)

Found(q) == {q.results[i].url : i \in DOMAIN q.results}

(* The corpus of a crawl has no page twice, under one URL or under two, and  *)
(* no more than were asked for; all of it was found on the site, and the     *)
(* frontier never grows beyond four times the limit.                         *)
CorpusSound ==
    \A c \in Crawls :
        LET q == crawl[c] IN
        /\ Len(q.results) <= q.limit
        /\ \A i, j \in DOMAIN q.results : i # j =>
               /\ q.results[i].url # q.results[j].url
               /\ q.results[i].page.text # q.results[j].page.text
        /\ \A u \in Found(q) : HostOf[u] = HostOf[Start]
        /\ Found(q) \cup ToSet(q.queue) \subseteq q.seen
        /\ Cardinality(q.seen) <= 4 * q.limit

\* For each n, the URLs within n links of the start over the pages of the corpus.
Balls(q) ==
    LET linked(from) ==
            UNION {ToSet(q.results[i].page.links) :
                   i \in {j \in DOMAIN q.results : q.results[j].url \in from}}
        ball[n \in 0..Len(q.results)] ==
            IF n = 0 THEN {Start}
            ELSE LET inner == ball[n - 1] IN inner \cup linked(inner)
    IN  {ball[n] : n \in 0..Len(q.results)}

(* The crawl is breadth-first: what it has taken in is no farther from the   *)
(* start than what came later or still waits, so a small limit keeps the     *)
(* pages nearest the start; and short of the frontier's bound no link of a   *)
(* result to another page of the site is lost.                              *)
BreadthFirst ==
    \A c \in Crawls :
        LET q == crawl[c] IN
        /\ \A ball \in Balls(q) :
               \A i \in DOMAIN q.results : q.results[i].url \notin ball =>
                   /\ \A j \in i..Len(q.results) : q.results[j].url \notin ball
                   /\ ToSet(q.queue) \cap ball = {}
        /\ \A i \in DOMAIN q.results : \A u \in ToSet(q.results[i].page.links) :
               \/ u \in q.seen \/ u \in Skipped \/ HostOf[u] # HostOf[Start]
               \/ Cardinality(q.seen) >= 4 * q.limit

(* guard.py: the address that was vetted is the address that is dialled,    *)
(* whatever the names come to resolve to and wherever a redirect leads; and  *)
(* robots.py: a page is asked for only under a policy that was read and      *)
(* does not bar it.                                                          *)
PolicyKept ==
    \A c \in Crawls :
        LET q == crawl[c] IN
        /\ q.at = "dial" => HostOf[q.hop] \in AllowedHosts \/ q.address \notin Blocked
        /\ q.at \in {"dial", "open", "write"} /\ q.aim = "page" => CanFetch(q)
        /\ \A u \in Found(q) : Respect => q.robots = "read" /\ u \notin q.barred

(* A crawl takes into its corpus what was served, and nothing else, save     *)
(* from a file that another crawl is writing, that one which died has left,  *)
(* or that two crawls have written after the site changed between them.      *)
Served == {Page(s[u]) : s \in Sites, u \in Urls}

Spoilt(c) ==
    \/ deaths > 0
    \/ \E d \in Crawls \ {c} : crawl[d].at = "write" /\ crawl[d].url = crawl[c].url
    \/ changes > 0 /\ cache[crawl[c].url] = Mixed

CorpusServed ==
    [][\A c \in Crawls :
           \A i \in DOMAIN crawl'[c].results \ DOMAIN crawl[c].results :
               crawl'[c].results[i].page \in Served \/ Spoilt(c)]_vars

(* crawler.py: "Re-running an experiment must not re-crawl": a crawl that    *)
(* begins after another has ended, for which all that it looked at was       *)
(* there, has the same corpus, though the site has changed meanwhile; as     *)
(* long as robots.txt bars the same and no third crawl is about.             *)
Repeats ==
    \A c \in Crawls : \A d \in crawl[c].after :
        /\ crawl[c].at = "done" /\ crawl[c].clean /\ crawl[d].clean
        /\ crawl[c].limit = crawl[d].limit /\ crawl[c].barred = crawl[d].barred
        /\ \A e \in Crawls \ {c, d} : crawl[e].at = "idle"
        => crawl[c].results = crawl[d].results

(* Every crawl that begins ends, whatever the site serves and however it     *)
(* changes: redirects that go round, pages that link to each other, requests *)
(* that fail.                                                                *)
CrawlEnds == <>[](\A c \in Crawls : crawl[c].at \in {"idle", "done", "dead"})

-----------------------------------------------------------------------------
(* What the proofs carry.                                                  *)

Pages == [text : Texts \cup {"absent", "", "mixed"}, links : Seq(Urls)]

States ==
    [at : {"idle", "next", "look", "vet", "dial", "open", "write", "done", "dead"},
     limit : Nat, queue : Seq(Urls), seen : SUBSET Urls,
     results : Seq([url : Urls, page : Pages]),
     robots : {"unread", "read", "unreadable"}, barred : SUBSET Urls,
     url : Urls, aim : {"robots", "page"}, hop : Urls, hops : Nat,
     address : Addresses \cup {NoAddress}, page : Pages, after : SUBSET Crawls,
     clean : BOOLEAN]

TypeOK ==
    /\ site \in Sites
    /\ dns \in Lookups
    /\ cache \in [Urls -> Pages]
    /\ crawl \in [Crawls -> States]
    /\ changes \in 0..MaxChanges
    /\ deaths \in 0..MaxDeaths

\* robots.txt is fetched once, before any page.
Fetching(q) ==
    /\ q.at \in {"vet", "dial"} /\ q.aim = "robots" => q.robots = "unread"
    /\ q.at \in {"open", "write"} => q.aim = "page"
    /\ q.at \in {"vet", "dial", "open", "write"} /\ q.aim = "page" => CanFetch(q)

\* The crawl has a URL in hand, taken from the queue and not done with.
InHand(q) == q.at \in {"look", "vet", "dial", "open", "write"}

\* A URL is in the queue, in hand or in the corpus once; all are known, and on the host.
Orderly(q) ==
    /\ Len(q.results) <= q.limit /\ (InHand(q) => Len(q.results) < q.limit)
    /\ \A i, j \in DOMAIN q.results : i # j =>
           /\ q.results[i].url # q.results[j].url
           /\ q.results[i].page.text # q.results[j].page.text
    /\ \A i, j \in DOMAIN q.queue : i # j => q.queue[i] # q.queue[j]
    /\ ToSet(q.queue) \cap Found(q) = {}
    /\ InHand(q) => q.url \in q.seen /\ q.url \notin Found(q) \cup ToSet(q.queue)
    /\ Found(q) \cup ToSet(q.queue) \subseteq q.seen
    /\ \A u \in q.seen : HostOf[u] = HostOf[Start]
    /\ IsFiniteSet(q.seen) /\ Cardinality(q.seen) <= 4 * q.limit

\* The start and the links of the first n results: what the crawl may know by then.
Linked(q, n) == {Start} \cup UNION {ToSet(q.results[i].page.links) : i \in 1..n}

\* What is taken into the corpus, or waits, before a URL among these is among them.
Sooner(q, urls) ==
    /\ \A j \in DOMAIN q.results : q.results[j].url \in urls =>
           \A i \in 1..j : q.results[i].url \in urls
    /\ InHand(q) /\ q.url \in urls => Found(q) \subseteq urls
    /\ \A j \in DOMAIN q.queue : q.queue[j] \in urls =>
           /\ Found(q) \subseteq urls
           /\ InHand(q) => q.url \in urls
           /\ \A i \in 1..j : q.queue[i] \in urls

\* What was known by then was taken sooner; and no link has been lost.
InOrder(q) ==
    /\ \A n \in 0..Len(q.results) : Sooner(q, Linked(q, n))
    /\ ToSet(q.queue) \cup Found(q) \subseteq Linked(q, Len(q.results))
    /\ InHand(q) => Start \in q.seen /\ q.url \in Linked(q, Len(q.results))
    /\ More(q) => Start \in q.seen
    /\ \A i \in DOMAIN q.results : \A u \in ToSet(q.results[i].page.links) :
           \/ u \in q.seen \/ u \in Skipped \/ HostOf[u] # HostOf[Start]
           \/ Cardinality(q.seen) >= 4 * q.limit

\* A redirect led from u to v in n hops.
Chain(u, v, n) ==
    \E hop \in [0..n -> Urls] :
        /\ hop[0] = u /\ hop[n] = v
        /\ \A i \in 0..(n - 1) :
               site[hop[i]].kind = "redirect" /\ hop[i + 1] = Head(site[hop[i]].links)

LeadsTo(u, page) ==
    \E v \in Urls : /\ \E n \in 0..MaxRedirects : Chain(u, v, n)
                   /\ site[v].kind = "html" /\ page = Page(site[v])

\* What a file holds was served; or it is empty, and then a crawl is writing it or died
\* over it; or it is a mixture, and then the site has changed.
FileExplained(u) ==
    /\ cache[u] \in Served \cup {Absent, Empty, Mixed}
    /\ cache[u] = Empty =>
           deaths > 0 \/ \E c \in Crawls : crawl[c].at = "write" /\ crawl[c].url = u
    /\ changes = 0 => cache[u] \in {Absent, Empty} \/ LeadsTo(u, cache[u])

\* While the site stays, what is fetched under a URL is what that URL leads to.
FetchExplained(q) ==
    /\ q.at \in {"vet", "dial"} =>
           /\ q.hops <= MaxRedirects
           /\ q.aim = "page" /\ changes = 0 => Chain(q.url, q.hop, MaxRedirects - q.hops)
    /\ q.at \in {"open", "write"} =>
           /\ q.page \in Served
           /\ changes = 0 => LeadsTo(q.url, q.page)
    /\ q.at = "write" => cache[q.url] # Absent

FilesExplained ==
    /\ \A u \in Urls : FileExplained(u)
    /\ \A c \in Crawls : FetchExplained(crawl[c])

\* The course of a crawl: what it has queued, seen and taken in, URL by URL.
First == [queue |-> <<Start>>, seen |-> {Start}, results |-> <<>>]

\* The crawl is at p: between two URLs, or with the first of p's in hand.
Stands(q, p) ==
    /\ q.seen = p.seen /\ q.results = p.results
    /\ IF InHand(q)
       THEN /\ p.queue # <<>> /\ Len(p.results) < q.limit
            /\ q.url = Head(p.queue) /\ q.queue = Tail(p.queue)
       ELSE q.queue = p.queue

\* robots.txt is read with the first URL.
RobotsFirst(q) ==
    /\ q.at = "look" /\ Respect => q.robots # "unread"
    /\ q.at \in {"vet", "dial"} /\ q.aim = "robots" => Respect
    /\ q.at \notin {"idle", "dead"} /\ q.clean =>
           /\ q.robots # "unreadable"
           /\ Respect /\ q.robots = "unread" => Stands(q, First)
    /\ q.at = "idle" => q = Waiting
    /\ q.at = "done" => ~More(q)

\* From p by the first of its URLs, which is barred or has a file.
Onward(p, limit, barred, files) ==
    LET url == Head(p.queue)
        page == files[url]
        frontier == Frontier(Tail(p.queue), p.seen, limit, page.links)
    IN  IF \/ Respect /\ url \in barred
           \/ \E i \in DOMAIN p.results : p.results[i].page.text = page.text
        THEN [queue |-> Tail(p.queue), seen |-> p.seen, results |-> p.results]
        ELSE [queue |-> frontier.queue, seen |-> frontier.seen,
              results |-> Append(p.results, [url |-> url, page |-> page])]

\* f[0] to f[n] is a course, for which the files are there and no file is at risk.
Leads(f, n, limit, barred, files, risk) ==
    /\ f[0] = First
    /\ \A k \in 0..(n - 1) :
           LET url == Head(f[k].queue) IN
           /\ f[k].queue # <<>> /\ Len(f[k].results) < limit
           /\ (Respect /\ url \in barred) \/ (files[url] # Absent /\ url \in Urls \ risk)
           /\ f[k + 1] = Onward(f[k], limit, barred, files)

Fetches(q) ==
    \/ q.at \in {"vet", "dial"} /\ q.aim = "page"
    \/ q.at \in {"open", "write"}

AtRisk == {crawl[c].url : c \in {d \in Crawls : Fetches(crawl[d])}}

\* The files hold the course of d so far; and who began when d had ended, on the same
\* terms, is somewhere on it.
Retraced(f, n, d) ==
    LET q == crawl[d] IN
    /\ Leads(f, n, q.limit, q.barred, cache, AtRisk)
    /\ Stands(q, f[n])
    /\ \A c \in Crawls :
           /\ d \in crawl[c].after /\ crawl[c].at # "dead" /\ crawl[c].clean
           /\ crawl[c].limit = q.limit /\ crawl[c].barred = q.barred
           => \E k \in 0..n : Stands(crawl[c], f[k])

\* Nobody has crawled beside d or before it.
Alone(d) ==
    /\ crawl[d].at \notin {"idle", "dead"} /\ crawl[d].clean
    /\ \A e \in Crawls \ {d} : crawl[e].at = "idle" \/ d \in crawl[e].after

Since ==
    \A c \in Crawls :
        /\ \A d \in crawl[c].after : d # c /\ crawl[d].at = "done"
        /\ Alone(c) /\ crawl[c].at = "write" => cache[crawl[c].url] = Empty

=============================================================================
