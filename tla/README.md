# GEOlytics in TLA+

GEOlytics is a multi-tenant service that crawls a customer's site, scores its
pages for retrieval by generative engines, and runs experiments on chunking and
retrieval. This directory holds specifications of the parts of it in which
order, concurrency and failure matter, model-checked with TLC on small
instances and, for what matters most, proved with TLAPS for every value of the
constants. Paths below are relative to `src/backend/geolytics/` unless they
start with `src/`.

## The system

Browser → dashboard (Next.js, `src/frontend/`) → API (FastAPI, several processes
of several threads) → PostgreSQL, Redis, Qdrant; the API puts audits on an arq
queue in Redis; workers (arq, `tasks/queue.py`) crawl and score and write the
results to PostgreSQL. Stripe calls the API's webhook.

All shared state is in PostgreSQL, in Redis and, for the worker's page cache, on
disk. Every request of the API has one session (`api/deps.py:get_db`), which
commits when the handler returns and rolls back when it raises; `create_audit`
also commits half way. Nothing locks a row for reading and the isolation level
is PostgreSQL's READ COMMITTED, so *between any two statements of a handler every
other handler and worker may commit*. Almost all the hazards come from this: a
handler reads, decides, and writes later.

| component | state | operations | what is hard | correct when |
|---|---|---|---|---|
| usage metering `tenancy/quotas.py` | `usage_counters` | `record_usage` | upsert under races, lock waits, rollbacks | no increment lost, every call returns |
| quota checks `tenancy/quotas.py`, plans | counters, audits, sites (read) | `check_audit_allowed`, `check_site_allowed` | check then act; the month turning over | limits hold up to the requests in the window |
| audits API `api/routes/audits.py` | `sites`, `audits`, the queue | create, delete | commit before enqueue | a counted audit has a job |
| worker `tasks/queue.py`, `pipeline.py` | audit status, crawls, counters | run, store, mark failed | redelivery, crashes, timeouts, threads that outlive their job | an audit settles, and is billed within its budget |
| billing `billing.py`, `api/routes/billing.py` | billing columns of the organisation; Stripe's subscriptions | checkout, portal, webhook | late, repeated, reordered, parallel events; retries | the row follows Stripe |
| organisations `api/routes/orgs.py` | memberships, keys | invite, role, remove, keys | parallel requests of several admins | an owner remains; limits and scopes hold |
| sessions `api/routes/auth.py`, `api/deps.py`, `security/` | password hash, `tokens_valid_from`, issued tokens | signup, login, refresh, change | parallel requests; rounded times; rehash | a password change ends every session |
| rate limiter `ratelimit.py` | one bucket in Redis | `check` | clocks of several processes, expiry, loss | never more than rate and burst; honest Retry-After |
| crawler `crawl/crawler.py`, `crawl/robots.py`, `crawl/guard.py` | frontier, results, page cache on disk | crawl | redirects, names that change, robots, a cache shared by threads and outlived by crashes | stays within policy, nearest pages first, repeatable, ends |
| dashboard `src/frontend/src/lib/` | cookies | silent refresh, proxy | refresh in the middle of a request | the retried request is the same request |
| extraction, chunking `crawl/extract.py`, `chunking/` | none | sections of a page, chunks of sections | boundaries, headings that skip levels, scraps | no word lost, each chunk under its headings |
| judging `evaluation/qagen.py`, `heuristic_qagen.py`, `projection.py` | a query set | ask, project a passage onto chunks | two segmentations of one page | a passage is found where it is, and nowhere else |
| retrieval `index/`, `retrieval/`, `evaluation/metrics.py` | an in-memory index, filled once | search, fuse, rerank, score | ties, limited depth, scores that cannot be compared | agreement survives, better rankings score better |
| GEO `geo/` | the fitted weights | answer, resolve citations, measure, fit | invented citations, empty answers | visible is cited |
| experiments `experiments/`, `evaluation/stats.py`, `pipeline.py`, `api/routes/experiments.py` | experiment runs and their query scores | run, compare, store, read back | names used again, several organisations, a family of tests | read back as reported, never overstated |

They interact through rows (API ↔ worker: `audits`, `usage_counters`), the queue
(API → worker), the organisation's row (webhook → admission of every request), and
the cache directory (crawl ↔ crawl). PROJECT.json lists every component with
its sources and its status, and the hazards with the line where each bites and
the properties that watch it.

## Modules

    AtomicCounter      the promise of record_usage: one atomic addition per call
    UsageCounter       record_usage, statement by statement       -> implements AtomicCounter
    AuditData          the tables and the queue that API and worker share
      AuditAdmission   create_audit, delete_audit, the quota checks
      AuditWorker      run_audit_task under arq
      AuditSystem      their composition, its fairness and properties
    Billing            Stripe, the webhook, checkout and portal
    OrgAccess          members, roles, seats, API keys
    Sessions           password, tokens, login, refresh, change
    RateLimiter        the token bucket script and its callers
    Crawler            crawls, their page cache, robots.txt, the URL policy
    Chunking           extraction of sections, the chunkers (functions)
      Judging          crawl -> chunk -> ask -> project
    Retrieval          search, fusion, reranking, metrics (functions and one call)
      Answers          experiment and calibrate: what is done with a ranking
    Statistics         paired comparisons, effect size, Holm (functions)
      Experiments      experiments run, stored and read back
    MC*                the same, with symmetry or the values TLC needs
    *Proofs            theorems, a module for each of the above that is composed
                       (SharedStateProofs: UsageCounter, RateLimiter and Billing, each
                       a row or a key that concurrent requests write)

Modules hold, marked "a slip", mutated forms of some definitions: each is a bug
the code could plausibly have, and each property is known to fail under one.
They are no part of the specifications. *History* variables record what
happened so that properties can speak of it; no action reads one.

### UsageCounter

One `usage_counters` row. `row` is the committed value, `draft` what an open
transaction has written and `holder` whose it is: PostgreSQL keeps the row
locked for it until it ends. `Bump` is the UPDATE (waits for the row), `BumpMisses`
the UPDATE that matches nothing, since an uncommitted INSERT is invisible,
`Insert` and `InsertConflicts` the savepoint, `Rebump` the UPDATE after the
IntegrityError, `CommitUpsert` and `Rollback` the caller's transaction. The
refinement maps the abstract total to the committed value (`Base`); the
answer, `told`, is the total at the call's own commit.

### AuditData, AuditAdmission, AuditWorker, AuditSystem

A handler of `create_audit` takes one step per statement that others can see or
that sees others: `OpenSite` (SELECT, quota check, INSERT and flush of the
site; the unique constraint makes a second insert of the URL wait),
`ReadUsage` (one SELECT for both counters), `CountRunning`, `Commit` (audit, site
and counter appear at once), `Enqueue`. `Abandon` is any refusal or error before
the commit. The worker's `Start` is the first transaction of `run_audit_task`,
`CrawlReturns`/`CrawlRaises` the crawl, `Store` and `MarkFailed` the
transactions that run in threads. arq is external and modelled from how it is
configured and called: at-least-once delivery, at most `MaxTries` executions,
`Slots = max_jobs` at a time, cancellation on shutdown (handed out again) and
on `job_timeout` (not). A cancelled coroutine's thread goes on: an execution
in "store" still stores, but its error finds no `except` clause. The record of
executions `task[a][t]` therefore keeps those of earlier tries.

Simplifications: one organisation, one plan whose limits are constants
(overrides are constants too); both monthly limits are checked in one step,
since they are checked on one SELECT; the budget a plan of no pages would get
never arises, because `check_audit_allowed` refuses when no page is left.

### Billing

`sub` is Stripe's truth, `sent` the events, `unacked` those Stripe still
retries. An event may lack its `current_period_end` (`NoPeriod`). A webhook is
two steps, `Apply` (read the row, pass the guard, assign in the session) and
`Commit` (flush and commit); the UPDATE sets only the columns that differ from
the row *as read* (`Changed`), as SQLAlchemy does, so parallel webhooks can
interleave by column. `Ignore` is a webhook that writes nothing. The portal and
the checkout need an active organisation (`Admitted`). History: `alone` (no two
webhooks have overlapped yet), `ordered` (events have come in order, none again
after its acknowledgement).

### OrgAccess

Memberships and keys of one organisation. A request is admitted with the role
its caller has then (`Authenticate`), reads what it needs in statements of their
own (`CountSeats`, `CheckNew`, `LoadMember`, `RefuseIfLastOwner`, `CountKeys`),
and writes at its end (`Commit*`, `Revoke`). `row[u]` tells the memberships a
person has had one after the other apart, as their ids do: an UPDATE of a row
that is gone fails, a DELETE does nothing. A key is the set of scopes it was
made with; expiry is not modelled, because the limit counts expired keys too.
History: `alone`, the requests that have not overlapped another.

### Sessions

One user. Times are ticks, `Second` ticks long seconds; `iat` is cut to a
second, `tokens_valid_from` is not, as in `security/tokens.py` and
`change_password`. A pair is a record of its issue time and its *era*, how many
password changes had been committed when the login it goes back to was made:
the era is history. Requests read the user (one step), take the time and write
(later ones); `Stamp` comes at least a tick after the request's arrival, because
two Argon2 computations lie between. A login whose hash has old parameters
writes the password back (`rehash`). History: `alone` in each request, `chosen`.

### RateLimiter

The Lua script is one atomic action `Script`; each process calls it with its
own clock, ahead by `Skew`, which differs by less than the minute `check` adds
to the key's ttl. Tokens are counted in units of 1/`Minute` token, so a tick
refills `PerMinute` units and no rounding is hidden. `Unanswered` is the
fail-open path after the script ran, `Lose` a Redis that comes back empty or a
`reset`. History: `spent`, what was taken since the tick `since`, which is any
tick, chosen at the start; `setback`, by how much writes of slow clocks have set
`updated` back. Capacity is `per_minute + burst` together, as in the code: a
full bucket and its refill serve almost twice the rate in one minute.

### Crawler

Each crawl is a record of the locals of `crawl`, `RobotsPolicy` and `safe_get`;
`at` is where it is. `Dequeue` takes a URL and validates it (and goes to
robots.txt with the first), `Look` asks robots and the cache, `Vet` is the
validation of one hop of `safe_get` with its lookup, which keeps one of the
addresses it saw, `Dial` the answer of that address, `NoAnswer` every way a
request fails. `OpenFile` and `WriteFile` are the two halves of
`Path.write_text`: the file is truncated, then written. `Change` replaces the
site, or what its names resolve to, at any moment. A page is its text and its
links; robots.txt is the set it bars; extraction is not modelled. History: the
fields `after` (crawls that had ended when this one began) and `clean` (nothing
it looked at failed or was refused).

Left out: `crawl_delay`, sitemaps, `fetch_one`, the normalisation of URLs. The
text of a file read while it is half written is only ever empty, whole or, when
two writers differ, mixed; a page larger than a write buffer could also be
seen cut, which `CorpusServed` allows for by excusing any reader of a file under
a writer. `Die` is a death over an open file; a crawl that dies elsewhere just
takes no more steps.

### Chunking, Judging

`Chunking` is functions on a page: `ExtractSections` folds the headings with their
stack, `FixedChunks`, `SentenceGroups`, `SemanticGroups` and `Children` are the
chunkers, with the offsets they give. A text is a sequence of positions of the
page; the code sees only the word at each, so every comparison is one of words
(`OccursAt`), and a property can still say *which* words a chunk holds. How a text
spells the word of a position is a function that goes with it, because chunking
spells some anew: `_SENTENCE_BOUNDARY.split` takes the quotes and brackets that
close behind a stop with the space that follows (`Unmarked`), and pieces joined
again have a space for a line's end (`InLine`); `Respelled` and `Windowed` are the
spellings of a sentence chunk and of a window. The text of a document is the
`article` that trafilatura or BeautifulSoup finds; the sections are cut from
the HTML by the module itself, so the two are words of their own, alike or not. `Judging` applies them:
`Extract`, `Chunk`, then `Generate` (a language model, any request of which may
fail) or `GenerateHeuristic` (templates; a question asked before is dropped), and
`Project`, which is `_covers` with its three ways to match. Each function of the
code is one of a page or a document; a group is the numbers of its sentences, and
what the code gathers in a loop is cut at a set of places (`Pieces`) or read by a
recursive function. `Plain` is what the constructors refuse to be without.

Simplifications: a word is one character and words are a space apart, so a text
of n words has 2n - 1 characters and one more for each closing mark behind a
stop, and tokens are words; the abbreviations `split_sentences` knows are words
that end a line or do not, of which the first, joined to the next line, is not
found in its section again (`find` returns -1, the code takes 0). A question is known by the unit it was written for. What an embedder makes of the
sentences, their distances, is part of the semantic chunker it is given to; the
run has two.

### Retrieval, Answers

`Retrieval` holds one `retrieve` call: scores for each stage are chosen freely,
`RunArms` searches each arm to its depth (ties in any order, as `argpartition`
leaves them), `Fuse` and `Return` follow. No rounding is hidden: reciprocal ranks
and precisions are over the product of all ranks (`Others`), and weighted fusion
is multiplied by the spans of both arms. The metrics of a ranking are compared
without the divisor two rankings share. `Answers` is what two commands do with rankings: `experiment`
scores one (`Evaluated`), `calibrate` has an answer written from it
(`Answered`: any tokens, with markers in range or one past it, before or after a
full stop), adds up what each page earned, and fits weights (any
coefficients, `Fitted`). Shares are in units of 1/`Whole`, rounded down; `Whole` is fine enough
that the smallest share an answer can give is not rounded to nothing.
History: `claimed`.

### Statistics, Experiments

Scores are 0 or 1 on one metric (hit rate, precision at 1), so all differences
are of one size and the signed-rank p-value is some function `PValue`, a
constant, of the numbers of queries, wins and losses. The default metric, nDCG,
has graded scores; then the p-value is one of the sizes too, and scipy's
`method="auto"` chooses exact or approximate by the ties. No property compares the
p-values of different data: what is said of families, storing and order takes
a p-value as it is.
`HolmBonferroni` is the running maximum of `stats.py` along the places of its
stable sort (`UpTo`), `CliffsDelta` its sum of midranks. The order of the shared
queries is that of every vector of scores, so it is any (`SetToSeq`).
`Experiments` runs the command (`RunAll`, `CompareRuns`, which may raise and end
it, `PersistRuns`, one transaction) and the endpoint (`GetExperiment`), which compares anew what the rows hold. Where a name has
been stored under twice, each condition has two rows in no set order, and the
scores of the last read count: `last` is chosen. `persist_runs` stores for the
oldest organisation, and raises if there is none. History: `stored`.

## What the runs check

Bounds are in the .cfg files. They are the smallest in which each race has all
its actors: two handlers for every check-then-act (a third adds no new order of
two critical steps; the proofs cover any number), three for the upsert (two
inserts that race and an update), two tries for redelivery (an execution and
the one that replaces it), three events for a rollback (known, newer, older),
four users for roles (an owner, one becoming owner, one who is removed, one who
joins), two crawls for the cache (a writer, a reader; an earlier one, a
later). Deadlock is not checked where bounds on calls, events, changes or ticks
end a behaviour, which is everywhere.

| run | instance | shows |
|---|---|---|
| `usage_counter` | 3 workers, 4 calls | no interleaving loses an increment or counts an aborted one; the last `raise` of `record_usage` is dead code; the upsert implements `AtomicCounter`; each call returns |
| `audit_requests` | 2 handlers, 3 audits, 2 months, one fault of any of four kinds | audits of a month, sites and running audits pass their limits by at most one for each other request in the window, whatever the worker does and over the turn of the month |
| `audit_worker` | 3 audits one after the other, 2 tries, one crash, shutdown or failed store | an audit is billed at most its budget per execution; the pages of a month exceed the plan by no more than the budgets open; a counted audit has someone who will settle it, and comes to rest for good |
| `billing` | 1 subscription, 2 webhooks, 3 events, one failure | while webhooks do not overlap, the row is that of the latest period told, and in order that of the last event; in parallel, a known period goes back, or a row is mixed of two events, only under a commit between read and write; every event is acknowledged in the end |
| `org_access` | 4 users, 2 requests, 2 seats, 1 key | in parallel: seats and keys passed by at most one; owners come from owners only; no admin unseats an owner, and nobody the last one, but by an overlap |
| `rate_limit` | 2 processes 2 ticks apart, a minute of 3 ticks, 12 ticks | in every span no more than a bucket and its refill, one bucket more per loss, one tick's refill per tick set back; Retry-After is honest |
| `sessions` | 2 requests, 2 passwords, 2 changes, one Argon2 upgrade | only an overlap lets a session outlive a change, or an old password come back |
| `crawler` | 2 crawls, 8 URLs, 1 redirect, one change, one death | the corpus has no page twice, is within its limits and breadth-first; what is dialled was vetted; a later crawl repeats an earlier; an unserved page comes only from a file spoilt by a writer or a death; each crawl ends |
| `chunking` | 10 chunkers, pages of up to 6 words or 3 headings | no word is lost, chunks are runs of words and spell them as the page does but for the marks that sentence splitting drops; each chunk stands under the headings a reader sees; a passage a chunk can hold, and the text has, is judged in some chunk, and only where enough of it is |
| `retrieval` | 3 chunks of 2 of 3 pages, 3 scores, 7 retrievers, 2 answers of 3 tokens | what the arms agree on survives fusion; no metric falls when a better chunk moves up, and nDCG is 1 just at its ideal; a page is visible, and weights fitted, only by citations made |
| `experiments` | 3 conditions, 3 queries, 2 names, 2 organisations, 2 runs | adjusted p-values are those of the closed test; what was stored once is read back as it was reported; storing it again makes nothing significant |

`billing` has one subscription, because with a temporal property and two the
state space outgrows the run; `HarmOnlyByOverlap` and `RowIsLatest` are
proved for any number. `rate_limit` chooses the span freely (`since` is any
tick). In `crawler` the site has a page that repeats another's text, an external
link, a barred page, a file of a skipped type, a page two clicks away, a
redirect off the host and one onto itself, and a host that comes to have a
blocked address beside an open one.

In `chunking` the chunkers include an overlap of two sentences that loses some, which
`WordsKept` excuses by name (see below), windows that overlap by half, and
parents of each kind. Some words close with a quote or bracket behind a stop or an
abbreviation, and some articles lack words of the sections; two units at most are
asked about, of up to three. In `retrieval` ties, arms that miss a chunk, arms
shorter than what is asked and all-equal scores occur. In `experiments` some queries
are scored under some conditions only, some p-values tie, and a baseline may be
no condition.

One run ends in a violation: it checks one sentence of the repository, and TLC's
counterexample is a behaviour of the code (PROJECT.json, "findings"):

| run | sentence | behaviour |
|---|---|---|
| `billing_order` | `billing.py:13` "order-tolerant" | an update delivered after the deletion, in one period, restores the plan |

Other disagreements between the code and what is said of it, met while modelling.
The first six are behaviours of the models here, and what the code does keep is
checked or proved in their place:

- `tenancy/quotas.py:167` counts audits "queued or in flight": an audit whose enqueue
  fails after the commit stays counted, with no job.
  `CountedAreQueuedOrInFlight` says who may be left so.
- `api/routes/orgs.py:420` "at least one owner": two owners who leave at once each
  see the other. `LastOwnerNeedsOverlap`, `SerialKeepsOwner`.
- `api/routes/auth.py:320` "does not survive the password change": a refresh that began
  before the change issues its pair after. `SurvivorNeedsOverlap`,
  `SerialChangeHolds`.
- `api/routes/orgs.py:399` "only an owner can remove an owner": by the role as
  loaded. An admin who has loaded a member removes the owner that member has
  meanwhile become. `OwnersUnseatedByOwners`.
- `billing.py:345`: of two webhooks in parallel each writes the columns that differ
  from the row it read, so that a suspended row can keep the plan of the other's.
  `HarmNeedsOverlap`.
- `chunking/sentence.py:23` "silently dropping text would corrupt recall
  measurements": `split_sentences` (`chunking/base.py:141`) drops the quotes and
  brackets that close a sentence within a section, so chunks and gold passages
  lack these characters and offsets behind them shift. `WordsKept` says that
  nothing else goes.
- A key keeps the scopes of its maker's role at the time
  (`api/routes/orgs.py:195-197` caps them at creation only).
- With two subscriptions the deletion of the older suspends an organisation that
  pays for the newer, and a suspended organisation is refused the portal through
  which it could come back.
- The page at the end of a redirect is kept under the URL asked for, from whatever
  host, whose robots.txt is not read and between whose hops there is no delay,
  where `crawl/crawler.py:66` says "Same host only".
- `src/docs/deploying.md:114` speaks of one audit per worker, where `max_jobs` is 2.
- `chunking/sentence.py:104` folds a trailing scrap by cutting `overlap_sentences`
  from its front; with an overlap of two or more, a group before that was shorter
  than that, and a `min_tokens` above `max_tokens` (or such a group is no scrap), the
  scrap begins with fewer repeated sentences than are cut, and text is lost. The
  constructor refuses none of this; no command uses it.
- `evaluation/projection.py` calls matching by offsets exact; the offsets of sections
  leave headings out, those of whole texts do not, a child's parent may be
  found at an earlier copy of its first sentence, and a sentence that is not
  found is put at the section's start. `JudgedHoldsGold` says where it is exact.
- `geo/engine.py:142` says a dropped marker "surfaces as an uncited sentence": not
  when the sentence has another marker; and a marker after the full stop is
  counted to the next sentence.
- `pipeline.py:285` stores `n_relevant` from queries whose judgments are spans, so
  it is 0.
- A name stored under twice gives every condition twice: comparisons of a
  condition with itself, a larger family, and the scores of whichever row is
  read last. `RerunsNeverOverstate` says what still holds.
- `compare_runs` raises, for an unknown baseline or no shared query, after the
  grid has been run and before anything is stored: the run is lost.

### Fairness

- `UsageCounter`: strong fairness of a statement, because PostgreSQL queues
  the waiters of a lock in order; weak fairness of the commit of a transaction
  that has metered. A transaction may roll back at any time and owes nothing.
- `AuditSystem`: strong fairness of `Start`, because arq hands out the oldest
  job first, so a queued job is not passed over for ever when slots fall free;
  weak fairness of what a running coroutine or thread can do, and of the
  enqueue that follows a commit. Requests, deletions, faults and the calendar
  are under no obligation.
- `Billing`: strong fairness of receiving *some* unacknowledged event, because
  Stripe retries for days; weak fairness of *some* handler's commit. Neither is
  fair to each event or handler, and none of the other requests need happen.
- `Crawler`: weak fairness of *some* crawl's step: a crawl is a loop in a thread,
  and each thing it waits for has a timeout (httpx). A crawl need not begin.

The other specifications promise nothing under fairness: no request of
OrgAccess, Sessions or RateLimiter waits for another in the model.

## What is proved

TLAPS proves, for every value of the constants that meets the ASSUMEs of the
modules (sizes and limits are naturals, names are distinct, sets of handlers
are finite where their number is counted):

- **SharedStateProofs**, the upsert. `UpsertInvariant`: `UpsertTypeOK`, `OneWriter` (an open
  transaction that has metered holds the row, alone) and `RebumpFindsRow` are
  inductive together. `UpsertIsAtomic`: every step of the
  upsert is an addition or a stutter of `AtomicCounter`; the step that matters
  is `CommitUpsert`, where `OneWriter` gives `draft = Base + amount`.
  The bucket. `BucketKeepsRate` from `LeftWithinRate`: what was spent
  plus what the bucket holds is within the bound, a lost or expired bucket
  counting as full; `Written` says the ttl covers the time to fill, for clocks
  less than a minute apart. `RetryAfterHonest` from `PromiseKept`.
  The stale guard. `TypeCorrect`; `HarmOnlyByOverlap` from `GuardHeld`
  (the guard held on the row as read); `RowIsLatest`, where as long as webhooks
  are `alone` the row as read is the row written over. `RowFollows` from
  `SentInOrder` (the periods of a subscription grow with its events) and
  `InOrder` (what is told precedes what is not): the next event in order is never
  older than the row, so the guard never drops it.
- **AuditSystemProofs.** `PageBudgetRange` and `TypeCorrect`; `AuditsBounded`,
  `SitesBounded`, `ConcurrencyBounded`. The bounds are not inductive: the
  invariants `AuditsReserved`, `SitesReserved` and `ConcurrencyReserved` count
  the handlers that have passed a check and not yet committed as if they had. A
  check passes only below the limit, with at most `Cardinality(Handlers) - 1`
  others in the window, and a commit moves a handler from the window into the
  table. For concurrency, `Unstarted` says that an audit no execution was
  started for is as it was made, so `Start` moves none into `FirstTries`.
  `PagesBounded` counts executions and not audits: `BillersReserved` bounds those
  that may still bill (each fault adds one to the one a counted audit has), and
  `PagesClaimed` lets each of them, and each handler that has read the usage of
  the month, spend a full budget on top of what was crawled, but for the last to
  read it, which was granted what was left.
  On top of `Delivered` (a job is made once, for an audit that exists, by the one
  handler that has committed it; executions are numbered from 1):
  `BilledOncePerTry` from `PaidBySpent`, where what was billed is paid for by the
  executions that can bill nothing any more, one budget each; and
  `CountedInHand`, under the assumption `OnlyRestarts` that the run's constants
  make too (failed stores and worker restarts only, fewer of them than arq has
  tries), from `InGoodHands`: a job interrupted n times was started at most n + 1
  times, so arq never drops it untold, and an execution at its end has settled its
  audit.
- **OrgAccessProofs.** `TypeCorrect`; `OwnersOnlyByOwners` from `Entitled`;
  `LastOwnerTakesOverlap` and `SerialKeepsOwner` from `Spared` (a request alone
  that is about to take an owner's role has seen another owner, who is still
  there); `OwnersUnseatedFairly` from `Authorised` (a request alone about a member
  who is an owner is an owner's: nobody has made that member one since it looked);
  `SeatsBounded` and `KeysBounded`, with requests in the window counted as above.
- **SessionsProofs.** `TypeCorrect`; `SurvivalTakesOverlap` and
  `OldPasswordTakesOverlap`; `SerialChangeHolds`, the same two sentences whole
  when one request is in progress at a time. `AloneIsAlone`, `IssuedBefore` and
  `AloneKnows` carry them: a request that has been alone knows the committed
  user, and what it issues is of the current era.
- **CrawlerProofs.** Six theorems on four inductive invariants.
  `PolicyHolds`: whatever is served and whatever names resolve to, no crawl dials
  an address it did not vet, on any hop, and no page is fetched before a
  robots.txt that allows it was read; `Fetching` says where a crawl stands with
  robots.txt at each place, which makes it inductive. `CrawlsTyped` and
  `CorpusHolds` rest on `Orderly` (results, queue and URL in hand are apart and
  all were seen), and on what the fold over the links of a page does to a
  frontier, which is an induction over the links. `BreadthHolds` rests on
  `InOrder`: the queue holds what any of the results knew before what it did not,
  and a link that is missing had no room. `ServedHolds`
  rests on `FilesExplained`: until the site changes or a crawl dies, a file holds
  the page its URL leads to, or is being written. `RepeatsHold` rests on
  `OnCourse`: a crawl that begins after another has ended retraces it, state by
  state, out of the files the other left, as long as no third crawl is about.
- **ExperimentsProofs.** `FamilyHolds`: `HolmBonferroni` is the closed test. In
  the order of p-values, the j-th is multiplied by how many come no earlier; the
  set of these has that Bonferroni p-value, every set has that of its least
  member or less (`BeforeAfter`, `JointlyIs`), so the running maximum is the largest
  Bonferroni p-value over the sets a comparison is in. `CliffsDelta` is the
  dominance: a midrank counts what a score beats in its own list and in the
  other, and by induction over the first list so does their sum
  (`LeadGrows`, `CliffIsDominance`), where what the list leads itself by is nothing
  (`NoneAgainstItself`). `ReadBackHolds` and `RerunsHold` rest on `Stored`: the rows
  are those of what was stored, a row per condition and experiment stored. A list
  of names in another order gives the same pairs, some the other way round
  (`PairsListGames`, `Found`, `Distinct`), which changes the sign of a difference and
  nothing else (`RawReversed`, `DominanceReversed`); a list that repeats names
  gives a larger family that holds the first, and in it no adjusted value is
  lower, because a set of comparisons keeps its Bonferroni p-value where it is
  carried to (`Embedded`, `NoLower`).
  Assumed of the constants: the grid names no condition twice and at least two,
  scores are 0 or 1 and of finitely many queries, and `PValueAssumption`: the
  p-value is a proportion (`holm_bonferroni` raises otherwise) and that of a
  two-sided test, the same for wins and losses exchanged.

- **AnswersProofs.** `FusionHolds`: agreement survives fusion for any number of
  chunks, any depth, `rrf_k` and weight. `QueryInv` says that each arm is a ranking
  by its score of what it found; `OrderedSorts` that a sort by places is the
  ranking its score defines, so the claim is one about two totals (`BetterBeats`):
  a lower rank is a larger share (`ShareFalls`), a chunk above the last of its arm
  a larger part of the span. `MetricsHold`: to exchange two neighbours changes
  two terms of a sum (`SumSwap`); `PromotedHits` and `PromotedGains` say which way.
  nDCG is at most 1 by summation by parts: the discounts fall, so a sum of
  discounted gains is one of its first gains (`ByParts`), and the first k gains of
  any ranking are at most those of the ideal (`TopSums`, which needs each chunk
  ranked once); it is 1 only if all these are equal. `VisibilityHolds`:
  `EarnedInv` (a page has earned something just when a marker has stood for
  it) and `WeightsInv` are inductive with `AnswerInv`. In one answer a marker in
  range puts its chunk among the citations of the sentence it stands in
  (`AnswerCites`), that sentence has weight, and a share of it is not rounded to
  nothing (`GivesCited`, where `WeightsAssumption` is used); each citation is one
  page's (`PagesAdd`). Assumed of the constants: discounts fall with the rank, a
  retriever is one `retriever_factory` can build, weights of sentences are positive.

- **JudgingProofs.** `JudgingInvariant`: in every state the document, the chunks,
  the queries and the judgements are what the functions of `Chunking` and `Judging`
  make of what came before (`JInv`); every other theorem is then about those
  functions, for any page and any chunker that meets `PagesAssumption` and
  `ChunkersAssumption`, which say what the constructors and extraction ensure. A
  text is a *run* of positions. `SentencesAre`: sentences are a run cut at places
  that grow (`Cuts`). Packing makes consecutive sentences of them (`Grouped`), each
  group full (`Greedy`), also after the fold of a scrap and within the groups
  a percentile cuts; windows begin a step behind each other (`WindowsOf`). So each
  chunk is a run and the chunks reach from the first word to the last, which is
  `WordsKeptHolds`, for children by the same lemma on each parent; a child spells
  what its parent has spelled anew, which changes nothing more (`SpeltTwice`, from
  what `WordsAssumption` says of marks and line ends).
  `PathsHold`: after each heading the stack is the open headings, in the order of
  their levels (`Stacked`, `StackStep`), so the path of a section is
  the ancestors of each of its words, and no chunk leaves its section.
  `GoldFoundHolds`: a passage is a run of sentences (`SpanIn`) no longer than a chunk
  may be; it is cut by two groups at most, as one more sentence would not have
  fitted, and by windows likewise where the text has it (`InText`), so one holds half of it, at its begin or its
  end, which is what `PrefixCoverage` counts (`HalfCovers`). `JudgedHolds`: a sentence
  that occurs once is found where it is (`FindIs`), so a chunk, or a child in its
  parent, has the offsets of its words (`Sits`); offsets that overlap share
  words, as a word ends an odd number of characters behind where a run began
  (`OffsetsHold`), and where texts and not offsets match, the words are the
  shared ones.

Where a step is an induction (over the links of a page, a list of lists, the
scores of a vector, the course of a crawl, the sentences of a text), it is one over a set of numbers:
`Least` takes the least number outside it from the well-founded order of the
naturals, `Climb` (`UpTo` in the crawler) concludes, and `RecursionExists` shows
that a recursive function is what its equations say.

Only model-checked: everything under fairness (`CallReturns`, `SettlesForGood`,
`AllAcknowledged`, `CrawlEnds`), which the prover does not reach. Every invariant
and every safety action property of the runs is stated by a theorem.

## Not modelled, and why

Text and numbers without state: the extraction of text from HTML, embedding, what
BM25 and a cross-encoder compute, the signals of a page and its score, least
squares, bootstrap intervals, reports, the words of a question, schemas, logging,
configuration. What they compute is chosen freely where another part uses it.
Code that no command or route reaches: the Qdrant store, agreement between judges,
reranking and weighted fusion (these two are modelled all the same, because
their tests say what they promise). `check-metrics`, which compares floating-point
rankings. The dashboard's cookie session, and the components, which are presentation.
Random secrets (`security/apikeys.py`) and signatures. The command line, which
runs one thing at a time. Plan overrides, and a plan changed in the middle of an
audit. `fastapi >= 0.118` runs the commit of a dependency after the response is
sent (`src/pyproject.toml` allows it): then a webhook whose commit
fails has been acknowledged; the model commits before it acknowledges.

## Plan

Done, in this order because a wrong answer there costs customers money or
access: usage metering, audits, billing, organisations, rate limiter, sessions,
crawler; then what the experiments and scores a customer sees rest on: chunking
and judging, retrieval and answers, statistics and stored experiments.

Next:

1. **WebSession**: cookies, silent refresh in the proxy, the organisation a session
   lands in (`_select_org`, `src/frontend/src/lib/`); the retried request should be for
   the same organisation, and parallel refreshes should not end a session.
2. The delay and the sitemaps of the crawler.
3. The two vector stores against one abstract map, once an application uses both.
