------------------------------ MODULE AuditData ------------------------------
(***************************************************************************)
(* What the API and the worker share about one organisation's audits: the  *)
(* rows of db/models.py they both write (committed values), the arq queue  *)
(* in Redis that connects them, and the progress of each request handler   *)
(* and of each execution of a job.                                         *)
(***************************************************************************)
EXTENDS Integers, FiniteSets

CONSTANTS
    Handlers,             \* request threads of the API that may serve the organisation
    Urls,                 \* the URLs it audits
    Wants,                \* the max_pages its requests ask for
    NumAudits,            \* bound: audits ever created
    LastMonth,            \* bound: billing periods, 1..LastMonth
    MaxSites,             \* the plan (tenancy/plans.py): its five limits
    MaxAuditsPerMonth,
    MaxConcurrentAudits,
    MaxPagesPerAudit,
    MaxPagesPerMonth,
    Slots,                \* jobs arq runs at once: max_jobs of each worker process
    MaxTries,             \* arq's max_tries
    Faults,               \* the kinds of fault that happen
    MaxFaults             \* bound: how many do

Audits == 1..NumAudits
Months == 1..LastMonth
Tries == 1..MaxTries

FaultKinds == {"enqueue", "store", "mark", "shutdown", "crash", "timeout"}

ASSUME BoundsAssumption ==
    /\ NumAudits \in Nat /\ LastMonth \in Nat \ {0} /\ MaxFaults \in Nat
    /\ Faults \subseteq FaultKinds
ASSUME PlanAssumption ==
    /\ MaxSites \in Nat \ {0}
    /\ MaxAuditsPerMonth \in Nat \ {0}
    /\ MaxConcurrentAudits \in Nat \ {0}
    /\ MaxPagesPerAudit \in Nat \ {0}
    /\ MaxPagesPerMonth \in Nat /\ MaxPagesPerAudit <= MaxPagesPerMonth
ASSUME RequestAssumption == Wants \subseteq Nat
ASSUME FiniteAssumption == IsFiniteSet(Handlers)
ASSUME QueueAssumption == Slots \in Nat \ {0} /\ MaxTries \in Nat \ {0}

VARIABLES
    month,         \* current_period()
    sites,         \* URLs with a Site row
    auditsRun,     \* usage_counters of audits_run, by period
    pagesCrawled,  \* usage_counters of pages_crawled, by period
    status,        \* status[a]: Audit.status; "none" before the row, "deleted" after it
    budget,        \* budget[a]: config["max_pages"]
    pc,            \* pc[h]: where handler h is in create_audit
    url,           \* url[h]: the URL of its request
    opening,       \* handlers whose transaction has inserted a Site
    grant,         \* grant[h]: the pages check_audit_allowed grants
    mine,          \* mine[h]: the audit it has committed
    job,           \* job[a]: the arq job of audit a
    try,           \* try[a]: arq's job_try, the executions started so far
    task,          \* task[a][t]: the t-th execution of run_audit_task
    fetched,       \* fetched[a]: sum of Crawl.pages_fetched over the audit's crawls
    faults         \* faults so far (bounded by MaxFaults)

admissionVars == <<pc, url, opening, grant, mine>>
workerVars == <<try, task, fetched>>
usageVars == <<month, auditsRun, pagesCrawled>>
vars == <<usageVars, sites, status, budget, job, admissionVars, workerVars, faults>>

\* A handler between requests has no locals.
NoUrl == "none"

Statuses == {"none", "pending", "running", "complete", "failed", "deleted"}

\* Fault: one more fault of this kind; only then do the fault actions happen.
Fault(kind) ==
    /\ kind \in Faults
    /\ faults < MaxFaults
    /\ faults' = faults + 1

\* count_running_audits: what the concurrency limit counts.
Running == {a \in Audits : status[a] \in {"pending", "running"}}

Exists(a) == status[a] \notin {"none", "deleted"}

Init ==
    /\ month = 1
    /\ sites = {}
    /\ auditsRun = [m \in Months |-> 0]
    /\ pagesCrawled = [m \in Months |-> 0]
    /\ status = [a \in Audits |-> "none"]
    /\ budget = [a \in Audits |-> 0]
    /\ pc = [h \in Handlers |-> "idle"]
    /\ url = [h \in Handlers |-> NoUrl]
    /\ opening = {}
    /\ grant = [h \in Handlers |-> 0]
    /\ mine = [h \in Handlers |-> 0]
    /\ job = [a \in Audits |-> "none"]
    /\ try = [a \in Audits |-> 0]
    /\ task = [a \in Audits |-> [t \in Tries |-> [at |-> "unborn", docs |-> 0]]]
    /\ fetched = [a \in Audits |-> 0]
    /\ faults = 0

\* The variables hold values of their types; a granted budget is within the plan.
TypeOK ==
    /\ month \in Months
    /\ sites \subseteq Urls
    /\ auditsRun \in [Months -> Nat]
    /\ pagesCrawled \in [Months -> Nat]
    /\ status \in [Audits -> Statuses]
    /\ budget \in [Audits -> 0..MaxPagesPerAudit]
    /\ pc \in [Handlers -> {"idle", "site", "usage", "allowed", "committed"}]
    /\ url \in [Handlers -> Urls \cup {NoUrl}]
    /\ \A h \in Handlers : pc[h] \in {"site", "usage", "allowed"} => url[h] \in Urls
    /\ opening \subseteq {h \in Handlers : pc[h] \in {"site", "usage", "allowed"}}
    /\ grant \in [Handlers -> 0..MaxPagesPerAudit]
    /\ mine \in [Handlers -> 0..NumAudits]
    /\ job \in [Audits -> {"none", "queued", "inprogress", "over"}]
    /\ try \in [Audits -> 0..MaxTries]
    /\ task \in [Audits -> [Tries ->
           [at : {"unborn", "crawl", "store", "fail", "over"}, docs : Nat]]]
    /\ \A a \in Audits : job[a] = "inprogress" => try[a] > 0
    /\ fetched \in [Audits -> Nat]
    /\ faults \in 0..MaxFaults
=============================================================================
