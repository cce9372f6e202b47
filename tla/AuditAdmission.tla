--------------------------- MODULE AuditAdmission ---------------------------
(***************************************************************************)
(* The API side: create_audit and delete_audit (api/routes/audits.py) with  *)
(* the checks of tenancy/quotas.py. A handler reads committed counts in     *)
(* separate statements, inserts its rows and commits them later, so other   *)
(* handlers and the worker act between any two of its steps. The addition   *)
(* to a usage counter is atomic (UsageCounter implements AtomicCounter).    *)
(***************************************************************************)
EXTENDS AuditData, FiniteSetsExt

\* A slip: a limit of n admits n + 1.
WithinOneMore(used, limit) == used <= limit

\* QuotaExceeded is raised when used >= limit.
Within(used, limit) == used < limit

\* A slip: the grant forgets what the month has left.
PageBudgetPerAuditOnly(wanted, used) == Min({Max({1, wanted}), MaxPagesPerAudit})

\* check_audit_allowed: the request capped by the audit's and the month's limit.
PageBudget(wanted, used) ==
    Min({Max({1, wanted}), MaxPagesPerAudit, MaxPagesPerMonth - used})

\* SELECT the site; else check_site_allowed, INSERT and flush. The unique
\* (org, url) makes the flush wait for another open insert of the same URL.
OpenSite(h, u) ==
    /\ pc[h] = "idle"
    /\ \/ u \in sites /\ opening' = opening
       \/ /\ u \notin sites
          /\ Within(Cardinality(sites), MaxSites)
          /\ \A g \in opening : url[g] # u
          /\ opening' = opening \cup {h}
    /\ pc' = [pc EXCEPT ![h] = "site"]
    /\ url' = [url EXCEPT ![h] = u]
    /\ UNCHANGED <<usageVars, sites, status, budget, grant, mine, job, workerVars, faults>>

\* get_usage: both monthly limits are checked on what it returns.
ReadUsage(h, wanted) ==
    /\ pc[h] = "site"
    /\ Within(auditsRun[month], MaxAuditsPerMonth)
    /\ Within(pagesCrawled[month], MaxPagesPerMonth)
    /\ pc' = [pc EXCEPT ![h] = "usage"]
    /\ grant' = [grant EXCEPT ![h] = PageBudget(wanted, pagesCrawled[month])]
    /\ UNCHANGED <<usageVars, sites, status, budget, url, opening, mine, job, workerVars, faults>>

\* A slip: an audit counts once a worker has started it.
CountRunningStarted(h) ==
    /\ pc[h] = "usage"
    /\ Within(Cardinality({a \in Audits : status[a] = "running"}), MaxConcurrentAudits)
    /\ pc' = [pc EXCEPT ![h] = "allowed"]
    /\ UNCHANGED <<usageVars, sites, status, budget, url, opening, grant, mine, job,
                   workerVars, faults>>

\* count_running_audits, a statement and so a snapshot of its own.
CountRunning(h) ==
    /\ pc[h] = "usage"
    /\ Within(Cardinality(Running), MaxConcurrentAudits)
    /\ pc' = [pc EXCEPT ![h] = "allowed"]
    /\ UNCHANGED <<usageVars, sites, status, budget, url, opening, grant, mine, job,
                   workerVars, faults>>

\* The transaction ends, and with it what the handler holds but for audit a.
Forget(h, a) ==
    /\ opening' = opening \ {h}
    /\ url' = [url EXCEPT ![h] = NoUrl]
    /\ grant' = [grant EXCEPT ![h] = 0]
    /\ mine' = [mine EXCEPT ![h] = a]

\* INSERT the audit, record_usage(AUDITS_RUN), commit: site, audit and usage at once.
Commit(h) ==
    \E a \in Audits :
        /\ pc[h] = "allowed"
        /\ status[a] = "none" /\ \A b \in 1..(a - 1) : status[b] # "none"
        /\ status' = [status EXCEPT ![a] = "pending"]
        /\ budget' = [budget EXCEPT ![a] = grant[h]]
        /\ sites' = sites \cup {url[h]}
        /\ auditsRun' = [auditsRun EXCEPT ![month] = @ + 1]
        /\ pc' = [pc EXCEPT ![h] = "committed"]
        /\ Forget(h, a)
        /\ UNCHANGED <<month, pagesCrawled, job, workerVars, faults>>

\* Refused (402), or any error before the commit: the transaction leaves nothing.
Abandon(h) ==
    /\ pc[h] \in {"site", "usage", "allowed"}
    /\ pc' = [pc EXCEPT ![h] = "idle"]
    /\ Forget(h, 0)
    /\ UNCHANGED <<usageVars, sites, status, budget, job, workerVars, faults>>

\* enqueue_audit, after the commit.
Enqueue(h) ==
    /\ pc[h] = "committed"
    /\ pc' = [pc EXCEPT ![h] = "idle"]
    /\ job' = [job EXCEPT ![mine[h]] = "queued"]
    /\ mine' = [mine EXCEPT ![h] = 0]
    /\ UNCHANGED <<usageVars, sites, status, budget, url, opening, grant, workerVars, faults>>

\* Redis is unreachable, or the process dies first: a 500 with the audit committed.
EnqueueFails(h) ==
    /\ pc[h] = "committed"
    /\ Fault("enqueue")
    /\ pc' = [pc EXCEPT ![h] = "idle"]
    /\ mine' = [mine EXCEPT ![h] = 0]
    /\ UNCHANGED <<usageVars, sites, status, budget, url, opening, grant, job, workerVars>>

\* delete_audit, whatever the audit's status.
DeleteAudit(a) ==
    /\ Exists(a)
    /\ status' = [status EXCEPT ![a] = "deleted"]
    /\ UNCHANGED <<usageVars, sites, budget, job, admissionVars, workerVars, faults>>

\* current_period() turns over at midnight UTC on the first, during any request.
NextMonth ==
    /\ month < LastMonth
    /\ month' = month + 1
    /\ UNCHANGED <<auditsRun, pagesCrawled, sites, status, budget, job, admissionVars,
                   workerVars, faults>>

Admit(h) ==
    \/ \E u \in Urls : OpenSite(h, u)
    \/ \E wanted \in Wants : ReadUsage(h, wanted)
    \/ CountRunning(h)
    \/ Commit(h)
    \/ Abandon(h)
    \/ Enqueue(h)
    \/ EnqueueFails(h)
=============================================================================
