---------------------------- MODULE AuditSystem ----------------------------
(***************************************************************************)
(* One organisation's audits from request to report: the handlers of the   *)
(* API (AuditAdmission) and the worker (AuditWorker) over the same tables   *)
(* and queue (AuditData).                                                  *)
(***************************************************************************)
EXTENDS AuditAdmission, AuditWorker

Next ==
    \/ \E h \in Handlers : Admit(h)
    \/ \E a \in Audits : Work(a) \/ DeleteAudit(a)
    \/ NextMonth

Spec == Init /\ [][Next]_vars

(* A request that has committed goes on to enqueue. Workers run: arq takes  *)
(* jobs oldest first, so a queued job is not overtaken for ever when slots   *)
(* keep falling free (SF); what the threads, the coroutine and the worker    *)
(* can do for a job, they do (WF: each of them has finitely much to do).     *)
(* Deletion, faults, new requests and the calendar are under no obligation. *)
Fairness ==
    /\ \A h \in Handlers : WF_vars(Enqueue(h))
    /\ \A a \in Audits :
        /\ SF_vars(Start(a))
        /\ WF_vars(TriesExhausted(a) \/ Finish(a) \/ \E t \in Tries : Execute(a, t))

FairSpec == Spec /\ Fairness

-----------------------------------------------------------------------------
(* Safety.                                                                 *)

\* Handlers that have passed the check of the monthly audits and may yet commit.
Checked == {h \in Handlers : pc[h] \in {"usage", "allowed"}}

\* Handlers that have passed the concurrency check and may yet commit.
Cleared == {h \in Handlers : pc[h] = "allowed"}

Overshoot(limit) == limit - 1 + Cardinality(Handlers)

(* create_audit checks the monthly audits and records the new one later, in *)
(* a transaction others do not wait for: the limit can be passed, but by at *)
(* most one audit for every other handler in the same window, whatever the  *)
(* worker does and whenever the month turns over.                           *)
AuditsOvershoot == \A m \in Months : auditsRun[m] <= Overshoot(MaxAuditsPerMonth)

\* The same for check_site_allowed and the sites table.
SitesOvershoot == Cardinality(sites) <= Overshoot(MaxSites)

(* The same for the concurrency limit, over the audits whose job has been   *)
(* started at most once: handing a job out again (run_audit_task sets       *)
(* "running" without looking) reopens audits no check admits a second time. *)
FirstTries == {a \in Running : try[a] <= 1}

ConcurrencyOvershoot == Cardinality(FirstTries) <= Overshoot(MaxConcurrentAudits)

(* What the proofs carry: the handlers past a check count as if they had     *)
(* committed, and an audit no execution was started for is as it was made.  *)
AuditsReserved ==
    \A m \in Months :
        /\ auditsRun[m] <= Overshoot(MaxAuditsPerMonth)
        /\ m > month => auditsRun[m] = 0
        /\ m >= month =>
              auditsRun[m] + Cardinality(Checked) <= Overshoot(MaxAuditsPerMonth)

SitesReserved ==
    /\ IsFiniteSet(sites)
    /\ Cardinality(sites) + Cardinality(opening) <= Overshoot(MaxSites)
    /\ \A h \in Handlers :
        pc[h] \in {"site", "usage", "allowed"} /\ h \notin opening => url[h] \in sites

ConcurrencyReserved ==
    Cardinality(FirstTries) + Cardinality(Cleared) <= Overshoot(MaxConcurrentAudits)

Unstarted ==
    \A a \in Audits : try[a] = 0 =>
        /\ status[a] \in {"none", "pending", "deleted"}
        /\ \A t \in Tries : task[a][t].at = "unborn"

\* Rows, jobs and executions keep step: a job is made once for an audit that exists,
\* by the one handler that has committed it, and executions are numbered from 1.
Delivered ==
    /\ \A h \in Handlers : pc[h] = "committed" =>
           /\ mine[h] \in Audits
           /\ status[mine[h]] # "none"
           /\ job[mine[h]] = "none"
           /\ \A g \in Handlers : pc[g] = "committed" /\ mine[g] = mine[h] => g = h
    /\ \A a \in Audits :
           /\ status[a] = "none" => job[a] = "none"
           /\ job[a] = "none" => try[a] = 0
           /\ \A t \in Tries : t > try[a] => task[a][t].at = "unborn"

\* Executions that will bill nothing any more pay for what was billed.
Spent(a) == {t \in Tries : t <= try[a] /\ task[a][t].at \notin {"crawl", "store"}}

PaidBySpent ==
    \A a \in Audits :
        /\ fetched[a] <= Cardinality(Spent(a)) * budget[a]
        /\ \A t \in Tries : task[a][t].at = "store" => task[a][t].docs <= budget[a]

\* Only worker restarts and failed stores, fewer of them than arq has tries.
OnlyRestarts == Faults \subseteq {"store", "shutdown", "crash"} /\ MaxFaults < MaxTries

\* A counted audit has a handler or a job; a job that was interrupted has tries left,
\* and one whose coroutine is at its end has settled its audit.
InGoodHands ==
    \A a \in Audits :
        /\ a \in Running => \/ job[a] \in {"queued", "inprogress"}
                            \/ \E h \in Handlers : pc[h] = "committed" /\ mine[h] = a
        /\ job[a] = "queued" => try[a] <= faults
        /\ job[a] = "inprogress" =>
               try[a] <= faults + 1 /\ (task[a][try[a]].at = "over" => a \notin Running)

(* The pages of a month. An audit is admitted with at most what the month    *)
(* has left, but the audits then open, and those whose handler has read the *)
(* usage and not yet counted the running audits, spend their own budgets on *)
(* top: one full budget for each audit the concurrency limit (itself        *)
(* overshot) admits before the last reader and for each other handler that  *)
(* read before it. An execution that a fault makes arq repeat bills again.  *)
MostPages ==
    MaxPagesPerMonth
        + (MaxConcurrentAudits + 2 * (Cardinality(Handlers) - 1) + faults) * MaxPagesPerAudit

PagesOvershoot == \A m \in Months : pagesCrawled[m] <= MostPages

(* What the proof of it carries. An execution may still bill its audit when  *)
(* it is under way, or when it is the next one of a job not handed out yet. *)
MayBill(a, t) ==
    \/ task[a][t].at \in {"crawl", "store", "fail"}
    \/ /\ t = try[a] + 1
       /\ job[a] = "queued" \/ \E h \in Handlers : pc[h] = "committed" /\ mine[h] = a

Billers == {u \in Audits \X Tries : Exists(u[1]) /\ MayBill(u[1], u[2])}

\* Counted audits that may yet be billed.
Busy == {a \in Running : \E t \in Tries : MayBill(a, t)}

\* Each fault adds one execution to the one that a counted audit has; so those that
\* may bill are overshot like the counted audits, and by one more for each fault.
BillersReserved ==
    /\ Cardinality(Billers) <= Cardinality(Busy) + faults
    /\ Cardinality(Billers) + Cardinality(Cleared)
          <= Overshoot(MaxConcurrentAudits) + faults

\* What the executions and the handlers with a grant may spend.
Grants == {budget[u[1]] : u \in Billers} \cup {grant[h] : h \in Checked}

Spenders == Cardinality(Billers) + Cardinality(Checked)

\* Each of them may spend a full budget on top of the pages of the month; or all but
\* one, which spends what it was granted: the last to read the usage of the month.
PagesClaimed ==
    \/ pagesCrawled[month] + Spenders * MaxPagesPerAudit <= MostPages
    \/ \E pages \in Grants :
           pagesCrawled[month] + pages + (Spenders - 1) * MaxPagesPerAudit <= MostPages

PagesReserved ==
    /\ PagesOvershoot
    /\ \A m \in Months : m > month => pagesCrawled[m] = 0
    /\ PagesClaimed

(* An audit is billed at most its page budget per execution started, though *)
(* a cancelled execution's thread may store its report next to the one of   *)
(* the execution that replaced it, or after the audit was marked failed.    *)
BilledWithinGrants == \A a \in Audits : fetched[a] <= try[a] * budget[a]

(* quotas.py says of count_running_audits that it counts "audits that are   *)
(* queued or in flight": a counted audit has a handler about to enqueue it,  *)
(* a job, or a thread about to settle it. So it is while worker processes   *)
(* crash or shut down fewer times than arq has tries, and the database      *)
(* fails under a store; a failed enqueue or a timeout breaks it.            *)
InHand(a) ==
    \/ \E h \in Handlers : pc[h] = "committed" /\ mine[h] = a
    \/ job[a] \in {"queued", "inprogress"}

CountedAreQueuedOrInFlight ==
    \A a \in Running :
        InHand(a) \/ \E t \in Tries : task[a][t].at \in {"store", "fail"}

-----------------------------------------------------------------------------
(* Liveness.                                                               *)

(* The accepted audits come to rest: each ends complete, failed or deleted   *)
(* and stays so, across crashes and shutdowns of the worker as long as they *)
(* are fewer than arq's tries.                                              *)
SettlesForGood == <>[](Running = {})

=============================================================================
