---------------------------- MODULE AuditWorker ----------------------------
(***************************************************************************)
(* The worker side: run_audit_task (tasks/queue.py) and the transactions of *)
(* pipeline.py it runs in threads, under arq. arq is external: it delivers  *)
(* a job at least once, hands an interrupted job out again until max_tries, *)
(* and cancels a job's coroutine on shutdown and after job_timeout. The     *)
(* thread under a cancelled asyncio.to_thread is not cancelled, and         *)
(* `except Exception` does not see the CancelledError.                      *)
(***************************************************************************)
EXTENDS AuditData

InProgress == {a \in Audits : job[a] = "inprogress"}

\* Execution t of audit a still has its coroutine.
Live(a, t) == job[a] = "inprogress" /\ try[a] = t

SetTask(a, t, at, docs) == task' = [task EXCEPT ![a][t] = [at |-> at, docs |-> docs]]

frame == <<month, auditsRun, sites, budget, admissionVars>>

\* A slip: an audit that is already running is left to whoever runs it.
StartOnce(a) ==
    /\ job[a] = "queued"
    /\ Cardinality(InProgress) < Slots
    /\ try[a] < MaxTries
    /\ try' = [try EXCEPT ![a] = @ + 1]
    /\ IF status[a] = "pending"
       THEN /\ status' = [status EXCEPT ![a] = "running"]
            /\ job' = [job EXCEPT ![a] = "inprogress"]
            /\ SetTask(a, try[a] + 1, "crawl", 0)
       ELSE /\ job' = [job EXCEPT ![a] = "over"]
            /\ UNCHANGED <<status, task>>
    /\ UNCHANGED <<frame, pagesCrawled, fetched, faults>>

\* A job is started: the first transaction of run_audit_task sets "running",
\* whatever the status was, or raises ValueError if the audit is gone.
Start(a) ==
    /\ job[a] = "queued"
    /\ Cardinality(InProgress) < Slots
    /\ try[a] < MaxTries
    /\ try' = [try EXCEPT ![a] = @ + 1]
    /\ IF Exists(a)
       THEN /\ status' = [status EXCEPT ![a] = "running"]
            /\ job' = [job EXCEPT ![a] = "inprogress"]
            /\ SetTask(a, try[a] + 1, "crawl", 0)
       ELSE /\ job' = [job EXCEPT ![a] = "over"]
            /\ UNCHANGED <<status, task>>
    /\ UNCHANGED <<frame, pagesCrawled, fetched, faults>>

\* arq drops a job that has used its tries without calling the function.
TriesExhausted(a) ==
    /\ job[a] = "queued"
    /\ try[a] = MaxTries
    /\ job' = [job EXCEPT ![a] = "over"]
    /\ UNCHANGED <<frame, status, pagesCrawled, try, task, fetched, faults>>

\* A slip: the crawl checks its limit after fetching the page.
CrawlReturnsOneMore(a, t, docs) ==
    /\ Live(a, t)
    /\ task[a][t].at = "crawl"
    /\ SetTask(a, t, "store", docs + 1)
    /\ UNCHANGED <<frame, status, job, pagesCrawled, try, fetched, faults>>

\* run_audit returns: at most max_pages documents, none if nothing could be fetched.
CrawlReturns(a, t, docs) ==
    /\ Live(a, t)
    /\ task[a][t].at = "crawl"
    /\ SetTask(a, t, "store", docs)
    /\ UNCHANGED <<frame, status, job, pagesCrawled, try, fetched, faults>>

CrawlRaises(a, t) ==
    /\ Live(a, t)
    /\ task[a][t].at = "crawl"
    /\ SetTask(a, t, "fail", 0)
    /\ UNCHANGED <<frame, status, job, pagesCrawled, try, fetched, faults>>

\* An error in the store thread reaches the except clause of a live coroutine only.
Raise(a, t) ==
    /\ SetTask(a, t, IF Live(a, t) THEN "fail" ELSE "over", 0)
    /\ UNCHANGED <<status, pagesCrawled, fetched>>

\* persist_audit: crawl, pages, scores, status and usage in one transaction; it
\* raises if the audit is gone. It does not look at the status.
Store(a, t) ==
    /\ task[a][t].at = "store"
    /\ \/ /\ Exists(a)
          /\ status' = [status EXCEPT ![a] = "complete"]
          /\ fetched' = [fetched EXCEPT ![a] = @ + task[a][t].docs]
          /\ pagesCrawled' = [pagesCrawled EXCEPT ![month] = @ + task[a][t].docs]
          /\ SetTask(a, t, "over", 0)
       \/ ~Exists(a) /\ Raise(a, t)
    /\ UNCHANGED <<frame, job, try, faults>>

StoreFails(a, t) ==
    /\ task[a][t].at = "store"
    /\ Fault("store")
    /\ Raise(a, t)
    /\ UNCHANGED <<frame, job, try>>

\* mark_audit_failed, whatever the status; nothing if the audit is gone.
MarkFailed(a, t) ==
    /\ task[a][t].at = "fail"
    /\ status' = IF Exists(a) THEN [status EXCEPT ![a] = "failed"] ELSE status
    /\ SetTask(a, t, "over", 0)
    /\ UNCHANGED <<frame, job, pagesCrawled, try, fetched, faults>>

MarkFails(a, t) ==
    /\ task[a][t].at = "fail"
    /\ Fault("mark")
    /\ SetTask(a, t, "over", 0)
    /\ UNCHANGED <<frame, status, job, pagesCrawled, try, fetched>>

\* The coroutine has returned or raised, and arq records the result: no retry.
Finish(a) ==
    /\ job[a] = "inprogress"
    /\ task[a][try[a]].at = "over"
    /\ job' = [job EXCEPT ![a] = "over"]
    /\ UNCHANGED <<frame, status, pagesCrawled, try, task, fetched, faults>>

\* The coroutine of the running execution is cancelled; a transaction in a
\* thread goes on, the result of a crawl has nobody left to take it.
Cancel(a) ==
    IF task[a][try[a]].at = "crawl"
    THEN SetTask(a, try[a], "over", 0) ELSE UNCHANGED task

\* A slip: SIGTERM abandons the job instead of handing it out again.
ShutdownDrops(a) ==
    /\ job[a] = "inprogress"
    /\ Fault("shutdown")
    /\ job' = [job EXCEPT ![a] = "over"]
    /\ Cancel(a)
    /\ UNCHANGED <<frame, status, pagesCrawled, try, fetched>>

\* SIGTERM: arq cancels its jobs and leaves them in the queue.
Shutdown(a) ==
    /\ job[a] = "inprogress"
    /\ Fault("shutdown")
    /\ job' = [job EXCEPT ![a] = "queued"]
    /\ Cancel(a)
    /\ UNCHANGED <<frame, status, pagesCrawled, try, fetched>>

\* job_timeout: the job has failed as far as arq knows, and is not retried.
Timeout(a) ==
    /\ job[a] = "inprogress"
    /\ task[a][try[a]].at # "over"
    /\ Fault("timeout")
    /\ job' = [job EXCEPT ![a] = "over"]
    /\ Cancel(a)
    /\ UNCHANGED <<frame, status, pagesCrawled, try, fetched>>

\* The worker process dies, its threads too; arq's in-progress key expires and
\* the job is handed out again.
Crash(a) ==
    /\ job[a] = "inprogress"
    /\ Fault("crash")
    /\ job' = [job EXCEPT ![a] = "queued"]
    /\ SetTask(a, try[a], "over", 0)
    /\ UNCHANGED <<frame, status, pagesCrawled, try, fetched>>

\* What a worker does of its own accord, and so must get on with.
Execute(a, t) ==
    \/ \E docs \in 0..budget[a] : CrawlReturns(a, t, docs)
    \/ CrawlRaises(a, t)
    \/ Store(a, t)
    \/ MarkFailed(a, t)

Interrupt(a) == Shutdown(a) \/ Timeout(a) \/ Crash(a)

Work(a) ==
    \/ Start(a)
    \/ TriesExhausted(a)
    \/ \E t \in Tries : Execute(a, t) \/ StoreFails(a, t) \/ MarkFails(a, t)
    \/ Finish(a)
    \/ Interrupt(a)
=============================================================================
