------------------------- MODULE AuditSystemProofs -------------------------
(***************************************************************************)
(* For any number of handlers, URLs, audits, periods, tries and faults and  *)
(* any plan: how far the checks of create_audit can be overshot, what an     *)
(* audit is billed, that a counted one is in somebody's hands, and how far   *)
(* the pages of a month can be overshot.                                    *)
(***************************************************************************)
EXTENDS AuditSystem, FiniteSetTheorems, TLAPS

-----------------------------------------------------------------------------
(* Counting.                                                               *)

LEMMA HandlersFinite ==
  ASSUME NEW S, S \subseteq Handlers
  PROVE  /\ IsFiniteSet(S)
         /\ Cardinality(S) \in Nat
         /\ Cardinality(S) <= Cardinality(Handlers)
         /\ Cardinality(Handlers) \in Nat
  BY FiniteAssumption, FS_Subset, FS_CardinalityType

LEMMA AuditsFinite ==
  ASSUME NEW S, S \subseteq Audits
  PROVE  IsFiniteSet(S) /\ Cardinality(S) \in Nat
  <1>1. IsFiniteSet(Audits)
    BY BoundsAssumption, FS_Interval DEF Audits
  <1> QED BY <1>1, FS_Subset, FS_CardinalityType

LEMMA AtMostOneMore ==
  ASSUME NEW S, NEW T, NEW x, IsFiniteSet(S), T \subseteq S \cup {x}
  PROVE  /\ IsFiniteSet(T) /\ Cardinality(T) \in Nat /\ Cardinality(S) \in Nat
         /\ Cardinality(T) <= Cardinality(S) + 1
  <1>1. /\ IsFiniteSet(S \cup {x}) /\ Cardinality(S) \in Nat
        /\ Cardinality(S \cup {x}) <= Cardinality(S) + 1
    <2>1. Cardinality(S) \in Nat
      BY FS_CardinalityType
    <2>2. /\ IsFiniteSet(S \cup {x})
          /\ Cardinality(S \cup {x}) =
                IF x \in S THEN Cardinality(S) ELSE Cardinality(S) + 1
      BY FS_AddElement
    <2> QED BY <2>1, <2>2
  <1>2. IsFiniteSet(T) /\ Cardinality(T) <= Cardinality(S \cup {x})
    BY <1>1, FS_Subset
  <1>3. Cardinality(T) \in Nat /\ Cardinality(S \cup {x}) \in Nat
    BY <1>1, <1>2, FS_CardinalityType
  <1> QED BY <1>1, <1>2, <1>3

LEMMA OneLess ==
  ASSUME NEW S, NEW x, IsFiniteSet(S), x \in S
  PROVE  /\ IsFiniteSet(S \ {x}) /\ Cardinality(S \ {x}) \in Nat
         /\ Cardinality(S) \in Nat
         /\ Cardinality(S \ {x}) = Cardinality(S) - 1
  BY FS_RemoveElement, FS_CardinalityType

LEMMA Monotone ==
  ASSUME NEW S, NEW T, IsFiniteSet(S), T \subseteq S
  PROVE  /\ IsFiniteSet(T) /\ Cardinality(T) \in Nat /\ Cardinality(S) \in Nat
         /\ Cardinality(T) <= Cardinality(S)
  BY FS_Subset, FS_CardinalityType

LEMMA MinOfThree ==
  ASSUME NEW a \in Int, NEW b \in Int, NEW c \in Int
  PROVE  /\ Min({a, b, c}) \in {a, b, c}
         /\ Min({a, b, c}) <= a /\ Min({a, b, c}) <= b /\ Min({a, b, c}) <= c
  <1>1. \E x \in {a, b, c} : \A y \in {a, b, c} : x <= y
    OBVIOUS
  <1> QED BY <1>1 DEF Min

LEMMA MaxOfTwo ==
  ASSUME NEW a \in Int, NEW b \in Int
  PROVE  Max({a, b}) \in {a, b} /\ Max({a, b}) >= a /\ Max({a, b}) >= b
  <1>1. \E x \in {a, b} : \A y \in {a, b} : x >= y
    OBVIOUS
  <1> QED BY <1>1 DEF Max

(* check_audit_allowed grants at least one page, and no more than the plan's *)
(* ceiling per audit and the pages the month has left.                      *)
THEOREM PageBudgetRange ==
  ASSUME NEW wanted \in Nat, NEW used \in Nat, Within(used, MaxPagesPerMonth)
  PROVE  /\ PageBudget(wanted, used) \in 1..MaxPagesPerAudit
         /\ PageBudget(wanted, used) <= MaxPagesPerMonth - used
  <1> DEFINE most == Max({1, wanted})
  <1>1. most \in Nat /\ most >= 1
    <2>1. 1 \in Int /\ wanted \in Int
      OBVIOUS
    <2>2. Max({1, wanted}) \in {1, wanted} /\ Max({1, wanted}) >= 1
      BY <2>1, MaxOfTwo
    <2> QED BY <2>2
  <1> HIDE DEF most
  <1>2. /\ Min({most, MaxPagesPerAudit, MaxPagesPerMonth - used})
             \in {most, MaxPagesPerAudit, MaxPagesPerMonth - used}
        /\ Min({most, MaxPagesPerAudit, MaxPagesPerMonth - used}) <= MaxPagesPerAudit
        /\ Min({most, MaxPagesPerAudit, MaxPagesPerMonth - used})
             <= MaxPagesPerMonth - used
    <2>1. /\ most \in Int /\ MaxPagesPerAudit \in Int
          /\ MaxPagesPerMonth - used \in Int
      BY <1>1, PlanAssumption
    <2> QED BY <2>1, MinOfThree
  <1>3. PageBudget(wanted, used) = Min({most, MaxPagesPerAudit, MaxPagesPerMonth - used})
    BY DEF PageBudget, most
  <1> QED BY <1>1, <1>2, <1>3, PlanAssumption DEF Within

-----------------------------------------------------------------------------
(* Types.                                                                  *)

LEMMA InitType == Init => TypeOK
  BY BoundsAssumption, PlanAssumption, QueueAssumption
  DEF Init, TypeOK, Months, Statuses

LEMMA SetTaskType ==
  ASSUME TypeOK, NEW a \in Audits, NEW t \in Tries, NEW docs \in Nat,
         NEW at \in {"unborn", "crawl", "store", "fail", "over"},
         SetTask(a, t, at, docs)
  PROVE  task' \in [Audits -> [Tries ->
             [at : {"unborn", "crawl", "store", "fail", "over"}, docs : Nat]]]
  BY DEF TypeOK, SetTask

LEMMA CancelType ==
  ASSUME TypeOK, NEW a \in Audits, job[a] = "inprogress", Cancel(a)
  PROVE  task' \in [Audits -> [Tries ->
             [at : {"unborn", "crawl", "store", "fail", "over"}, docs : Nat]]]
  <1>1. try[a] \in Tries
    BY QueueAssumption DEF TypeOK, Tries
  <1> QED BY <1>1, SetTaskType DEF TypeOK, Cancel

LEMMA FaultType ==
  ASSUME TypeOK, NEW kind, Fault(kind)
  PROVE  faults' \in 0..MaxFaults
  BY BoundsAssumption DEF TypeOK, Fault

LEMMA AdmitType ==
  ASSUME TypeOK, NEW h \in Handlers, Admit(h)
  PROVE  TypeOK'
  <1> USE BoundsAssumption, PlanAssumption
      DEF usageVars, workerVars
  <1>1. CASE \E u \in Urls : OpenSite(h, u)
    BY <1>1 DEF OpenSite, TypeOK
  <1>2. ASSUME NEW wanted \in Wants, ReadUsage(h, wanted)
        PROVE  TypeOK'
    <2>1. PageBudget(wanted, pagesCrawled[month]) \in 0..MaxPagesPerAudit
      BY <1>2, RequestAssumption, PageBudgetRange DEF ReadUsage, TypeOK
    <2> QED BY <1>2, <2>1 DEF ReadUsage, TypeOK
  <1>3. CASE CountRunning(h)
    BY <1>3 DEF CountRunning, TypeOK
  <1>4. CASE Commit(h)
    <2>1. PICK a \in Audits :
            /\ status' = [status EXCEPT ![a] = "pending"]
            /\ budget' = [budget EXCEPT ![a] = grant[h]]
            /\ Forget(h, a)
      BY <1>4 DEF Commit
    <2>2. /\ status' \in [Audits -> Statuses]
          /\ budget' \in [Audits -> 0..MaxPagesPerAudit]
      BY <2>1 DEF TypeOK, Statuses
    <2>3. /\ url' \in [Handlers -> Urls \cup {NoUrl}]
          /\ opening' = opening \ {h}
          /\ grant' \in [Handlers -> 0..MaxPagesPerAudit]
          /\ mine' \in [Handlers -> 0..NumAudits]
      BY <2>1 DEF TypeOK, Forget, Audits
    <2>4. /\ month' \in Months
          /\ sites' \subseteq Urls
          /\ auditsRun' \in [Months -> Nat]
          /\ pagesCrawled' \in [Months -> Nat]
          /\ pc' \in [Handlers -> {"idle", "site", "usage", "allowed", "committed"}]
          /\ pc'[h] = "committed" /\ \A g \in Handlers : g # h => pc'[g] = pc[g]
      <3>1. url[h] \in Urls
        BY <1>4 DEF Commit, TypeOK
      <3> QED BY <1>4, <3>1 DEF Commit, TypeOK
    <2>5. \A g \in Handlers : g # h => url'[g] = url[g]
      BY <2>1 DEF Forget, TypeOK
    <2> QED BY <1>4, <2>2, <2>3, <2>4, <2>5 DEF Commit, TypeOK
  <1>5. CASE Abandon(h)
    BY <1>5 DEF Abandon, Forget, TypeOK
  <1>6. CASE Enqueue(h)
    <2>1. job' \in [Audits -> {"none", "queued", "inprogress", "over"}]
      BY <1>6 DEF Enqueue, TypeOK
    <2>2. \A a \in Audits : job'[a] = "inprogress" => job[a] = "inprogress"
      BY <1>6 DEF Enqueue, TypeOK
    <2> QED BY <1>6, <2>1, <2>2 DEF Enqueue, TypeOK
  <1>7. CASE EnqueueFails(h)
    BY <1>7, FaultType DEF EnqueueFails, TypeOK
  <1> QED BY <1>1, <1>2, <1>3, <1>4, <1>5, <1>6, <1>7 DEF Admit

LEMMA WorkType ==
  ASSUME TypeOK, NEW a \in Audits, Work(a)
  PROVE  TypeOK'
  <1> USE QueueAssumption DEF frame, admissionVars
  <1>1. CASE Start(a)
    <2>1. try[a] + 1 \in Tries
      BY <1>1 DEF Start, TypeOK, Tries
    <2>4. /\ try' \in [Audits -> 0..MaxTries]
          /\ try'[a] > 0
          /\ \A b \in Audits : b # a => try'[b] = try[b]
          /\ \A b \in Audits : try[b] > 0 => try'[b] > 0
      BY <1>1 DEF Start, TypeOK
    <2>2. CASE Exists(a)
      <3>1. SetTask(a, try[a] + 1, "crawl", 0)
        BY <1>1, <2>2 DEF Start
      <3>2. /\ status' \in [Audits -> Statuses]
            /\ job' \in [Audits -> {"none", "queued", "inprogress", "over"}]
            /\ \A b \in Audits : job'[b] = "inprogress" => job[b] = "inprogress" \/ b = a
        BY <1>1, <2>2 DEF Start, TypeOK, Statuses
      <3> QED BY <1>1, <2>1, <2>4, <3>1, <3>2, SetTaskType DEF Start, TypeOK
    <2>3. CASE ~Exists(a)
      <3>1. /\ job' \in [Audits -> {"none", "queued", "inprogress", "over"}]
            /\ \A b \in Audits : job'[b] = "inprogress" => job[b] = "inprogress"
        BY <1>1, <2>3 DEF Start, TypeOK
      <3> QED BY <1>1, <2>3, <2>4, <3>1 DEF Start, TypeOK
    <2> QED BY <2>2, <2>3
  <1>2. CASE TriesExhausted(a)
    BY <1>2 DEF TriesExhausted, TypeOK
  <1>3. ASSUME NEW t \in Tries, Execute(a, t)
        PROVE  TypeOK'
    <2>1. ASSUME NEW docs \in 0..budget[a], CrawlReturns(a, t, docs)
          PROVE  TypeOK'
      <3>1. docs \in Nat
        BY DEF TypeOK
      <3> QED BY <2>1, <3>1, SetTaskType DEF CrawlReturns, TypeOK
    <2>2. CASE CrawlRaises(a, t)
      BY <2>2, SetTaskType DEF CrawlRaises, TypeOK
    <2>3. CASE Store(a, t)
      <3>1. CASE Exists(a) /\ SetTask(a, t, "over", 0)
        <4>1. task' \in [Audits -> [Tries ->
                 [at : {"unborn", "crawl", "store", "fail", "over"}, docs : Nat]]]
          BY <3>1, SetTaskType
        <4>2. task[a][t].docs \in Nat
          BY DEF TypeOK
        <4>3. CASE /\ status' = [status EXCEPT ![a] = "complete"]
                   /\ fetched' = [fetched EXCEPT ![a] = @ + task[a][t].docs]
                   /\ pagesCrawled' = [pagesCrawled EXCEPT ![month] = @ + task[a][t].docs]
          <5>1. /\ status' \in [Audits -> Statuses]
                /\ fetched' \in [Audits -> Nat]
                /\ pagesCrawled' \in [Months -> Nat]
            BY <4>2, <4>3 DEF TypeOK, Statuses
          <5> QED BY <2>3, <4>1, <5>1 DEF Store, TypeOK
        <4> QED BY <2>3, <3>1, <4>3 DEF Store
      <3>2. CASE Raise(a, t)
        <4>1. task' \in [Audits -> [Tries ->
                 [at : {"unborn", "crawl", "store", "fail", "over"}, docs : Nat]]]
          BY <3>2, SetTaskType DEF Raise
        <4> QED BY <2>3, <3>2, <4>1 DEF Store, Raise, TypeOK
      <3> QED BY <2>3, <3>1, <3>2 DEF Store
    <2>4. CASE MarkFailed(a, t)
      BY <2>4, SetTaskType DEF MarkFailed, TypeOK, Statuses
    <2> QED BY <1>3, <2>1, <2>2, <2>3, <2>4 DEF Execute
  <1>4. ASSUME NEW t \in Tries, StoreFails(a, t)
        PROVE  TypeOK'
    <2>1. task' \in [Audits -> [Tries ->
             [at : {"unborn", "crawl", "store", "fail", "over"}, docs : Nat]]]
      BY <1>4, SetTaskType DEF StoreFails, Raise
    <2> QED BY <1>4, <2>1, FaultType DEF StoreFails, Raise, TypeOK
  <1>5. ASSUME NEW t \in Tries, MarkFails(a, t)
        PROVE  TypeOK'
    BY <1>5, SetTaskType, FaultType DEF MarkFails, TypeOK
  <1>6. CASE Finish(a)
    BY <1>6 DEF Finish, TypeOK
  <1>7. CASE Shutdown(a)
    BY <1>7, CancelType, FaultType DEF Shutdown, TypeOK
  <1>8. CASE Timeout(a)
    BY <1>8, CancelType, FaultType DEF Timeout, TypeOK
  <1>9. CASE Crash(a)
    <2>1. try[a] \in Tries
      BY <1>9 DEF Crash, TypeOK, Tries
    <2>2. task' \in [Audits -> [Tries ->
             [at : {"unborn", "crawl", "store", "fail", "over"}, docs : Nat]]]
      BY <1>9, <2>1, SetTaskType DEF Crash
    <2> QED BY <1>9, <2>2, FaultType DEF Crash, TypeOK
  <1> QED
    BY <1>1, <1>2, <1>3, <1>4, <1>5, <1>6, <1>7, <1>8, <1>9 DEF Work, Interrupt

LEMMA NextType == TypeOK /\ [Next]_vars => TypeOK'
  <1> SUFFICES ASSUME TypeOK, [Next]_vars PROVE TypeOK'
    OBVIOUS
  <1>1. ASSUME NEW a \in Audits, DeleteAudit(a)
        PROVE  TypeOK'
    BY <1>1 DEF DeleteAudit, TypeOK, Statuses, usageVars, admissionVars, workerVars
  <1>2. CASE NextMonth
    BY <1>2, BoundsAssumption DEF NextMonth, TypeOK, Months, admissionVars, workerVars
  <1>3. CASE UNCHANGED vars
    BY <1>3 DEF vars, TypeOK, usageVars, admissionVars, workerVars
  <1> QED BY <1>1, <1>2, <1>3, AdmitType, WorkType DEF Next

(* Every reachable state is well typed; in particular no audit is ever given *)
(* more pages than the plan's per-audit ceiling.                            *)
THEOREM TypeCorrect == Spec => []TypeOK
  BY InitType, NextType, PTL DEF Spec

-----------------------------------------------------------------------------
(* Reservations.                                                           *)

IInv == TypeOK /\ AuditsReserved /\ SitesReserved /\ ConcurrencyReserved /\ Unstarted

\* Steps that leave the handlers and the counters of admission alone.
Elsewhere == UNCHANGED <<month, auditsRun, sites, pc, url, opening>>

LEMMA InitIInv == Init => IInv
  <1> SUFFICES ASSUME Init PROVE IInv
    OBVIOUS
  <1> USE PlanAssumption
  <1>1. Cardinality(Handlers) \in Nat
    BY HandlersFinite
  <1>2. Checked = {} /\ Cleared = {} /\ FirstTries = {} /\ opening = {} /\ sites = {}
    BY DEF Init, Checked, Cleared, FirstTries, Running
  <1>3. IsFiniteSet({}) /\ Cardinality({}) = 0
    BY FS_EmptySet
  <1>4. AuditsReserved
    BY <1>1, <1>2, <1>3 DEF Init, AuditsReserved, Overshoot
  <1>5. SitesReserved
    BY <1>1, <1>2, <1>3 DEF Init, SitesReserved, Overshoot
  <1>6. ConcurrencyReserved
    BY <1>1, <1>2, <1>3 DEF ConcurrencyReserved, Overshoot
  <1>7. Unstarted
    BY DEF Init, Unstarted
  <1> QED BY <1>4, <1>5, <1>6, <1>7, InitType DEF IInv

LEMMA NextElsewhere ==
  ASSUME [Next]_vars
  PROVE  (\E h \in Handlers : Admit(h)) \/ NextMonth \/ Elsewhere
  <1>1. ASSUME NEW a \in Audits, Work(a) \/ DeleteAudit(a)
        PROVE  Elsewhere
    BY <1>1 DEF Work, DeleteAudit, Elsewhere, Start, TriesExhausted, Execute,
       CrawlReturns, CrawlRaises, Store, StoreFails, MarkFailed, MarkFails, Finish,
       Interrupt, Shutdown, Timeout, Crash, frame, usageVars, admissionVars
  <1>2. CASE UNCHANGED vars
    BY <1>2 DEF vars, Elsewhere, usageVars, admissionVars
  <1> QED BY <1>1, <1>2 DEF Next

LEMMA NextAuditsReserved == IInv /\ [Next]_vars => AuditsReserved'
  <1> SUFFICES ASSUME IInv, [Next]_vars PROVE AuditsReserved'
    OBVIOUS
  <1> USE PlanAssumption DEF IInv
  <1>0. /\ Checked \subseteq Handlers /\ Checked' \subseteq Handlers
        /\ month \in Int /\ \A m \in Months : m \in Int /\ auditsRun[m] \in Nat
    BY BoundsAssumption DEF Checked, TypeOK, Months
  <1>a. /\ IsFiniteSet(Checked) /\ Cardinality(Checked) \in Nat
        /\ Cardinality(Checked') \in Nat
        /\ Cardinality(Checked') <= Cardinality(Handlers)
        /\ Cardinality(Handlers) \in Nat
    BY <1>0, HandlersFinite
  <1>1. ASSUME UNCHANGED <<month, auditsRun>>, Checked' \subseteq Checked
        PROVE  AuditsReserved'
    <2>1. Cardinality(Checked') <= Cardinality(Checked)
      BY <1>1, <1>a, Monotone
    <2> QED BY <1>0, <1>1, <1>a, <2>1 DEF AuditsReserved, Overshoot
  <1>2. ASSUME NEW h \in Handlers, NEW wanted \in Wants, ReadUsage(h, wanted)
        PROVE  AuditsReserved'
    <2>1. UNCHANGED <<month, auditsRun>> /\ auditsRun[month] < MaxAuditsPerMonth
      BY <1>2 DEF ReadUsage, Within, usageVars
    <2>2. ASSUME NEW m \in Months, m >= month
          PROVE  auditsRun[m] < MaxAuditsPerMonth
      BY <1>0, <2>1, <2>2 DEF AuditsReserved
    <2> QED BY <1>0, <1>a, <2>1, <2>2 DEF AuditsReserved, Overshoot
  <1>3. ASSUME NEW h \in Handlers, Commit(h)
        PROVE  AuditsReserved'
    <2>1. /\ h \in Checked /\ Checked' = Checked \ {h}
          /\ month' = month /\ auditsRun' = [auditsRun EXCEPT ![month] = @ + 1]
      BY <1>3 DEF Commit, Checked, TypeOK
    <2>2. Cardinality(Checked') = Cardinality(Checked) - 1
      BY <1>a, <2>1, OneLess
    <2>3. ASSUME NEW m \in Months
          PROVE  /\ auditsRun'[m] <= Overshoot(MaxAuditsPerMonth)
                 /\ m > month => auditsRun'[m] = 0
                 /\ m >= month => auditsRun'[m] + Cardinality(Checked')
                                    <= Overshoot(MaxAuditsPerMonth)
      BY <1>0, <1>a, <2>1, <2>2 DEF AuditsReserved, Overshoot, TypeOK
    <2> QED BY <2>1, <2>3 DEF AuditsReserved, Overshoot
  <1>4. ASSUME NEW h \in Handlers,
               (\E u \in Urls : OpenSite(h, u)) \/ CountRunning(h) \/ Abandon(h)
               \/ Enqueue(h) \/ EnqueueFails(h)
        PROVE  AuditsReserved'
    <2>1. UNCHANGED <<month, auditsRun>>
      BY <1>4 DEF OpenSite, CountRunning, Abandon, Enqueue, EnqueueFails, usageVars
    <2>2. Checked' \subseteq Checked
      BY <1>4 DEF OpenSite, CountRunning, Abandon, Enqueue, EnqueueFails, Checked, TypeOK
    <2> QED BY <1>1, <2>1, <2>2
  <1>5. ASSUME Elsewhere
        PROVE  AuditsReserved'
    BY <1>5, <1>1 DEF Elsewhere, Checked
  <1>6. ASSUME NextMonth
        PROVE  AuditsReserved'
    <2>1. month' = month + 1 /\ auditsRun' = auditsRun /\ Checked' = Checked
      BY <1>6 DEF NextMonth, Checked, admissionVars
    <2> QED BY <1>0, <1>a, <2>1 DEF AuditsReserved, Overshoot
  <1> QED
    BY <1>2, <1>3, <1>4, <1>5, <1>6, NextElsewhere DEF Admit

LEMMA NextSitesReserved == IInv /\ [Next]_vars => SitesReserved'
  <1> SUFFICES ASSUME IInv, [Next]_vars PROVE SitesReserved'
    OBVIOUS
  <1> USE PlanAssumption DEF IInv
  <1>0. opening \subseteq Handlers
    BY DEF TypeOK
  <1>a. /\ IsFiniteSet(opening) /\ Cardinality(opening) \in Nat
        /\ IsFiniteSet(sites) /\ Cardinality(sites) \in Nat
        /\ Cardinality(Handlers) \in Nat
    BY <1>0, HandlersFinite, FS_CardinalityType DEF SitesReserved
  <1>1. ASSUME NEW h \in Handlers, NEW u \in Urls, OpenSite(h, u)
        PROVE  SitesReserved'
    <2>1. ASSUME NEW g \in Handlers, pc'[g] \in {"site", "usage", "allowed"},
                 g \notin opening'
          PROVE  url'[g] \in sites'
      BY <1>1, <2>1 DEF OpenSite, SitesReserved, TypeOK
    <2>2. CASE opening' = opening
      BY <1>1, <2>1, <2>2 DEF OpenSite, SitesReserved, Overshoot
    <2>3. CASE /\ opening' = opening \cup {h}
               /\ Cardinality(sites) < MaxSites
      <3>1. /\ Cardinality(opening') \in Nat
            /\ Cardinality(opening') <= Cardinality(Handlers)
        BY <1>0, <2>3, HandlersFinite
      <3> QED BY <1>1, <1>a, <2>1, <2>3, <3>1 DEF OpenSite, SitesReserved, Overshoot
    <2> QED BY <1>1, <2>2, <2>3 DEF OpenSite, Within
  <1>2. ASSUME NEW h \in Handlers, Commit(h)
        PROVE  SitesReserved'
    <2>1. /\ opening' = opening \ {h} /\ sites' = sites \cup {url[h]}
          /\ pc[h] = "allowed" /\ pc' = [pc EXCEPT ![h] = "committed"]
          /\ url' = [url EXCEPT ![h] = NoUrl]
      BY <1>2 DEF Commit, Forget
    <2>2. \A g \in Handlers :
             pc'[g] \in {"site", "usage", "allowed"} /\ g \notin opening'
                => url'[g] \in sites'
      BY <2>1 DEF SitesReserved, TypeOK
    <2>3. CASE h \in opening
      <3>1. Cardinality(opening') = Cardinality(opening) - 1
        BY <1>a, <2>1, <2>3, OneLess
      <3>2. /\ IsFiniteSet(sites') /\ Cardinality(sites') \in Nat
            /\ Cardinality(sites') <= Cardinality(sites) + 1
        BY <1>a, <2>1, AtMostOneMore
      <3> QED BY <1>a, <2>2, <3>1, <3>2 DEF SitesReserved, Overshoot
    <2>4. CASE h \notin opening
      <3>1. opening' = opening /\ sites' = sites
        BY <2>1, <2>4 DEF SitesReserved
      <3> QED BY <2>2, <3>1 DEF SitesReserved, Overshoot
    <2> QED BY <2>3, <2>4
  <1>3. ASSUME NEW h \in Handlers, Abandon(h)
        PROVE  SitesReserved'
    <2>1. /\ opening' = opening \ {h} /\ sites' = sites
          /\ pc' = [pc EXCEPT ![h] = "idle"]
          /\ url' = [url EXCEPT ![h] = NoUrl]
      BY <1>3 DEF Abandon, Forget
    <2>2. \A g \in Handlers :
             pc'[g] \in {"site", "usage", "allowed"} /\ g \notin opening'
                => url'[g] \in sites'
      BY <2>1 DEF SitesReserved, TypeOK
    <2>3. /\ Cardinality(opening') \in Nat
          /\ Cardinality(opening') <= Cardinality(opening)
      BY <1>a, <2>1, Monotone
    <2> QED BY <1>a, <2>1, <2>2, <2>3 DEF SitesReserved, Overshoot
  <1>4. ASSUME NEW h \in Handlers,
               (\E wanted \in Wants : ReadUsage(h, wanted)) \/ CountRunning(h)
               \/ Enqueue(h) \/ EnqueueFails(h)
        PROVE  SitesReserved'
    <2>1. UNCHANGED <<sites, opening, url>>
      BY <1>4 DEF ReadUsage, CountRunning, Enqueue, EnqueueFails
    <2>2. \A g \in Handlers : pc'[g] \in {"site", "usage", "allowed"}
             => pc[g] \in {"site", "usage", "allowed"}
      BY <1>4 DEF ReadUsage, CountRunning, Enqueue, EnqueueFails, TypeOK
    <2> QED BY <2>1, <2>2 DEF SitesReserved, Overshoot
  <1>5. CASE Elsewhere
    BY <1>5 DEF Elsewhere, SitesReserved, Overshoot
  <1>6. CASE NextMonth
    BY <1>6 DEF NextMonth, admissionVars, SitesReserved, Overshoot
  <1> QED BY <1>1, <1>2, <1>3, <1>4, <1>5, <1>6, NextElsewhere DEF Admit

LEMMA NextUnstarted == IInv /\ [Next]_vars => Unstarted'
  <1> SUFFICES ASSUME IInv, [Next]_vars PROVE Unstarted'
    OBVIOUS
  <1> USE DEF IInv, Unstarted
  <1>1. ASSUME NEW h \in Handlers, Admit(h)
        PROVE  Unstarted'
    <2>1. UNCHANGED <<try, task>>
      BY <1>1 DEF Admit, OpenSite, ReadUsage, CountRunning, Commit, Abandon, Enqueue,
         EnqueueFails, workerVars
    <2>2. \A a \in Audits : status'[a] \in {status[a], "pending"}
      BY <1>1 DEF Admit, OpenSite, ReadUsage, CountRunning, Commit, Abandon, Enqueue,
         EnqueueFails, TypeOK
    <2> QED BY <2>1, <2>2
  <1>2. ASSUME NEW a \in Audits, Work(a)
        PROVE  Unstarted'
    <2>1. ASSUME NEW b \in Audits, b # a
          PROVE  try'[b] = try[b] /\ status'[b] = status[b] /\ task'[b] = task[b]
      BY <1>2, <2>1 DEF Work, Start, TriesExhausted, Execute, CrawlReturns, CrawlRaises,
         Store, StoreFails, MarkFailed, MarkFails, Finish, Interrupt, Shutdown,
         Timeout, Crash, Raise, SetTask, Cancel, TypeOK
    <2>2. CASE Start(a)
      <3>1. try'[a] # 0
        BY <2>2 DEF Start, TypeOK
      <3> QED BY <2>1, <3>1
    <2>3. CASE try[a] # 0 /\ try' = try
      BY <2>1, <2>3
    <2>4. CASE TriesExhausted(a)
      BY <2>4 DEF TriesExhausted
    <2>5. CASE Finish(a) \/ Interrupt(a)
      <3>1. try[a] # 0 /\ try' = try
        BY <2>5 DEF Finish, Interrupt, Shutdown, Timeout, Crash, TypeOK
      <3> QED BY <2>3, <3>1
    <2>6. ASSUME NEW t \in Tries, Execute(a, t) \/ StoreFails(a, t) \/ MarkFails(a, t)
          PROVE  Unstarted'
      <3>1. task[a][t].at # "unborn" /\ try' = try
        BY <2>6 DEF Execute, CrawlReturns, CrawlRaises, Store, StoreFails, MarkFailed,
           MarkFails
      <3> QED BY <2>3, <3>1
    <2> QED BY <1>2, <2>2, <2>4, <2>5, <2>6 DEF Work
  <1>3. ASSUME NEW a \in Audits, DeleteAudit(a)
        PROVE  Unstarted'
    BY <1>3 DEF DeleteAudit, workerVars, TypeOK
  <1>4. CASE NextMonth
    BY <1>4 DEF NextMonth, workerVars
  <1>5. CASE UNCHANGED vars
    BY <1>5 DEF vars, workerVars
  <1> QED BY <1>1, <1>2, <1>3, <1>4, <1>5 DEF Next

LEMMA NextConcurrencyReserved == IInv /\ [Next]_vars => ConcurrencyReserved'
  <1> SUFFICES ASSUME IInv, [Next]_vars PROVE ConcurrencyReserved'
    OBVIOUS
  <1> USE PlanAssumption DEF IInv
  <1>0. /\ Running \subseteq Audits
        /\ FirstTries \subseteq Running /\ FirstTries' \subseteq Audits
        /\ Cleared \subseteq Handlers /\ Cleared' \subseteq Handlers
    BY DEF Running, FirstTries, Cleared
  <1>a. /\ IsFiniteSet(Cleared) /\ Cardinality(Cleared) \in Nat
        /\ Cardinality(Cleared') \in Nat
        /\ Cardinality(Cleared') <= Cardinality(Handlers)
        /\ Cardinality(Handlers) \in Nat
    BY <1>0, HandlersFinite
  <1>b. /\ IsFiniteSet(Running) /\ Cardinality(Running) \in Nat
        /\ IsFiniteSet(FirstTries) /\ Cardinality(FirstTries) \in Nat
        /\ Cardinality(FirstTries') \in Nat
        /\ Cardinality(FirstTries) <= Cardinality(Running)
    BY <1>0, AuditsFinite, Monotone
  <1>1. ASSUME FirstTries' \subseteq FirstTries, Cleared' \subseteq Cleared
        PROVE  ConcurrencyReserved'
    <2>1. Cardinality(FirstTries') <= Cardinality(FirstTries)
      BY <1>1, <1>b, Monotone
    <2>2. Cardinality(Cleared') <= Cardinality(Cleared)
      BY <1>1, <1>a, Monotone
    <2> QED BY <1>a, <1>b, <2>1, <2>2 DEF ConcurrencyReserved, Overshoot
  <1>2. ASSUME NEW h \in Handlers, CountRunning(h)
        PROVE  ConcurrencyReserved'
    <2>1. Cardinality(Running) < MaxConcurrentAudits
      BY <1>2 DEF CountRunning, Within
    <2>2. FirstTries' = FirstTries
      BY <1>2 DEF CountRunning, FirstTries, Running, workerVars
    <2> QED BY <1>a, <1>b, <2>1, <2>2 DEF ConcurrencyReserved, Overshoot
  <1>3. ASSUME NEW h \in Handlers, Commit(h)
        PROVE  ConcurrencyReserved'
    <2>1. PICK a \in Audits : status' = [status EXCEPT ![a] = "pending"]
      BY <1>3 DEF Commit
    <2>2. FirstTries' \subseteq FirstTries \cup {a}
      BY <1>3, <2>1 DEF Commit, FirstTries, Running, workerVars, TypeOK
    <2>3. Cardinality(FirstTries') <= Cardinality(FirstTries) + 1
      BY <1>b, <2>2, AtMostOneMore
    <2>4. h \in Cleared /\ Cleared' = Cleared \ {h}
      BY <1>3 DEF Commit, Cleared, TypeOK
    <2>5. Cardinality(Cleared') = Cardinality(Cleared) - 1
      BY <1>a, <2>4, OneLess
    <2> QED BY <1>a, <1>b, <2>3, <2>5 DEF ConcurrencyReserved, Overshoot
  <1>4. ASSUME NEW h \in Handlers,
               (\E u \in Urls : OpenSite(h, u))
               \/ (\E wanted \in Wants : ReadUsage(h, wanted))
               \/ Abandon(h) \/ Enqueue(h) \/ EnqueueFails(h)
        PROVE  ConcurrencyReserved'
    <2>1. UNCHANGED <<status, try>>
      BY <1>4 DEF OpenSite, ReadUsage, Abandon, Enqueue, EnqueueFails, workerVars
    <2>2. Cleared' \subseteq Cleared
      BY <1>4 DEF OpenSite, ReadUsage, Abandon, Enqueue, EnqueueFails, Cleared, TypeOK
    <2> QED BY <1>1, <2>1, <2>2 DEF FirstTries, Running
  <1>5. ASSUME NEW a \in Audits, Work(a)
        PROVE  ConcurrencyReserved'
    <2>1. Cleared' = Cleared
      BY <1>5 DEF Work, Start, TriesExhausted, Execute, CrawlReturns, CrawlRaises, Store,
         StoreFails, MarkFailed, MarkFails, Finish, Interrupt, Shutdown, Timeout,
         Crash, frame, admissionVars, Cleared
    <2>2. \A b \in Audits : b # a => status'[b] = status[b] /\ try'[b] = try[b]
      BY <1>5 DEF Work, Start, TriesExhausted, Execute, CrawlReturns, CrawlRaises, Store,
         StoreFails, MarkFailed, MarkFails, Finish, Interrupt, Shutdown, Timeout,
         Crash, Raise, TypeOK
    <2>3. CASE Start(a)
      <3>1. status'[a] \in {"pending", "running"} /\ try'[a] <= 1
               => a \in FirstTries
        <4>1. try'[a] = try[a] + 1 /\ try[a] \in Nat
          BY <2>3 DEF Start, TypeOK
        <4>2. status'[a] \in {"pending", "running"} => Exists(a)
          BY <2>3 DEF Start, Exists
        <4> QED BY <4>1, <4>2 DEF Unstarted, FirstTries, Running, Exists
      <3>2. FirstTries' \subseteq FirstTries
        BY <2>2, <3>1 DEF FirstTries, Running
      <3> QED BY <1>1, <2>1, <3>2
    <2>4. CASE try' = try /\ status'[a] \in {status[a], "complete", "failed"}
      <3>1. FirstTries' \subseteq FirstTries
        BY <2>2, <2>4 DEF FirstTries, Running
      <3> QED BY <1>1, <2>1, <3>1
    <2>5. Start(a) \/ (try' = try /\ status'[a] \in {status[a], "complete", "failed"})
      BY <1>5 DEF Work, TriesExhausted, Execute, CrawlReturns, CrawlRaises, Store,
         StoreFails, MarkFailed, MarkFails, Finish, Interrupt, Shutdown, Timeout,
         Crash, Raise, TypeOK
    <2> QED BY <2>3, <2>4, <2>5
  <1>6. ASSUME NEW a \in Audits, DeleteAudit(a)
        PROVE  ConcurrencyReserved'
    <2>1. FirstTries' \subseteq FirstTries /\ Cleared' = Cleared
      BY <1>6 DEF DeleteAudit, FirstTries, Running, Cleared, workerVars, admissionVars,
         TypeOK
    <2> QED BY <1>1, <2>1
  <1>7. CASE NextMonth
    BY <1>1, <1>7 DEF NextMonth, FirstTries, Running, Cleared, workerVars, admissionVars
  <1>8. CASE UNCHANGED vars
    BY <1>1, <1>8 DEF vars, FirstTries, Running, Cleared, workerVars, admissionVars
  <1> QED BY <1>2, <1>3, <1>4, <1>5, <1>6, <1>7, <1>8 DEF Next, Admit

LEMMA Inductive == Spec => []IInv
  <1>1. IInv /\ [Next]_vars => IInv'
    BY NextType, NextAuditsReserved, NextSitesReserved, NextConcurrencyReserved,
       NextUnstarted DEF IInv
  <1> QED BY InitIInv, <1>1, PTL DEF Spec

(* create_audit checks the monthly audit limit before it records the audit,  *)
(* in a transaction nobody waits for; whatever the interleaving, the faults *)
(* and the calendar, a month takes at most |Handlers| - 1 audits too many.   *)
THEOREM AuditsBounded == Spec => []AuditsOvershoot
  <1>1. IInv => AuditsOvershoot
    BY DEF IInv, AuditsReserved, AuditsOvershoot
  <1> QED BY <1>1, Inductive, PTL

(* The same for check_site_allowed and the sites of the organisation.       *)
THEOREM SitesBounded == Spec => []SitesOvershoot
  <1>1. IInv => SitesOvershoot
    <2> SUFFICES ASSUME IInv PROVE SitesOvershoot
      OBVIOUS
    <2>1. Cardinality(opening) \in Nat /\ Cardinality(Handlers) \in Nat
      BY HandlersFinite DEF IInv, TypeOK
    <2>2. Cardinality(sites) \in Nat
      BY FS_CardinalityType DEF IInv, SitesReserved
    <2> QED BY <2>1, <2>2, PlanAssumption DEF IInv, SitesReserved, SitesOvershoot, Overshoot
  <1> QED BY <1>1, Inductive, PTL

(* The same for count_running_audits and the audits no job of which was     *)
(* handed out twice, under every fault of the worker.                       *)
THEOREM ConcurrencyBounded == Spec => []ConcurrencyOvershoot
  <1>1. IInv => ConcurrencyOvershoot
    <2> SUFFICES ASSUME IInv PROVE ConcurrencyOvershoot
      OBVIOUS
    <2>1. Cardinality(Cleared) \in Nat /\ Cardinality(Handlers) \in Nat
      BY HandlersFinite DEF Cleared
    <2>2. Cardinality(FirstTries) \in Nat
      BY AuditsFinite DEF FirstTries, Running
    <2> QED BY <2>1, <2>2, PlanAssumption
            DEF IInv, ConcurrencyReserved, ConcurrencyOvershoot, Overshoot
  <1> QED BY <1>1, Inductive, PTL

-----------------------------------------------------------------------------
(* The worker's steps, by what they do to their audit.                     *)

\* The worker's steps touch one audit and leave the handlers alone.
LEMMA WorkElsewhere ==
  ASSUME TypeOK, NEW a \in Audits, Work(a)
  PROVE  /\ UNCHANGED <<pc, mine, budget>>
         /\ \A b \in Audits : b # a =>
               /\ status'[b] = status[b] /\ job'[b] = job[b] /\ try'[b] = try[b]
               /\ task'[b] = task[b] /\ fetched'[b] = fetched[b]
  BY DEF Work, Start, TriesExhausted, Execute, CrawlReturns, CrawlRaises, Store,
     StoreFails, MarkFailed, MarkFails, Finish, Interrupt, Shutdown, Timeout, Crash,
     Raise, SetTask, Cancel, TypeOK, frame, admissionVars

LEMMA SetTaskAt ==
  ASSUME TypeOK, NEW a \in Audits, NEW t \in Tries, NEW at, NEW docs,
         SetTask(a, t, at, docs)
  PROVE  /\ task'[a][t] = [at |-> at, docs |-> docs]
         /\ \A s \in Tries : s # t => task'[a][s] = task[a][s]
         /\ \A b \in Audits : b # a => task'[b] = task[b]
  BY DEF SetTask, TypeOK

\* What becomes of an execution that is cancelled.
LEMMA CancelAt ==
  ASSUME TypeOK, NEW a \in Audits, job[a] = "inprogress", Cancel(a)
  PROVE  /\ try[a] \in Tries
         /\ \A s \in Tries : \/ task'[a][s] = task[a][s]
                             \/ s = try[a] /\ task'[a][s] = [at |-> "over", docs |-> 0]
  <1>1. try[a] \in Tries
    BY QueueAssumption DEF TypeOK, Tries
  <1> QED BY <1>1, SetTaskAt DEF Cancel

-----------------------------------------------------------------------------
(* Rows, jobs and executions keep step.                                    *)

LEMMA NextDelivered == TypeOK /\ Delivered /\ [Next]_vars => Delivered'
  <1> SUFFICES ASSUME TypeOK, Delivered, [Next]_vars PROVE Delivered'
    OBVIOUS
  <1>1. ASSUME NEW h \in Handlers, Commit(h)
        PROVE  Delivered'
    <2>1. PICK a \in Audits : /\ pc[h] = "allowed" /\ status[a] = "none"
                              /\ status' = [status EXCEPT ![a] = "pending"]
                              /\ mine' = [mine EXCEPT ![h] = a]
                              /\ pc' = [pc EXCEPT ![h] = "committed"]
                              /\ UNCHANGED <<job, try, task>>
      BY <1>1 DEF Commit, Forget, workerVars
    <2>2. /\ \A b \in Audits : status[b] # "none" => b # a /\ status'[b] = status[b]
          /\ status'[a] = "pending"
          /\ pc'[h] = "committed" /\ mine'[h] = a
          /\ \A g \in Handlers : g # h => pc'[g] = pc[g] /\ mine'[g] = mine[g]
      BY <2>1 DEF TypeOK
    <2> QED BY <2>1, <2>2 DEF Delivered
  <1>2. ASSUME NEW h \in Handlers, Enqueue(h)
        PROVE  Delivered'
    <2>1. /\ pc[h] = "committed"
          /\ pc'[h] = "idle"
          /\ \A g \in Handlers : g # h => pc'[g] = pc[g] /\ mine'[g] = mine[g]
          /\ \A b \in Audits : b # mine[h] => job'[b] = job[b]
          /\ UNCHANGED <<status, try, task>>
      BY <1>2 DEF Enqueue, TypeOK, workerVars
    <2>2. mine[h] \in Audits /\ job'[mine[h]] = "queued"
      BY <1>2, <2>1 DEF Enqueue, TypeOK, Delivered
    <2> QED BY <2>1, <2>2 DEF Delivered
  <1>3. ASSUME NEW h \in Handlers, Admit(h), ~Commit(h), ~Enqueue(h)
        PROVE  Delivered'
    <2>1. /\ UNCHANGED <<status, job, try, task>>
          /\ \A g \in Handlers : pc'[g] = "committed" => pc[g] = "committed" /\ mine'[g] = mine[g]
      BY <1>3 DEF Admit, OpenSite, ReadUsage, CountRunning, Abandon, EnqueueFails,
         Forget, workerVars, TypeOK
    <2> QED BY <2>1 DEF Delivered
  <1>4. ASSUME NEW a \in Audits, Work(a)
        PROVE  Delivered'
    <2>0. /\ UNCHANGED <<pc, mine>>
          /\ \A b \in Audits : b # a =>
                status'[b] = status[b] /\ job'[b] = job[b] /\ try'[b] = try[b] /\ task'[b] = task[b]
      BY <1>4, WorkElsewhere
    <2> DEFINE Kept == /\ job[a] # "none" /\ status'[a] # "none" /\ job'[a] # "none"
                       /\ \A t \in Tries : t > try'[a] => task'[a][t].at = "unborn"
    <2>1. SUFFICES Kept
      BY <2>0, <2>1 DEF Delivered
    <2>2. CASE Start(a)
      <3>1. try[a] + 1 \in Tries /\ try'[a] = try[a] + 1 /\ job[a] = "queued"
        BY <2>2, QueueAssumption DEF Start, TypeOK, Tries
      <3>2. status[a] # "none"
        BY <3>1 DEF Delivered
      <3>3. status'[a] # "none" /\ job'[a] # "none"
        BY <2>2, <3>2 DEF Start, TypeOK
      <3>4. \A t \in Tries : t # try[a] + 1 => task'[a][t] = task[a][t]
        BY <2>2, <3>1, SetTaskAt DEF Start
      <3>5. \A t \in Tries : t > try'[a] => t # try[a] + 1 /\ t > try[a]
        BY <3>1 DEF Tries, TypeOK
      <3> QED BY <3>1, <3>3, <3>4, <3>5 DEF Delivered
    <2>3. CASE TriesExhausted(a) \/ Finish(a)
      BY <2>3 DEF TriesExhausted, Finish, Delivered, TypeOK
    <2>4. ASSUME NEW t \in Tries, Execute(a, t) \/ StoreFails(a, t) \/ MarkFails(a, t)
          PROVE  Kept
      <3>1. /\ task[a][t].at # "unborn" /\ job' = job /\ try' = try
            /\ status'[a] \in {status[a], "complete", "failed"}
            /\ \A s \in Tries : s # t => task'[a][s] = task[a][s]
        <4>1. \E at \in {"store", "fail", "over"} : \E docs : SetTask(a, t, at, docs)
          BY <2>4 DEF Execute, CrawlReturns, CrawlRaises, Store, StoreFails, MarkFailed,
             MarkFails, Raise
        <4>2. \A s \in Tries : s # t => task'[a][s] = task[a][s]
          BY <4>1, SetTaskAt
        <4> QED BY <2>4, <4>2 DEF Execute, CrawlReturns, CrawlRaises, Store, StoreFails,
               MarkFailed, MarkFails, Raise, TypeOK
      <3>2. ~(t > try[a])
        BY <3>1 DEF Delivered
      <3>3. job[a] # "none"
        BY <3>1, <3>2 DEF Delivered, Tries, TypeOK
      <3> QED BY <3>1, <3>2, <3>3 DEF Delivered
    <2>5. CASE Interrupt(a)
      <3>1. /\ job[a] = "inprogress" /\ job'[a] # "none" /\ try' = try /\ status' = status
            /\ Cancel(a) \/ SetTask(a, try[a], "over", 0)
        BY <2>5 DEF Interrupt, Shutdown, Timeout, Crash, TypeOK
      <3>2. try[a] \in Tries
        BY <3>1, QueueAssumption DEF TypeOK, Tries
      <3>3. \A s \in Tries : s # try[a] => task'[a][s] = task[a][s]
        BY <3>1, <3>2, CancelAt, SetTaskAt
      <3>4. \A s \in Tries : s > try'[a] => s # try[a] /\ s > try[a]
        BY <3>1, <3>2 DEF Tries
      <3>5. status[a] # "none"
        BY <3>1 DEF Delivered
      <3> QED BY <3>1, <3>3, <3>4, <3>5 DEF Delivered
    <2> HIDE DEF Kept
    <2> QED BY <1>4, <2>2, <2>3, <2>4, <2>5 DEF Work
  <1>5. ASSUME NEW a \in Audits, DeleteAudit(a)
        PROVE  Delivered'
    <2>1. /\ UNCHANGED <<pc, mine, job, try, task>>
          /\ \A b \in Audits : status'[b] = "none" <=> status[b] = "none"
      BY <1>5 DEF DeleteAudit, admissionVars, workerVars, Exists, TypeOK
    <2> QED BY <2>1 DEF Delivered
  <1>6. CASE NextMonth \/ UNCHANGED vars
    BY <1>6 DEF NextMonth, vars, admissionVars, workerVars, Delivered
  <1> QED BY <1>1, <1>2, <1>3, <1>4, <1>5, <1>6 DEF Next

LEMMA InitDelivered == Init => Delivered
  BY DEF Init, Delivered

-----------------------------------------------------------------------------
(* What an audit is billed.                                                *)

LEMMA TimesMonotone ==
  ASSUME NEW m \in Nat, NEW n \in Nat, NEW b \in Nat, m <= n
  PROVE  m * b <= n * b
  <1>1. PICK d \in Nat : n = m + d
    <2>1. n - m \in Nat /\ n = m + (n - m)
      OBVIOUS
    <2> QED BY <2>1
  <1>2. n * b = m * b + d * b
    BY <1>1
  <1>3. d * b \in Nat /\ m * b \in Nat
    BY <1>1
  <1> QED BY <1>2, <1>3

LEMMA SpentFinite ==
  ASSUME TypeOK, NEW a \in Audits
  PROVE  /\ IsFiniteSet(Spent(a)) /\ Cardinality(Spent(a)) \in Nat
         /\ Cardinality(Spent(a)) <= try[a]
  <1>1. try[a] \in Nat
    BY QueueAssumption DEF TypeOK
  <1>2. IsFiniteSet(1..try[a]) /\ Cardinality(1..try[a]) = try[a]
    BY <1>1, FS_Interval
  <1>3. Spent(a) \subseteq 1..try[a]
    BY <1>1 DEF Spent, Tries
  <1> QED BY <1>2, <1>3, FS_Subset, FS_CardinalityType

\* More executions spent pay for as much.
LEMMA StillPaid ==
  ASSUME TypeOK, TypeOK', NEW a \in Audits, Spent(a) \subseteq Spent(a)',
         fetched[a] <= Cardinality(Spent(a)) * budget[a],
         fetched'[a] = fetched[a], budget'[a] = budget[a]
  PROVE  fetched'[a] <= Cardinality(Spent(a)') * budget'[a]
  <1>1. /\ Cardinality(Spent(a)) \in Nat
        /\ IsFiniteSet(Spent(a)') /\ Cardinality(Spent(a)') \in Nat
    <2>1. try'[a] \in Nat
      BY QueueAssumption DEF TypeOK
    <2>2. IsFiniteSet(1..try'[a])
      BY <2>1, FS_Interval
    <2>3. Spent(a)' \subseteq 1..try'[a]
      BY <2>1 DEF Spent, Tries
    <2> QED BY <2>2, <2>3, SpentFinite, FS_Subset, FS_CardinalityType
  <1>2. Cardinality(Spent(a)) <= Cardinality(Spent(a)')
    BY <1>1, FS_Subset
  <1>3. budget[a] \in Nat /\ fetched[a] \in Nat
    BY PlanAssumption DEF TypeOK
  <1>4. Cardinality(Spent(a)) * budget[a] <= Cardinality(Spent(a)') * budget[a]
    BY <1>1, <1>2, <1>3, TimesMonotone
  <1>5. /\ Cardinality(Spent(a)) * budget[a] \in Nat
        /\ Cardinality(Spent(a)') * budget[a] \in Nat
    BY <1>1, <1>3
  <1> QED BY <1>3, <1>4, <1>5

\* How the worker moves the executions of its audit.
LEMMA WorkTasks ==
  ASSUME TypeOK, Delivered, NEW a \in Audits, Work(a)
  PROVE  /\ try'[a] \in Nat /\ try'[a] >= try[a] /\ try[a] \in Nat
         /\ \A t \in Tries :
               \/ task'[a][t] = task[a][t]
               \/ task'[a][t].at \in {"fail", "over"}
               \/ t > try[a] /\ task'[a][t].at = "crawl"
               \/ /\ task[a][t].at = "crawl" /\ task'[a][t].at = "store"
                  /\ task'[a][t].docs <= budget[a]
  <1>0. try[a] \in Nat
    BY QueueAssumption DEF TypeOK
  <1>1. CASE Start(a)
    <2>1. try[a] + 1 \in Tries /\ try'[a] = try[a] + 1
      BY <1>1, QueueAssumption DEF Start, TypeOK, Tries
    <2>2. \/ task' = task
          \/ SetTask(a, try[a] + 1, "crawl", 0)
      BY <1>1 DEF Start
    <2>3. ASSUME SetTask(a, try[a] + 1, "crawl", 0)
          PROVE  \A t \in Tries : \/ task'[a][t] = task[a][t]
                                  \/ t = try[a] + 1 /\ task'[a][t].at = "crawl"
      <3>1. /\ task'[a][try[a] + 1] = [at |-> "crawl", docs |-> 0]
            /\ \A s \in Tries : s # try[a] + 1 => task'[a][s] = task[a][s]
        BY <2>1, <2>3, SetTaskAt
      <3> QED BY <3>1
    <2>4. try[a] + 1 > try[a]
      BY <1>0
    <2> QED BY <1>0, <2>1, <2>2, <2>3, <2>4
  <1>2. CASE TriesExhausted(a) \/ Finish(a)
    BY <1>0, <1>2 DEF TriesExhausted, Finish
  <1>3. ASSUME NEW t \in Tries, NEW docs \in 0..budget[a], CrawlReturns(a, t, docs)
        PROVE  /\ try'[a] = try[a]
               /\ \A s \in Tries :
                     \/ task'[a][s] = task[a][s]
                     \/ /\ task[a][s].at = "crawl" /\ task'[a][s].at = "store"
                        /\ task'[a][s].docs <= budget[a]
    <2>1. docs <= budget[a]
      BY PlanAssumption DEF TypeOK
    <2>2. SetTask(a, t, "store", docs) /\ task[a][t].at = "crawl" /\ try' = try
      BY <1>3 DEF CrawlReturns
    <2>3. /\ task'[a][t] = [at |-> "store", docs |-> docs]
          /\ \A s \in Tries : s # t => task'[a][s] = task[a][s]
      BY <2>2, SetTaskAt
    <2> QED BY <2>1, <2>2, <2>3
  <1>4. ASSUME NEW t \in Tries, CrawlRaises(a, t) \/ Store(a, t) \/ MarkFailed(a, t)
                                  \/ StoreFails(a, t) \/ MarkFails(a, t)
        PROVE  /\ try'[a] = try[a]
               /\ \A s \in Tries : \/ task'[a][s] = task[a][s]
                                   \/ task'[a][s].at \in {"fail", "over"}
    <2>1. try' = try /\ \E at \in {"fail", "over"} : \E docs : SetTask(a, t, at, docs)
      BY <1>4 DEF CrawlRaises, Store, MarkFailed, StoreFails, MarkFails, Raise
    <2>2. PICK at, docs : at \in {"fail", "over"} /\ SetTask(a, t, at, docs)
      BY <2>1
    <2>3. /\ task'[a][t] = [at |-> at, docs |-> docs]
          /\ \A s \in Tries : s # t => task'[a][s] = task[a][s]
      BY <2>2, SetTaskAt
    <2> QED BY <2>1, <2>2, <2>3
  <1>5. CASE Interrupt(a)
    <2>1. /\ job[a] = "inprogress" /\ try' = try
          /\ Cancel(a) \/ SetTask(a, try[a], "over", 0)
      BY <1>5 DEF Interrupt, Shutdown, Timeout, Crash
    <2>2. try[a] \in Tries
      BY <2>1, QueueAssumption DEF TypeOK, Tries
    <2>3. ASSUME SetTask(a, try[a], "over", 0)
          PROVE  \A s \in Tries : \/ task'[a][s] = task[a][s]
                                  \/ task'[a][s].at = "over"
      <3>1. /\ task'[a][try[a]] = [at |-> "over", docs |-> 0]
            /\ \A s \in Tries : s # try[a] => task'[a][s] = task[a][s]
        BY <2>2, <2>3, SetTaskAt
      <3> QED BY <3>1
    <2>4. ASSUME Cancel(a)
          PROVE  \A s \in Tries : \/ task'[a][s] = task[a][s]
                                  \/ task'[a][s].at = "over"
      <3>1. \A s \in Tries : \/ task'[a][s] = task[a][s]
                             \/ s = try[a] /\ task'[a][s] = [at |-> "over", docs |-> 0]
        BY <2>1, <2>4, CancelAt
      <3> QED BY <3>1
    <2> QED BY <1>0, <2>1, <2>3, <2>4
  <1> QED BY <1>0, <1>1, <1>2, <1>3, <1>4, <1>5 DEF Work, Execute

LEMMA NextPaid ==
  ASSUME TypeOK, TypeOK', Delivered, PaidBySpent, [Next]_vars
  PROVE  PaidBySpent'
  <1> DEFINE Paid(a) == /\ fetched[a] <= Cardinality(Spent(a)) * budget[a]
                        /\ \A t \in Tries : task[a][t].at = "store" =>
                               task[a][t].docs <= budget[a]
  <1>0. ASSUME NEW a \in Audits, try'[a] = try[a], task'[a] = task[a],
               fetched'[a] = fetched[a], budget'[a] = budget[a]
        PROVE  Paid(a)'
    <2>1. Spent(a)' = Spent(a)
      BY <1>0 DEF Spent
    <2> QED BY <1>0, <2>1 DEF PaidBySpent
  <1>1. ASSUME NEW h \in Handlers, Commit(h)
        PROVE  PaidBySpent'
    <2>1. PICK a \in Audits : /\ status[a] = "none"
                              /\ budget' = [budget EXCEPT ![a] = grant[h]]
                              /\ UNCHANGED <<try, task, fetched>>
      BY <1>1 DEF Commit, workerVars
    <2>2. try[a] = 0 /\ \A t \in Tries : task[a][t].at = "unborn"
      BY <2>1 DEF Delivered, Tries
    <2>3. Spent(a) = {} /\ Spent(a)' = {}
      BY <2>1, <2>2 DEF Spent, Tries
    <2>4. Cardinality(Spent(a)) = 0 /\ Cardinality(Spent(a)') = 0
      BY <2>3, FS_EmptySet
    <2>5. budget[a] \in Nat /\ budget'[a] \in Nat /\ fetched[a] \in Nat
      BY PlanAssumption DEF TypeOK
    <2>6. fetched[a] <= 0 * budget[a]
      BY <2>4 DEF PaidBySpent
    <2>7. 0 * budget[a] = 0 /\ 0 * budget'[a] = 0
      BY <2>5
    <2>8. Paid(a)'
      BY <2>1, <2>2, <2>4, <2>5, <2>6, <2>7
    <2>9. ASSUME NEW b \in Audits, b # a PROVE Paid(b)'
      BY <1>0, <2>1, <2>9 DEF TypeOK
    <2> QED BY <2>8, <2>9 DEF PaidBySpent
  <1>2. CASE UNCHANGED <<try, task, fetched, budget>>
    BY <1>0, <1>2 DEF PaidBySpent
  <1>3. ASSUME NEW h \in Handlers, Admit(h), ~Commit(h)
        PROVE  UNCHANGED <<try, task, fetched, budget>>
    BY <1>3 DEF Admit, OpenSite, ReadUsage, CountRunning, Abandon, Enqueue, EnqueueFails,
       workerVars
  <1>4. ASSUME NEW a \in Audits, Work(a)
        PROVE  PaidBySpent'
    <2>0. /\ budget' = budget
          /\ \A b \in Audits : b # a => Paid(b)'
      BY <1>0, <1>4, WorkElsewhere
    <2>1. \A t \in Tries : task'[a][t].at = "store" => task'[a][t].docs <= budget'[a]
      BY <1>4, <2>0, WorkTasks DEF PaidBySpent
    <2>2. Spent(a) \subseteq Spent(a)'
      BY <1>4, WorkTasks DEF Spent, Tries
    <2>3. CASE fetched'[a] = fetched[a]
      BY <2>0, <2>1, <2>2, <2>3, StillPaid DEF PaidBySpent
    <2>4. ASSUME NEW t \in Tries, task[a][t].at = "store", task'[a][t].at = "over",
                 fetched'[a] = fetched[a] + task[a][t].docs, try' = try
          PROVE  PaidBySpent'
      <3>1. t \in Spent(a)' /\ t \notin Spent(a)
        <4>0. try[a] \in Nat /\ t \in Nat
          BY QueueAssumption DEF TypeOK, Tries
        <4>1. ~(t > try[a])
          BY <2>4 DEF Delivered
        <4>2. t <= try[a] /\ try'[a] = try[a]
          BY <2>4, <4>0, <4>1
        <4> QED BY <2>4, <4>2 DEF Spent
      <3>2. Cardinality(Spent(a)) + 1 <= Cardinality(Spent(a)')
        <4>1. /\ IsFiniteSet(Spent(a) \cup {t})
              /\ Cardinality(Spent(a) \cup {t}) = Cardinality(Spent(a)) + 1
          BY <3>1, SpentFinite, FS_AddElement
        <4>2. Spent(a) \cup {t} \subseteq Spent(a)'
          BY <2>2, <3>1
        <4>3. IsFiniteSet(Spent(a)')
          <5>1. try'[a] \in Nat
            BY QueueAssumption DEF TypeOK
          <5>2. IsFiniteSet(1..try'[a])
            BY <5>1, FS_Interval
          <5>3. Spent(a)' \subseteq 1..try'[a]
            BY <5>1 DEF Spent, Tries
          <5> QED BY <5>2, <5>3, FS_Subset
        <4> QED BY <4>1, <4>2, <4>3, FS_Subset
      <3>3. Cardinality(Spent(a)) \in Nat /\ Cardinality(Spent(a)') \in Nat
        <4>1. try'[a] \in Nat
          BY QueueAssumption DEF TypeOK
        <4>2. IsFiniteSet(1..try'[a])
          BY <4>1, FS_Interval
        <4>3. Spent(a)' \subseteq 1..try'[a]
          BY <4>1 DEF Spent, Tries
        <4> QED BY <4>2, <4>3, SpentFinite, FS_Subset, FS_CardinalityType
      <3>4. budget[a] \in Nat /\ fetched[a] \in Nat /\ task[a][t].docs \in Nat
        BY PlanAssumption DEF TypeOK
      <3>5. /\ fetched[a] <= Cardinality(Spent(a)) * budget[a]
            /\ task[a][t].docs <= budget[a]
        BY <2>4 DEF PaidBySpent
      <3>6. (Cardinality(Spent(a)) + 1) * budget[a] <= Cardinality(Spent(a)') * budget[a]
        BY <3>2, <3>3, <3>4, TimesMonotone
      <3>7. /\ (Cardinality(Spent(a)) + 1) * budget[a]
                  = Cardinality(Spent(a)) * budget[a] + budget[a]
            /\ Cardinality(Spent(a)) * budget[a] \in Nat
            /\ Cardinality(Spent(a)') * budget[a] \in Nat
        BY <3>3, <3>4
      <3>8. fetched'[a] <= Cardinality(Spent(a)') * budget'[a]
        BY <2>0, <2>4, <3>4, <3>5, <3>6, <3>7
      <3> QED BY <2>0, <2>1, <3>8 DEF PaidBySpent
    <2>5. \/ fetched'[a] = fetched[a]
          \/ \E t \in Tries : /\ task[a][t].at = "store" /\ task'[a][t].at = "over"
                              /\ fetched'[a] = fetched[a] + task[a][t].docs
                              /\ try' = try
      <3>1. ASSUME NEW t \in Tries, Store(a, t), fetched'[a] # fetched[a]
            PROVE  /\ task[a][t].at = "store" /\ task'[a][t].at = "over"
                   /\ fetched'[a] = fetched[a] + task[a][t].docs
                   /\ try' = try
        <4>1. SetTask(a, t, "over", 0)
          BY <3>1 DEF Store, Raise
        <4>2. task'[a][t] = [at |-> "over", docs |-> 0]
          BY <4>1, SetTaskAt
        <4> QED BY <3>1, <4>2 DEF Store, Raise, TypeOK
      <3>2. \/ fetched' = fetched
            \/ \E t \in Tries : Store(a, t)
        BY <1>4 DEF Work, Start, TriesExhausted, Execute, CrawlReturns, CrawlRaises,
           StoreFails, Raise, MarkFailed, MarkFails, Finish, Interrupt, Shutdown, Timeout,
           Crash
      <3> QED BY <3>1, <3>2
    <2> QED BY <2>3, <2>4, <2>5
  <1>5. ASSUME NEW a \in Audits, DeleteAudit(a)
        PROVE  UNCHANGED <<try, task, fetched, budget>>
    BY <1>5 DEF DeleteAudit, workerVars
  <1>6. CASE NextMonth \/ UNCHANGED vars
    BY <1>2, <1>6 DEF NextMonth, vars, workerVars
  <1> QED BY <1>1, <1>2, <1>3, <1>4, <1>5, <1>6 DEF Next

LEMMA InitPaid == Init => PaidBySpent
  <1> SUFFICES ASSUME Init PROVE PaidBySpent
    OBVIOUS
  <1>1. TypeOK
    BY InitType
  <1>2. ASSUME NEW a \in Audits PROVE fetched[a] <= Cardinality(Spent(a)) * budget[a]
    <2>1. Cardinality(Spent(a)) \in Nat /\ fetched[a] = 0 /\ budget[a] = 0
      BY <1>1, SpentFinite DEF Init
    <2> QED BY <2>1
  <1> QED BY <1>2 DEF Init, PaidBySpent

(* An audit is never billed more pages than its budget for each execution    *)
(* arq has started, though cancelled executions store their reports next to *)
(* the ones that replaced them, under every fault of worker and database.    *)
THEOREM BilledOncePerTry == Spec => []BilledWithinGrants
  <1>2. TypeOK /\ PaidBySpent => BilledWithinGrants
    <2> SUFFICES ASSUME TypeOK, PaidBySpent, NEW a \in Audits
                 PROVE  fetched[a] <= try[a] * budget[a]
      BY DEF BilledWithinGrants
    <2>1. budget[a] \in Nat /\ try[a] \in Nat /\ fetched[a] \in Nat
      BY PlanAssumption, QueueAssumption DEF TypeOK
    <2>2. Cardinality(Spent(a)) * budget[a] <= try[a] * budget[a]
      BY <2>1, SpentFinite, TimesMonotone
    <2>3. Cardinality(Spent(a)) * budget[a] \in Nat /\ try[a] * budget[a] \in Nat
      BY <2>1, SpentFinite
    <2> QED BY <2>1, <2>2, <2>3 DEF PaidBySpent
  <1>3. TypeOK /\ Delivered /\ PaidBySpent /\ [Next]_vars
          => (TypeOK /\ Delivered /\ PaidBySpent)'
    BY NextType, NextDelivered, NextPaid
  <1> QED BY <1>2, <1>3, InitType, InitDelivered, InitPaid, PTL DEF Spec

-----------------------------------------------------------------------------
(* A counted audit is in somebody's hands.                                 *)

LEMMA WorkHands ==
  ASSUME TypeOK, TypeOK', OnlyRestarts, Delivered, InGoodHands, NEW a \in Audits, Work(a)
  PROVE  /\ faults' >= faults
         /\ a \in Running' => \/ job'[a] \in {"queued", "inprogress"}
                              \/ \E h \in Handlers : pc[h] = "committed" /\ mine[h] = a
         /\ job'[a] = "queued" => try'[a] <= faults'
         /\ job'[a] = "inprogress" =>
                try'[a] <= faults' + 1 /\ (task'[a][try'[a]].at = "over" => a \notin Running')
  <1> DEFINE Good == /\ a \in Running => \/ job[a] \in {"queued", "inprogress"}
                                         \/ \E h \in Handlers : pc[h] = "committed" /\ mine[h] = a
                     /\ job[a] = "queued" => try[a] <= faults
                     /\ job[a] = "inprogress" =>
                            try[a] <= faults + 1
                            /\ (task[a][try[a]].at = "over" => a \notin Running)
  <1>0. /\ Good /\ UNCHANGED <<pc, mine>>
        /\ faults \in Nat /\ faults <= MaxFaults /\ MaxFaults < MaxTries
        /\ MaxTries \in Nat /\ MaxFaults \in Nat /\ try[a] \in Nat
    BY WorkElsewhere, BoundsAssumption, QueueAssumption DEF TypeOK, OnlyRestarts, InGoodHands
  <1> SUFFICES faults' >= faults /\ Good'
    BY <1>0
  <1>1. CASE Start(a)
    <2>1. /\ try[a] + 1 \in Tries /\ try'[a] = try[a] + 1 /\ faults' = faults
          /\ try[a] <= faults /\ job'[a] \in {"inprogress", "over"}
      BY <1>0, <1>1 DEF Start, TypeOK, Tries
    <2>2. CASE Exists(a)
      <3>1. SetTask(a, try[a] + 1, "crawl", 0) /\ job'[a] = "inprogress"
        BY <1>1, <2>2 DEF Start, TypeOK
      <3>2. task'[a][try[a] + 1] = [at |-> "crawl", docs |-> 0]
        BY <2>1, <3>1, SetTaskAt
      <3> QED BY <1>0, <2>1, <3>1, <3>2
    <2>3. CASE ~Exists(a)
      <3>1. job'[a] = "over" /\ status' = status /\ a \notin Running
        BY <1>1, <2>3 DEF Start, TypeOK, Exists, Running
      <3> QED BY <1>0, <2>1, <3>1 DEF Running
    <2> QED BY <2>2, <2>3
  <1>2. CASE TriesExhausted(a)
    BY <1>0, <1>2 DEF TriesExhausted
  <1>3. CASE Finish(a)
    <2>1. a \notin Running /\ status' = status /\ job'[a] = "over" /\ faults' = faults
      BY <1>0, <1>3 DEF Finish, TypeOK
    <2> QED BY <1>0, <2>1 DEF Running
  <1>4. ASSUME NEW t \in Tries, NEW docs, CrawlReturns(a, t, docs) \/ CrawlRaises(a, t)
        PROVE  faults' = faults /\ Good'
    <2>1. /\ UNCHANGED <<status, job, try, faults>> /\ try[a] = t
          /\ \E at \in {"store", "fail"} : \E d : SetTask(a, t, at, d)
      BY <1>4 DEF CrawlReturns, CrawlRaises, Live
    <2>2. PICK at, d : at \in {"store", "fail"} /\ SetTask(a, t, at, d)
      BY <2>1
    <2>3. task'[a][t] = [at |-> at, docs |-> d]
      BY <2>2, SetTaskAt
    <2> QED BY <1>0, <2>1, <2>2, <2>3 DEF Running
  <1>5. ASSUME NEW t \in Tries, status'[a] \notin {"pending", "running"},
               UNCHANGED <<job, try>>, faults' >= faults
        PROVE  Good'
    <2>1. a \notin Running' /\ faults' \in Nat
      BY <1>5, BoundsAssumption DEF Running, TypeOK
    <2> QED BY <1>0, <1>5, <2>1
  <1>6. ASSUME NEW t \in Tries, Raise(a, t), UNCHANGED <<job, try>>, faults' >= faults
        PROVE  Good'
    <2>1. /\ status' = status /\ faults' \in Nat
          /\ SetTask(a, t, IF Live(a, t) THEN "fail" ELSE "over", 0)
      BY <1>6, BoundsAssumption DEF Raise, TypeOK
    <2>2. /\ task'[a][t] = [at |-> IF Live(a, t) THEN "fail" ELSE "over", docs |-> 0]
          /\ \A s \in Tries : s # t => task'[a][s] = task[a][s]
      BY <2>1, SetTaskAt
    <2>3. job[a] = "inprogress" => try[a] \in Tries
      BY <1>0 DEF TypeOK, Tries
    <2>4. job[a] = "inprogress" /\ task'[a][try[a]].at = "over" => a \notin Running
      BY <1>0, <2>2, <2>3 DEF Live
    <2> QED BY <1>0, <1>6, <2>1, <2>4 DEF Running
  <1>7. ASSUME NEW t \in Tries, Store(a, t)
        PROVE  faults' = faults /\ Good'
    <2>1. UNCHANGED <<job, try, faults>>
      BY <1>7 DEF Store
    <2>2. faults' >= faults
      BY <1>0, <2>1
    <2>3. \/ status'[a] = "complete"
          \/ Raise(a, t)
      BY <1>7 DEF Store, TypeOK
    <2>4. CASE status'[a] = "complete"
      BY <1>5, <2>1, <2>2, <2>4
    <2> QED BY <1>6, <2>1, <2>2, <2>3, <2>4
  <1>8. ASSUME NEW t \in Tries, StoreFails(a, t)
        PROVE  faults' >= faults /\ Good'
    <2>1. Raise(a, t) /\ UNCHANGED <<job, try>> /\ faults' >= faults
      BY <1>0, <1>8 DEF StoreFails, Fault
    <2> QED BY <1>6, <2>1
  <1>9. ASSUME NEW t \in Tries, MarkFailed(a, t)
        PROVE  faults' = faults /\ Good'
    <2>1. /\ UNCHANGED <<job, try, faults>>
          /\ status'[a] \notin {"pending", "running"}
      BY <1>9 DEF MarkFailed, Exists, TypeOK
    <2>2. faults' >= faults
      BY <1>0, <2>1
    <2> QED BY <1>5, <2>1, <2>2
  <1>10. ASSUME NEW t \in Tries PROVE ~MarkFails(a, t)
    BY DEF MarkFails, Fault, OnlyRestarts
  <1>11. CASE Interrupt(a)
    <2>1. /\ job[a] = "inprogress" /\ job'[a] = "queued" /\ faults' = faults + 1
          /\ UNCHANGED <<status, try>>
      BY <1>11 DEF Interrupt, Shutdown, Timeout, Crash, Fault, OnlyRestarts, TypeOK
    <2> QED BY <1>0, <2>1 DEF Running
  <1> HIDE DEF Good
  <1>12. faults' = faults => faults' >= faults
    BY <1>0
  <1>13. CASE \E t \in Tries : Execute(a, t)
    BY <1>4, <1>7, <1>9, <1>12, <1>13 DEF Execute
  <1> QED BY <1>1, <1>2, <1>3, <1>8, <1>10, <1>11, <1>13 DEF Work

LEMMA NextHands ==
  ASSUME TypeOK, TypeOK', OnlyRestarts, Delivered, InGoodHands, [Next]_vars
  PROVE  InGoodHands'
  <1> DEFINE Good(a) ==
        /\ a \in Running => \/ job[a] \in {"queued", "inprogress"}
                            \/ \E h \in Handlers : pc[h] = "committed" /\ mine[h] = a
        /\ job[a] = "queued" => try[a] <= faults
        /\ job[a] = "inprogress" =>
               try[a] <= faults + 1 /\ (task[a][try[a]].at = "over" => a \notin Running)
  <1>0. faults \in Nat /\ faults' \in Nat /\ \A a \in Audits : try[a] \in Nat
    BY BoundsAssumption, QueueAssumption DEF TypeOK
  \* An audit nobody touches stays in good hands while its handler keeps it.
  <1>a. ASSUME NEW a \in Audits, faults' >= faults,
               job'[a] = job[a], try'[a] = try[a], task'[a] = task[a],
               a \in Running' => a \in Running,
               \A h \in Handlers : pc[h] = "committed" /\ mine[h] = a =>
                                   pc'[h] = "committed" /\ mine'[h] = a
        PROVE  Good(a)'
    <2>1. Good(a)
      BY DEF InGoodHands
    <2> QED BY <1>0, <1>a, <2>1
  <1>1. ASSUME NEW h \in Handlers, Commit(h)
        PROVE  InGoodHands'
    <2>1. PICK a \in Audits : /\ pc[h] = "allowed" /\ status[a] = "none"
                              /\ status' = [status EXCEPT ![a] = "pending"]
                              /\ mine' = [mine EXCEPT ![h] = a]
                              /\ pc' = [pc EXCEPT ![h] = "committed"]
                              /\ UNCHANGED <<job, try, task, faults>>
      BY <1>1 DEF Commit, Forget, workerVars
    <2>2. /\ pc'[h] = "committed" /\ mine'[h] = a
          /\ \A g \in Handlers : g # h => pc'[g] = pc[g] /\ mine'[g] = mine[g]
          /\ \A b \in Audits : b # a => status'[b] = status[b]
          /\ job'[a] = "none"
      BY <2>1 DEF TypeOK, Delivered
    <2>3. Good(a)'
      BY <2>2
    <2>4. ASSUME NEW b \in Audits, b # a PROVE Good(b)'
      BY <1>0, <1>a, <2>1, <2>2, <2>4 DEF Running
    <2> QED BY <2>3, <2>4 DEF InGoodHands
  <1>2. ASSUME NEW h \in Handlers, Enqueue(h)
        PROVE  InGoodHands'
    <2>1. PICK a \in Audits : a = mine[h]
      BY <1>2 DEF Enqueue, Delivered
    <2>2. /\ job[a] = "none"
          /\ \A g \in Handlers : g # h => pc'[g] = pc[g] /\ mine'[g] = mine[g]
          /\ \A b \in Audits : b # a => job'[b] = job[b]
          /\ job'[a] = "queued"
          /\ UNCHANGED <<status, try, task, faults>>
      BY <1>2, <2>1 DEF Enqueue, TypeOK, workerVars, Delivered
    <2>3. Good(a)'
      <3>1. try[a] = 0
        BY <2>2 DEF Delivered
      <3> QED BY <1>0, <2>2, <3>1
    <2>4. ASSUME NEW b \in Audits, b # a PROVE Good(b)'
      BY <1>0, <1>a, <2>1, <2>2, <2>4 DEF Running
    <2> QED BY <2>3, <2>4 DEF InGoodHands
  <1>3. ASSUME NEW h \in Handlers, Admit(h), ~Commit(h), ~Enqueue(h)
        PROVE  InGoodHands'
    <2>1. /\ UNCHANGED <<status, job, try, task, faults>>
          /\ \A g \in Handlers : pc[g] = "committed" => pc'[g] = "committed" /\ mine'[g] = mine[g]
      BY <1>3 DEF Admit, OpenSite, ReadUsage, CountRunning, Abandon, EnqueueFails,
         Forget, Fault, OnlyRestarts, workerVars, TypeOK
    <2>2. ASSUME NEW b \in Audits PROVE Good(b)'
      BY <1>0, <1>a, <2>1 DEF Running
    <2> QED BY <2>2 DEF InGoodHands
  <1>4. ASSUME NEW a \in Audits, Work(a)
        PROVE  InGoodHands'
    <2>1. UNCHANGED <<pc, mine>> /\ faults' >= faults
      BY <1>4, WorkElsewhere, WorkHands
    <2>2. Good(a)'
      BY <1>4, <2>1, WorkHands
    <2>3. ASSUME NEW b \in Audits, b # a PROVE Good(b)'
      BY <1>4, <1>a, <2>1, <2>3, WorkElsewhere DEF Running
    <2> QED BY <2>2, <2>3 DEF InGoodHands
  <1>5. ASSUME NEW a \in Audits, DeleteAudit(a)
        PROVE  InGoodHands'
    <2>1. /\ UNCHANGED <<pc, mine, job, try, task, faults>> /\ Running' \subseteq Running
      BY <1>5 DEF DeleteAudit, admissionVars, workerVars, Running, TypeOK
    <2>2. ASSUME NEW b \in Audits PROVE Good(b)'
      BY <1>0, <1>a, <2>1
    <2> QED BY <2>2 DEF InGoodHands
  <1>6. CASE NextMonth \/ UNCHANGED vars
    BY <1>6 DEF NextMonth, vars, admissionVars, workerVars, InGoodHands, Running
  <1> QED BY <1>1, <1>2, <1>3, <1>4, <1>5, <1>6 DEF Next

(* What count_running_audits counts is queued or in flight, as its docstring *)
(* says, while the only faults are failed stores and restarts of a worker,  *)
(* fewer of them than arq has tries, whatever requests and deletions come.  *)
THEOREM CountedInHand ==
  ASSUME OnlyRestarts
  PROVE  Spec => []CountedAreQueuedOrInFlight
  <1>1. Init => InGoodHands
    BY DEF Init, InGoodHands, Running
  <1>2. InGoodHands => CountedAreQueuedOrInFlight
    BY DEF InGoodHands, CountedAreQueuedOrInFlight, InHand, Running
  <1>3. TypeOK /\ Delivered /\ InGoodHands /\ [Next]_vars
          => (TypeOK /\ Delivered /\ InGoodHands)'
    BY NextType, NextDelivered, NextHands
  <1> QED BY <1>1, <1>2, <1>3, InitType, InitDelivered, PTL DEF Spec

-----------------------------------------------------------------------------
(* The pages of a month.                                                 *)

\* Sets of executions are finite.
LEMMA BillersFinite ==
  ASSUME NEW S, S \subseteq Audits \X Tries
  PROVE  IsFiniteSet(S) /\ Cardinality(S) \in Nat
  <1>1. IsFiniteSet(Audits) /\ IsFiniteSet(Tries)
    BY BoundsAssumption, QueueAssumption, FS_Interval DEF Audits, Tries
  <1>2. IsFiniteSet(Audits \X Tries)
    BY <1>1, FS_Product
  <1> QED BY <1>2, FS_Subset, FS_CardinalityType

\* An audit nobody touches, or has its job made: nothing changes in who may bill it.
LEMMA BillersSame ==
  ASSUME NEW b \in Audits,
         status'[b] = status[b], task'[b] = task[b], try'[b] = try[b],
         job'[b] = "queued" \/ (\E h \in Handlers : pc'[h] = "committed" /\ mine'[h] = b)
           <=> job[b] = "queued" \/ (\E h \in Handlers : pc[h] = "committed" /\ mine[h] = b)
  PROVE  /\ \A t \in Tries : <<b, t>> \in Billers' <=> <<b, t>> \in Billers
         /\ b \in Busy' <=> b \in Busy
  <1>1. \A t \in Tries : MayBill(b, t)' <=> MayBill(b, t)
    BY DEF MayBill
  <1> QED BY <1>1 DEF Billers, Busy, Running, Exists

\* No new execution may bill, and where a counted audit is lost so is an execution, or
\* there was a fault.
Fewer(a) ==
  /\ Billers' \subseteq Billers
  /\ faults' \in {faults, faults + 1}
  /\ \/ Busy \subseteq Busy'
     \/ Busy \subseteq Busy' \cup {a} /\ (faults' = faults + 1 \/ Billers' # Billers)

\* A fault, and one more execution may bill.
Again ==
  /\ \E u : Billers' \subseteq Billers \cup {u}
  /\ Busy \subseteq Busy'
  /\ faults' = faults + 1

LEMMA WorkBillers ==
  ASSUME TypeOK, TypeOK', Delivered, NEW a \in Audits, Work(a)
  PROVE  Fewer(a) \/ Again
  <1> DEFINE May(t) == <<a, t>> \in Billers
  <1>0. /\ UNCHANGED <<pc, mine>>
        /\ \A b \in Audits : b # a =>
              /\ \A t \in Tries : <<b, t>> \in Billers' <=> <<b, t>> \in Billers
              /\ b \in Busy' <=> b \in Busy
    BY WorkElsewhere, BillersSame
  <1>a. Busy \subseteq Busy' \cup {a} /\ (a \in Busy' \/ a \notin Busy => Busy \subseteq Busy')
    BY <1>0 DEF Busy, Running
  <1>b. \A t \in Tries :
           /\ May(t) <=> Exists(a) /\ MayBill(a, t)
           /\ May(t)' <=> Exists(a)' /\ MayBill(a, t)'
    BY DEF Billers
  <1>c. ASSUME NEW S, \A t \in Tries : May(t)' => May(t) \/ t \in S
        PROVE  Billers' \subseteq Billers \cup {<<a, t>> : t \in S}
    BY <1>0, <1>c DEF Billers
  <1>d. ASSUME \A t \in Tries : May(t)' => May(t)
        PROVE  Billers' \subseteq Billers
    BY <1>0, <1>d DEF Billers
  <1>e. try[a] \in Nat /\ faults \in Nat
    BY QueueAssumption, BoundsAssumption DEF TypeOK
  <1> HIDE DEF May
  <1>1. CASE Start(a)
    <2>1. /\ try[a] + 1 \in Tries /\ try'[a] = try[a] + 1 /\ faults' = faults
          /\ job[a] = "queued"
      BY <1>1, <1>e, QueueAssumption DEF Start, TypeOK, Tries
    <2>b. job'[a] \in {"inprogress", "over"}
      BY <1>1 DEF Start, TypeOK
    <2>a. ~ \E h \in Handlers : pc[h] = "committed" /\ mine[h] = a
      BY <2>1 DEF Delivered
    <2>2. CASE Exists(a)
      <3>1. SetTask(a, try[a] + 1, "crawl", 0) /\ status'[a] = "running"
        BY <1>1, <2>2 DEF Start, TypeOK
      <3>2. /\ task'[a][try[a] + 1] = [at |-> "crawl", docs |-> 0]
            /\ \A t \in Tries : t # try[a] + 1 => task'[a][t] = task[a][t]
        BY <2>1, <3>1, SetTaskAt
      <3>3. \A t \in Tries : MayBill(a, t)' => MayBill(a, t)
        BY <1>0, <2>1, <2>a, <2>b, <3>2 DEF MayBill
      <3>4. a \in Busy'
        BY <2>1, <3>1, <3>2 DEF Busy, Running, MayBill
      <3> QED BY <1>a, <1>b, <1>d, <2>1, <2>2, <3>3, <3>4 DEF Fewer
    <2>3. CASE ~Exists(a)
      <3>1. status' = status /\ ~Exists(a)' /\ a \notin Busy
        BY <1>1, <2>3 DEF Start, Exists, Busy, Running
      <3> QED BY <1>a, <1>b, <1>d, <2>1, <3>1 DEF Fewer
    <2> QED BY <2>2, <2>3
  <1>2. CASE TriesExhausted(a) \/ Finish(a)
    <2>1. /\ UNCHANGED <<status, try, task, faults>> /\ job'[a] = "over"
          /\ job[a] = "queued" => try[a] + 1 \notin Tries
      BY <1>2, <1>e, QueueAssumption DEF TriesExhausted, Finish, TypeOK, Tries
    <2>2. \A t \in Tries : MayBill(a, t)' <=> MayBill(a, t)
      BY <1>0, <2>1 DEF MayBill
    <2>3. a \in Busy' <=> a \in Busy
      BY <2>1, <2>2 DEF Busy, Running
    <2> QED BY <1>a, <1>b, <1>d, <2>1, <2>2, <2>3 DEF Fewer, Exists
  \* An execution moves on, or ends: then a counted audit may be lost with it.
  <1>3. ASSUME NEW t \in Tries, task[a][t].at \in {"crawl", "store", "fail"},
               UNCHANGED <<job, try>>, faults' \in {faults, faults + 1},
               \A s \in Tries : s # t => task'[a][s] = task[a][s],
               status'[a] \in {"none", "deleted"} <=> status[a] \in {"none", "deleted"},
               \/ status' = status /\ task'[a][t].at \in {"store", "fail"}
               \/ task'[a][t].at = "over"
        PROVE  Fewer(a)
    <2>0. /\ MayBill(a, t)
          /\ \A s \in Tries : s # t => (MayBill(a, s)' <=> MayBill(a, s))
          /\ Exists(a)' <=> Exists(a)
      BY <1>0, <1>3 DEF MayBill, Exists
    <2>1. Billers' \subseteq Billers
      BY <1>b, <1>d, <2>0
    <2>2. CASE status' = status /\ task'[a][t].at \in {"store", "fail"}
      <3>1. MayBill(a, t)'
        BY <2>2 DEF MayBill
      <3>2. a \in Busy => a \in Busy'
        BY <2>2, <3>1 DEF Busy, Running
      <3> QED BY <1>3, <1>a, <2>1, <3>2 DEF Fewer
    <2>3. CASE task'[a][t].at = "over"
      <3>1. ~MayBill(a, t)'
        <4>1. MayBill(a, t) /\ job' = job /\ try' = try
          BY <1>3, <2>0
        <4>2. t <= try[a]
          <5>1. ~(t > try[a])
            BY <1>3 DEF Delivered
          <5> QED BY <1>e, <5>1 DEF Tries
        <4> QED BY <1>3, <1>e, <2>3, <4>2 DEF MayBill, Tries
      <3>2. CASE Exists(a)
        <4>1. Billers' # Billers
          BY <1>b, <2>0, <3>1, <3>2 DEF May
        <4> QED BY <1>3, <1>a, <2>1, <4>1 DEF Fewer
      <3>3. CASE ~Exists(a)
        <4>1. a \notin Busy
          BY <3>3 DEF Busy, Running, Exists
        <4> QED BY <1>3, <1>a, <2>1, <4>1 DEF Fewer
      <3> QED BY <3>2, <3>3
    <2> QED BY <1>3, <2>2, <2>3
  <1>4. ASSUME NEW t \in Tries, Execute(a, t) \/ StoreFails(a, t) \/ MarkFails(a, t)
        PROVE  Fewer(a)
    <2>1. /\ task[a][t].at \in {"crawl", "store", "fail"}
          /\ UNCHANGED <<job, try>> /\ faults' \in {faults, faults + 1}
          /\ status'[a] \in {"none", "deleted"} <=> status[a] \in {"none", "deleted"}
      BY <1>4 DEF Execute, CrawlReturns, CrawlRaises, Store, StoreFails, MarkFailed,
         MarkFails, Raise, Fault, Exists, TypeOK
    <2>2. \E at \in {"store", "fail", "over"} : \E docs :
             SetTask(a, t, at, docs) /\ (at = "over" \/ status' = status)
      BY <1>4 DEF Execute, CrawlReturns, CrawlRaises, Store, StoreFails, MarkFailed,
         MarkFails, Raise
    <2>3. PICK at, docs : /\ at \in {"store", "fail", "over"}
                          /\ SetTask(a, t, at, docs) /\ (at = "over" \/ status' = status)
      BY <2>2
    <2>4. /\ task'[a][t] = [at |-> at, docs |-> docs]
          /\ \A s \in Tries : s # t => task'[a][s] = task[a][s]
      BY <2>3, SetTaskAt
    <2> QED BY <1>3, <2>1, <2>3, <2>4
  <1>5. CASE Interrupt(a)
    <2>1. /\ job[a] = "inprogress" /\ try' = try /\ status' = status /\ faults' = faults + 1
          /\ Cancel(a) \/ SetTask(a, try[a], "over", 0)
      BY <1>5 DEF Interrupt, Shutdown, Timeout, Crash, Fault
    <2>2. try[a] \in Tries
      BY <2>1, QueueAssumption DEF TypeOK, Tries
    <2>3. \A s \in Tries : task'[a][s] = task[a][s] \/ task'[a][s].at = "over"
      <3>1. ASSUME SetTask(a, try[a], "over", 0)
            PROVE  \A s \in Tries : task'[a][s] = task[a][s] \/ task'[a][s].at = "over"
        <4>1. /\ task'[a][try[a]] = [at |-> "over", docs |-> 0]
              /\ \A s \in Tries : s # try[a] => task'[a][s] = task[a][s]
          BY <2>2, <3>1, SetTaskAt
        <4> QED BY <4>1
      <3>2. ASSUME Cancel(a)
            PROVE  \A s \in Tries : task'[a][s] = task[a][s] \/ task'[a][s].at = "over"
        <4>1. \A s \in Tries : \/ task'[a][s] = task[a][s]
                               \/ s = try[a] /\ task'[a][s] = [at |-> "over", docs |-> 0]
          BY <2>1, <3>2, CancelAt
        <4> QED BY <4>1
      <3> QED BY <2>1, <3>1, <3>2
    <2>4. \A s \in Tries : MayBill(a, s)' =>
             MayBill(a, s) \/ (s = try[a] + 1 /\ MayBill(a, try[a] + 1)')
      BY <1>0, <2>1, <2>3 DEF MayBill
    <2>5. Exists(a)' <=> Exists(a)
      BY <2>1 DEF Exists
    <2>6. CASE try[a] + 1 \in Tries /\ MayBill(a, try[a] + 1)'
      <3>1. Billers' \subseteq Billers \cup {<<a, t>> : t \in {try[a] + 1}}
        BY <1>b, <1>c, <2>4, <2>5
      <3>2. {<<a, t>> : t \in {try[a] + 1}} = {<<a, try[a] + 1>>}
        OBVIOUS
      <3>3. a \in Busy => a \in Busy'
        BY <2>1, <2>6 DEF Busy, Running
      <3> QED BY <1>a, <2>1, <3>1, <3>2, <3>3 DEF Again
    <2>7. CASE ~(try[a] + 1 \in Tries /\ MayBill(a, try[a] + 1)')
      <3>1. Billers' \subseteq Billers
        BY <1>b, <1>d, <2>4, <2>5, <2>7
      <3> QED BY <1>a, <2>1, <3>1 DEF Fewer
    <2> QED BY <2>6, <2>7
  <1> QED BY <1>1, <1>2, <1>4, <1>5 DEF Work

LEMMA DeleteBillers ==
  ASSUME TypeOK, NEW a \in Audits, DeleteAudit(a)
  PROVE  Fewer(a)
  <1>1. /\ UNCHANGED <<pc, mine, job, try, task>> /\ faults' = faults
        /\ status'[a] = "deleted" /\ Exists(a)
        /\ \A b \in Audits : b # a => status'[b] = status[b]
    BY DEF DeleteAudit, admissionVars, workerVars, TypeOK
  <1>2. /\ \A b \in Audits : b # a =>
              /\ \A t \in Tries : <<b, t>> \in Billers' <=> <<b, t>> \in Billers
              /\ b \in Busy' <=> b \in Busy
        /\ \A t \in Tries : <<a, t>> \notin Billers'
    BY <1>1, BillersSame DEF Billers, Exists
  <1>3. Billers' \subseteq Billers
    BY <1>2 DEF Billers
  <1>4. Busy \subseteq Busy' \cup {a}
    BY <1>2 DEF Busy, Running
  <1>5. ASSUME a \in Busy PROVE Billers' # Billers
    <2>1. PICK t \in Tries : <<a, t>> \in Billers
      BY <1>1, <1>5 DEF Busy, Billers
    <2> QED BY <1>2, <2>1
  <1> QED BY <1>1, <1>3, <1>4, <1>5 DEF Fewer

LEMMA AdmitBillers ==
  ASSUME TypeOK, Delivered, NEW h \in Handlers, Admit(h), ~Commit(h)
  PROVE  \E a : Fewer(a)
  <1>1. CASE Enqueue(h)
    <2>1. PICK a \in Audits : a = mine[h]
      BY <1>1 DEF Enqueue, Delivered
    <2>2. /\ pc[h] = "committed" /\ pc'[h] = "idle"
          /\ \A g \in Handlers : g # h => pc'[g] = pc[g] /\ mine'[g] = mine[g]
          /\ \A b \in Audits : b # a => job'[b] = job[b]
          /\ job'[a] = "queued"
          /\ UNCHANGED <<status, try, task, faults>>
      BY <1>1, <2>1 DEF Enqueue, TypeOK, workerVars
    <2>3. ASSUME NEW b \in Audits
          PROVE  /\ \A t \in Tries : <<b, t>> \in Billers' <=> <<b, t>> \in Billers
                 /\ b \in Busy' <=> b \in Busy
      <3>1. job'[b] = "queued" \/ (\E g \in Handlers : pc'[g] = "committed" /\ mine'[g] = b)
            <=> job[b] = "queued" \/ (\E g \in Handlers : pc[g] = "committed" /\ mine[g] = b)
        BY <2>1, <2>2
      <3> QED BY <2>2, <3>1, BillersSame
    <2>4. Billers' \subseteq Billers /\ Busy \subseteq Busy'
      BY <2>3 DEF Billers, Busy, Running
    <2> QED BY <2>2, <2>4 DEF Fewer
  <1>2. CASE EnqueueFails(h)
    <2>1. PICK a \in Audits : a = mine[h]
      BY <1>2 DEF EnqueueFails, Delivered
    <2>2. /\ pc'[h] = "idle"
          /\ \A g \in Handlers : g # h => pc'[g] = pc[g] /\ mine'[g] = mine[g]
          /\ faults' = faults + 1
          /\ UNCHANGED <<status, job, try, task>>
      BY <1>2, <2>1 DEF EnqueueFails, Fault, TypeOK, workerVars
    <2>3. ASSUME NEW b \in Audits, b # a
          PROVE  /\ \A t \in Tries : <<b, t>> \in Billers' <=> <<b, t>> \in Billers
                 /\ b \in Busy' <=> b \in Busy
      <3>1. job'[b] = "queued" \/ (\E g \in Handlers : pc'[g] = "committed" /\ mine'[g] = b)
            <=> job[b] = "queued" \/ (\E g \in Handlers : pc[g] = "committed" /\ mine[g] = b)
        BY <2>1, <2>2, <2>3
      <3> QED BY <2>2, <3>1, BillersSame
    <2>4. \A t \in Tries : <<a, t>> \in Billers' => <<a, t>> \in Billers
      <3>1. \A t \in Tries : MayBill(a, t)' => MayBill(a, t)
        BY <2>2 DEF MayBill
      <3> QED BY <2>2, <3>1 DEF Billers, Exists
    <2>5. Billers' \subseteq Billers /\ Busy \subseteq Busy' \cup {a}
      BY <2>3, <2>4 DEF Billers, Busy, Running
    <2> QED BY <2>2, <2>5 DEF Fewer
  <1>3. ASSUME ~Enqueue(h), ~EnqueueFails(h)
        PROVE  \E a : Fewer(a)
    <2>1. /\ UNCHANGED <<status, job, try, task, faults>>
          /\ \A g \in Handlers : (pc'[g] = "committed" <=> pc[g] = "committed")
                                 /\ (pc[g] = "committed" => mine'[g] = mine[g])
      BY <1>3 DEF Admit, OpenSite, ReadUsage, CountRunning, Abandon, Forget, workerVars,
         TypeOK
    <2>2. ASSUME NEW b \in Audits
          PROVE  /\ \A t \in Tries : <<b, t>> \in Billers' <=> <<b, t>> \in Billers
                 /\ b \in Busy' <=> b \in Busy
      <3>1. job'[b] = "queued" \/ (\E g \in Handlers : pc'[g] = "committed" /\ mine'[g] = b)
            <=> job[b] = "queued" \/ (\E g \in Handlers : pc[g] = "committed" /\ mine[g] = b)
        BY <2>1
      <3> QED BY <2>1, <3>1, BillersSame
    <2>3. Billers' \subseteq Billers /\ Busy \subseteq Busy'
      BY <2>2 DEF Billers, Busy, Running
    <2> QED BY <2>1, <2>3 DEF Fewer
  <1> QED BY <1>1, <1>2, <1>3

\* A committed audit may be billed by its first execution.
LEMMA CommitBillers ==
  ASSUME TypeOK, Delivered, NEW h \in Handlers, NEW a \in Audits,
         status[a] = "none", status' = [status EXCEPT ![a] = "pending"],
         mine' = [mine EXCEPT ![h] = a], pc' = [pc EXCEPT ![h] = "committed"],
         pc[h] = "allowed", UNCHANGED <<job, try, task>>
  PROVE  /\ Billers' = Billers \cup {<<a, 1>>}
         /\ Busy' = Busy \cup {a} /\ a \notin Busy
         /\ \A t \in Tries : <<a, t>> \notin Billers
  <1>1. /\ \A b \in Audits : b # a => status'[b] = status[b]
        /\ status'[a] = "pending" /\ pc'[h] = "committed" /\ mine'[h] = a
        /\ \A g \in Handlers : g # h => pc'[g] = pc[g] /\ mine'[g] = mine[g]
    BY DEF TypeOK
  <1>2. /\ try[a] = 0 /\ job[a] = "none" /\ 1 \in Tries
        /\ \A t \in Tries : task[a][t].at = "unborn"
    <2>1. job[a] = "none" /\ try[a] = 0
      BY DEF Delivered
    <2> QED BY <2>1, QueueAssumption DEF Delivered, Tries
  <1>3. ASSUME NEW b \in Audits, b # a
        PROVE  /\ \A t \in Tries : <<b, t>> \in Billers' <=> <<b, t>> \in Billers
               /\ b \in Busy' <=> b \in Busy
    <2>1. job'[b] = "queued" \/ (\E g \in Handlers : pc'[g] = "committed" /\ mine'[g] = b)
          <=> job[b] = "queued" \/ (\E g \in Handlers : pc[g] = "committed" /\ mine[g] = b)
      BY <1>1, <1>3
    <2> QED BY <1>1, <1>3, <2>1, BillersSame
  <1>4. \A t \in Tries : MayBill(a, t)' <=> t = 1
    BY <1>1, <1>2 DEF MayBill, Tries
  <1>5. \A t \in Tries : (<<a, t>> \in Billers' <=> t = 1) /\ <<a, t>> \notin Billers
    BY <1>1, <1>4 DEF Billers, Exists
  <1>6. a \in Busy' /\ a \notin Busy
    BY <1>1, <1>2, <1>4 DEF Busy, Running
  <1> QED BY <1>2, <1>3, <1>5, <1>6 DEF Billers, Busy, Running

\* Only a store bills, and it is then over.
LEMMA StoreBills ==
  ASSUME TypeOK, Delivered, PaidBySpent, NEW a \in Audits, Work(a)
  PROVE  \/ pagesCrawled' = pagesCrawled
         \/ \E t \in Tries : \E docs \in 0..budget[a] :
               /\ <<a, t>> \in Billers /\ Billers' = Billers \ {<<a, t>>}
               /\ faults' = faults
               /\ pagesCrawled' = [pagesCrawled EXCEPT ![month] = @ + docs]
  <1>1. \/ pagesCrawled' = pagesCrawled
        \/ \E t \in Tries : Store(a, t) /\ Exists(a)
    BY DEF Work, Start, TriesExhausted, Execute, CrawlReturns, CrawlRaises, Store, StoreFails,
       Raise, MarkFailed, MarkFails, Finish, Interrupt, Shutdown, Timeout, Crash
  <1>2. ASSUME NEW t \in Tries, Store(a, t), Exists(a)
        PROVE  /\ <<a, t>> \in Billers /\ Billers' = Billers \ {<<a, t>>}
               /\ faults' = faults
               /\ task[a][t].docs \in 0..budget[a]
               /\ pagesCrawled' = [pagesCrawled EXCEPT ![month] = @ + task[a][t].docs]
    <2>1. /\ task[a][t].at = "store" /\ UNCHANGED <<pc, mine, job, try, faults>>
          /\ status' = [status EXCEPT ![a] = "complete"]
          /\ pagesCrawled' = [pagesCrawled EXCEPT ![month] = @ + task[a][t].docs]
          /\ SetTask(a, t, "over", 0)
      BY <1>2 DEF Store, frame, admissionVars
    <2>2. /\ task'[a][t] = [at |-> "over", docs |-> 0]
          /\ \A s \in Tries : s # t => task'[a][s] = task[a][s]
          /\ \A b \in Audits : b # a => task'[b] = task[b]
      BY <2>1, SetTaskAt
    <2>3. /\ status'[a] = "complete" /\ \A b \in Audits : b # a => status'[b] = status[b]
      BY <2>1 DEF TypeOK
    <2>4. \A b \in Audits : b # a =>
             \A s \in Tries : <<b, s>> \in Billers' <=> <<b, s>> \in Billers
      BY <2>1, <2>2, <2>3, BillersSame
    <2>5. ~(t > try[a]) /\ try[a] \in Nat
      BY <2>1, QueueAssumption DEF Delivered, TypeOK
    <2>6. t # try[a] + 1
      BY <2>5 DEF Tries
    <2>7. /\ MayBill(a, t) /\ ~MayBill(a, t)'
          /\ \A s \in Tries : s # t => (MayBill(a, s)' <=> MayBill(a, s))
      BY <2>1, <2>2, <2>6 DEF MayBill
    <2>8. \A s \in Tries : <<a, s>> \in Billers' <=> <<a, s>> \in Billers /\ s # t
      BY <1>2, <2>3, <2>7 DEF Billers, Exists
    <2>9. <<a, t>> \in Billers
      BY <1>2, <2>7 DEF Billers
    <2>10. task[a][t].docs \in 0..budget[a]
      <3>1. task[a][t].docs \in Nat /\ budget[a] \in Nat
        BY PlanAssumption DEF TypeOK
      <3> QED BY <2>1, <3>1 DEF PaidBySpent
    <2> QED BY <2>1, <2>4, <2>8, <2>9, <2>10 DEF Billers
  <1> QED BY <1>1, <1>2

\* A smaller set of executions is counted smaller, and strictly if one is missing.
LEMMA FewerCount ==
  ASSUME NEW S, NEW T, S \subseteq Audits \X Tries, T \subseteq S
  PROVE  /\ Cardinality(S) \in Nat /\ Cardinality(T) \in Nat
         /\ Cardinality(T) <= Cardinality(S)
         /\ T # S => Cardinality(T) <= Cardinality(S) - 1
  <1>1. IsFiniteSet(S) /\ Cardinality(S) \in Nat
    BY BillersFinite
  <1>2. Cardinality(T) \in Nat /\ Cardinality(T) <= Cardinality(S)
    BY <1>1, Monotone
  <1>3. ASSUME T # S PROVE Cardinality(T) <= Cardinality(S) - 1
    <2>1. PICK x \in S : x \notin T
      BY <1>3
    <2>2. /\ IsFiniteSet(S \ {x}) /\ Cardinality(S \ {x}) = Cardinality(S) - 1
      BY <1>1, <2>1, OneLess
    <2>3. Cardinality(T) <= Cardinality(S \ {x})
      BY <2>1, <2>2, Monotone
    <2> QED BY <2>2, <2>3
  <1> QED BY <1>1, <1>2, <1>3

LEMMA NextBillersReserved ==
  ASSUME TypeOK, TypeOK', Delivered, BillersReserved, [Next]_vars
  PROVE  BillersReserved'
  <1> USE PlanAssumption
  <1>0. /\ Billers \subseteq Audits \X Tries /\ Billers' \subseteq Audits \X Tries
        /\ Busy \subseteq Audits /\ Busy' \subseteq Audits
        /\ Cleared \subseteq Handlers /\ Cleared' \subseteq Handlers
        /\ faults \in Nat /\ faults' \in Nat
    BY BoundsAssumption DEF Billers, Busy, Running, Cleared, TypeOK
  <1>a. /\ IsFiniteSet(Billers) /\ Cardinality(Billers) \in Nat /\ Cardinality(Billers') \in Nat
        /\ IsFiniteSet(Busy) /\ Cardinality(Busy) \in Nat
        /\ IsFiniteSet(Busy') /\ Cardinality(Busy') \in Nat
        /\ IsFiniteSet(Cleared) /\ Cardinality(Cleared) \in Nat
        /\ Cardinality(Cleared') \in Nat /\ Cardinality(Cleared') <= Cardinality(Handlers)
        /\ Cardinality(Handlers) \in Nat
    BY <1>0, BillersFinite, AuditsFinite, HandlersFinite
  <1>1. ASSUME NEW a, Fewer(a), Cleared' \subseteq Cleared
        PROVE  BillersReserved'
    <2>1. /\ Cardinality(Billers') <= Cardinality(Billers)
          /\ Billers' # Billers => Cardinality(Billers') <= Cardinality(Billers) - 1
      BY <1>0, <1>1, FewerCount DEF Fewer
    <2>2. Cardinality(Cleared') <= Cardinality(Cleared)
      BY <1>1, <1>a, Monotone
    <2>3. Busy \subseteq Busy' => Cardinality(Busy) <= Cardinality(Busy')
      BY <1>a, Monotone
    <2>4. Busy \subseteq Busy' \cup {a} => Cardinality(Busy) <= Cardinality(Busy') + 1
      BY <1>a, AtMostOneMore
    <2> QED BY <1>1, <1>0, <1>a, <2>1, <2>2, <2>3, <2>4 DEF Fewer, BillersReserved, Overshoot
  <1>2. ASSUME Again, Cleared' = Cleared
        PROVE  BillersReserved'
    <2>1. PICK u : Billers' \subseteq Billers \cup {u}
      BY <1>2 DEF Again
    <2>2. Cardinality(Billers') <= Cardinality(Billers) + 1
      BY <1>a, <2>1, AtMostOneMore
    <2>3. Cardinality(Busy) <= Cardinality(Busy')
      BY <1>2, <1>a, Monotone DEF Again
    <2> QED BY <1>2, <1>0, <1>a, <2>2, <2>3 DEF Again, BillersReserved, Overshoot
  <1>3. ASSUME NEW h \in Handlers, CountRunning(h)
        PROVE  BillersReserved'
    <2>1. /\ UNCHANGED <<status, job, try, task, faults, mine>>
          /\ \A g \in Handlers : pc'[g] = "committed" <=> pc[g] = "committed"
          /\ Cardinality(Running) < MaxConcurrentAudits
      BY <1>3 DEF CountRunning, Within, workerVars, TypeOK
    <2>2. Billers' = Billers /\ Busy' = Busy
      BY <2>1 DEF Billers, Busy, Running, Exists, MayBill
    <2>3. Cardinality(Busy) <= Cardinality(Running) /\ Cardinality(Running) \in Nat
      <3>1. Running \subseteq Audits /\ Busy \subseteq Running
        BY DEF Busy, Running
      <3>2. IsFiniteSet(Running)
        BY <3>1, AuditsFinite
      <3> QED BY <3>1, <3>2, Monotone
    <2> QED BY <1>0, <1>a, <2>1, <2>2, <2>3 DEF BillersReserved, Overshoot
  <1>4. ASSUME NEW h \in Handlers, Commit(h)
        PROVE  BillersReserved'
    <2>1. PICK a \in Audits : /\ status[a] = "none"
                              /\ status' = [status EXCEPT ![a] = "pending"]
                              /\ mine' = [mine EXCEPT ![h] = a]
                              /\ pc' = [pc EXCEPT ![h] = "committed"]
                              /\ pc[h] = "allowed"
                              /\ UNCHANGED <<job, try, task, faults>>
      BY <1>4 DEF Commit, Forget, workerVars
    <2>2. Billers' = Billers \cup {<<a, 1>>} /\ Busy' = Busy \cup {a} /\ a \notin Busy
      BY <2>1, CommitBillers
    <2>3. Cardinality(Billers') <= Cardinality(Billers) + 1
      BY <1>a, <2>2, AtMostOneMore
    <2>4. Cardinality(Busy') = Cardinality(Busy) + 1
      BY <1>a, <2>2, FS_AddElement
    <2>5. h \in Cleared /\ Cleared' = Cleared \ {h}
      BY <2>1 DEF Cleared, TypeOK
    <2>6. Cardinality(Cleared') = Cardinality(Cleared) - 1
      BY <1>a, <2>5, OneLess
    <2> QED BY <1>0, <1>a, <2>1, <2>3, <2>4, <2>6 DEF BillersReserved, Overshoot
  <1>5. ASSUME NEW h \in Handlers, Admit(h), ~Commit(h), ~CountRunning(h)
        PROVE  BillersReserved'
    <2>1. Cleared' \subseteq Cleared
      BY <1>5 DEF Admit, OpenSite, ReadUsage, Abandon, Enqueue, EnqueueFails, Cleared, TypeOK
    <2> QED BY <1>1, <1>5, <2>1, AdmitBillers
  <1>6. ASSUME NEW a \in Audits, Work(a)
        PROVE  BillersReserved'
    <2>1. Cleared' = Cleared
      BY <1>6, WorkElsewhere DEF Cleared
    <2> QED BY <1>1, <1>2, <1>6, <2>1, WorkBillers
  <1>7. ASSUME NEW a \in Audits, DeleteAudit(a)
        PROVE  BillersReserved'
    <2>1. Cleared' = Cleared
      BY <1>7 DEF DeleteAudit, admissionVars, Cleared
    <2> QED BY <1>1, <1>7, <2>1, DeleteBillers
  <1>8. CASE NextMonth \/ UNCHANGED vars
    <2>1. UNCHANGED <<pc, mine, status, job, try, task, faults>>
      BY <1>8 DEF NextMonth, vars, admissionVars, workerVars
    <2>2. Billers' = Billers /\ Busy' = Busy /\ Cleared' = Cleared
      BY <2>1 DEF Billers, Busy, Running, Exists, MayBill, Cleared
    <2> QED BY <2>1, <2>2 DEF BillersReserved, Overshoot
  <1> QED BY <1>3, <1>4, <1>5, <1>6, <1>7, <1>8 DEF Next

LEMMA TimesInt ==
  ASSUME NEW m \in Int, NEW n \in Int, NEW b \in Nat, m <= n
  PROVE  m * b \in Int /\ n * b \in Int /\ m * b <= n * b
  <1>1. PICK d \in Nat : n = m + d
    <2>1. n - m \in Nat /\ n = m + (n - m)
      OBVIOUS
    <2> QED BY <2>1
  <1>2. n * b = m * b + d * b
    BY <1>1
  <1>3. d * b \in Nat /\ m * b \in Int
    BY <1>1
  <1> QED BY <1>2, <1>3

\* What the claim on the pages leaves when it is made with one full budget less.
LEMMA ClaimLess ==
  ASSUME NEW p \in Nat, NEW s \in Nat, NEW n \in Int, NEW b \in Nat, NEW most \in Int,
         NEW G, G \subseteq 0..b, n <= s - 1,
         \/ p + s * b <= most
         \/ \E pages \in G : p + pages + (s - 1) * b <= most
  PROVE  p + n * b <= most
  <1>1. s * b = (s - 1) * b + b /\ (s - 1) * b \in Int
    OBVIOUS
  <1>2. n * b \in Int /\ n * b <= (s - 1) * b
    BY TimesInt
  <1>3. \A pages \in G : pages \in Nat
    OBVIOUS
  <1> QED BY <1>1, <1>2, <1>3

LEMMA ClaimBounds ==
  ASSUME NEW p \in Nat, NEW s \in Nat, NEW b \in Nat, NEW most \in Int,
         NEW G, G \subseteq 0..b, G # {} => s >= 1,
         \/ p + s * b <= most
         \/ \E pages \in G : p + pages + (s - 1) * b <= most
  PROVE  p <= most
  <1>1. CASE p + s * b <= most
    <2>1. s * b \in Nat
      OBVIOUS
    <2> QED BY <1>1, <2>1
  <1>2. CASE \E pages \in G : p + pages + (s - 1) * b <= most
    <2>1. PICK pages \in G : p + pages + (s - 1) * b <= most
      BY <1>2
    <2>2. pages \in Nat /\ s - 1 \in Nat
      BY <2>1
    <2>3. (s - 1) * b \in Nat
      BY <2>2
    <2> QED BY <2>1, <2>2, <2>3
  <1> QED BY <1>1, <1>2

\* The spenders are finitely many, and each was granted at most a full budget.
SpendersBounded ==
  /\ Billers \subseteq Audits \X Tries /\ Checked \subseteq Handlers
  /\ IsFiniteSet(Billers) /\ IsFiniteSet(Checked)
  /\ Cardinality(Billers) \in Nat /\ Cardinality(Checked) \in Nat
  /\ Cardinality(Checked) <= Cardinality(Handlers) /\ Cardinality(Handlers) \in Nat
  /\ Spenders \in Nat
  /\ Grants \subseteq 0..MaxPagesPerAudit
  /\ Grants # {} => Spenders >= 1
  /\ MostPages \in Int
  /\ month \in Months /\ pagesCrawled[month] \in Nat

LEMMA SpendersType == TypeOK => SpendersBounded
  <1> SUFFICES ASSUME TypeOK PROVE SpendersBounded
    OBVIOUS
  <1>1. Billers \subseteq Audits \X Tries /\ Checked \subseteq Handlers
    BY DEF Billers, Checked
  <1>2. /\ IsFiniteSet(Billers) /\ IsFiniteSet(Checked)
        /\ Cardinality(Billers) \in Nat /\ Cardinality(Checked) \in Nat
        /\ Cardinality(Checked) <= Cardinality(Handlers) /\ Cardinality(Handlers) \in Nat
    BY <1>1, BillersFinite, HandlersFinite
  <1>3. Grants \subseteq 0..MaxPagesPerAudit
    BY <1>1 DEF Grants, TypeOK
  <1>4. ASSUME Grants # {} PROVE Spenders >= 1
    <2>1. Billers # {} \/ Checked # {}
      BY <1>4 DEF Grants
    <2>2. Cardinality(Billers) # 0 \/ Cardinality(Checked) # 0
      BY <1>2, <2>1, FS_EmptySet
    <2> QED BY <1>2, <2>2 DEF Spenders
  <1>5. MostPages \in Int
    BY <1>2, PlanAssumption, BoundsAssumption DEF MostPages, TypeOK
  <1> QED BY <1>1, <1>2, <1>3, <1>4, <1>5 DEF Spenders, TypeOK, SpendersBounded

LEMMA SpendersTypeNext == TypeOK' => SpendersBounded'
  BY SpendersType, PTL

\* A fault allows for one full budget more.
LEMMA MostPagesGrows ==
  ASSUME TypeOK, TypeOK'
  PROVE  /\ faults' = faults => MostPages' = MostPages
         /\ faults' = faults + 1 => MostPages' = MostPages + MaxPagesPerAudit
  <1>1. Cardinality(Handlers) \in Nat /\ faults \in Nat
    BY HandlersFinite, BoundsAssumption DEF TypeOK
  <1> DEFINE k == MaxConcurrentAudits + 2 * (Cardinality(Handlers) - 1) + faults
  <1>2. k \in Int /\ (k + 1) * MaxPagesPerAudit = k * MaxPagesPerAudit + MaxPagesPerAudit
    BY <1>1, PlanAssumption
  <1>3. faults' = faults + 1 =>
           MaxConcurrentAudits + 2 * (Cardinality(Handlers) - 1) + faults' = k + 1
    BY <1>1, PlanAssumption
  <1>4. k * MaxPagesPerAudit \in Int
    BY <1>2, PlanAssumption
  <1>5. /\ MostPages = MaxPagesPerMonth + k * MaxPagesPerAudit
        /\ MostPages' = MaxPagesPerMonth
             + (MaxConcurrentAudits + 2 * (Cardinality(Handlers) - 1) + faults') * MaxPagesPerAudit
    BY DEF MostPages
  <1> HIDE DEF k
  <1>6. ASSUME faults' = faults + 1 PROVE MostPages' = MostPages + MaxPagesPerAudit
    <2>1. MostPages' = MaxPagesPerMonth + (k + 1) * MaxPagesPerAudit
      BY <1>3, <1>5, <1>6
    <2> QED BY <1>2, <1>4, <1>5, <2>1, PlanAssumption
  <1> QED BY <1>6 DEF MostPages

\* Inside a month it is the claim that has to be kept.
LEMMA PagesKept ==
  ASSUME TypeOK, TypeOK', PagesReserved, month' = month, faults' \in {faults, faults + 1},
         \A m \in Months : m # month => pagesCrawled'[m] = pagesCrawled[m],
         PagesClaimed'
  PROVE  PagesReserved'
  <1>1. pagesCrawled'[month'] <= MostPages'
    <2>1. /\ pagesCrawled'[month'] \in Nat /\ Spenders' \in Nat /\ MostPages' \in Int
          /\ Grants' \subseteq 0..MaxPagesPerAudit /\ (Grants' # {} => Spenders' >= 1)
      BY SpendersTypeNext DEF SpendersBounded
    <2> QED BY <2>1, ClaimBounds, PlanAssumption DEF PagesClaimed
  <1>2. /\ month \in Months /\ \A m \in Months : m \in Int /\ pagesCrawled[m] \in Nat
        /\ MostPages \in Int /\ MostPages' \in Int /\ MostPages <= MostPages'
    <2>1. MostPages \in Int /\ MostPages' \in Int
      BY SpendersType, SpendersTypeNext DEF SpendersBounded
    <2>2. MostPages <= MostPages'
      BY <2>1, MostPagesGrows, PlanAssumption
    <2>3. month \in Months /\ pagesCrawled \in [Months -> Nat] /\ Months \subseteq Int
      BY BoundsAssumption DEF TypeOK, Months
    <2> QED BY <2>1, <2>2, <2>3
  <1>3. \A m \in Months : pagesCrawled'[m] <= MostPages'
    BY <1>1, <1>2 DEF PagesReserved, PagesOvershoot
  <1> QED BY <1>2, <1>3 DEF PagesReserved, PagesOvershoot

\* Steps that bill nothing and grant nothing.
LEMMA PagesUnbilled ==
  ASSUME TypeOK, TypeOK', PagesReserved,
         UNCHANGED <<month, pagesCrawled>>, Checked' \subseteq Checked,
         \A a \in Audits : \A t \in Tries : <<a, t>> \in Billers => budget'[a] = budget[a],
         \A h \in Checked' : grant'[h] = grant[h],
         \/ Billers' \subseteq Billers /\ faults' \in {faults, faults + 1}
         \/ /\ \E u : Billers' \subseteq Billers \cup {u}
            /\ Checked' = Checked /\ faults' = faults + 1
  PROVE  PagesReserved'
  <1> DEFINE full == MaxPagesPerAudit
             p == pagesCrawled[month]
             s == Spenders
             r == Spenders'
  <1>0. SpendersBounded /\ SpendersBounded'
    BY SpendersType, SpendersTypeNext
  <1>1. /\ full \in Nat /\ p \in Nat /\ s \in Nat /\ r \in Nat
        /\ MostPages \in Int /\ MostPages' \in Int
        /\ Cardinality(Billers) \in Nat /\ Cardinality(Checked) \in Nat
        /\ Cardinality(Billers') \in Nat /\ Cardinality(Checked') \in Nat
        /\ Grants \subseteq 0..full
        /\ s = Cardinality(Billers) + Cardinality(Checked)
        /\ r = Cardinality(Billers') + Cardinality(Checked')
    BY <1>0, PlanAssumption DEF SpendersBounded, Spenders
  <1>2. /\ MostPages' = IF faults' = faults THEN MostPages ELSE MostPages + full
        /\ faults' = faults + 1 => MostPages' = MostPages + full
    BY MostPagesGrows
  <1>3. \/ p + s * full <= MostPages
        \/ \E pages \in Grants : p + pages + (s - 1) * full <= MostPages
    BY DEF PagesReserved, PagesClaimed
  <1>4. Cardinality(Checked') <= Cardinality(Checked)
        /\ (Checked' # Checked => Cardinality(Checked') <= Cardinality(Checked) - 1)
    <2>1. Cardinality(Checked') <= Cardinality(Checked)
      BY <1>0, Monotone DEF SpendersBounded
    <2>2. ASSUME Checked' # Checked PROVE Cardinality(Checked') <= Cardinality(Checked) - 1
      <3>1. PICK x \in Checked : x \notin Checked'
        BY <2>2
      <3>2. IsFiniteSet(Checked \ {x}) /\ Cardinality(Checked \ {x}) = Cardinality(Checked) - 1
        BY <1>0, <3>1, OneLess DEF SpendersBounded
      <3>3. Cardinality(Checked') <= Cardinality(Checked \ {x})
        BY <3>1, <3>2, Monotone
      <3> QED BY <3>2, <3>3
    <2> QED BY <2>1, <2>2
  \* One spender less: what is left has room for a full budget each.
  <1>5. ASSUME r <= s - 1
        PROVE  PagesClaimed'
    <2>0. r \in Int
      BY <1>1
    <2>1. p + r * full <= MostPages
      BY <1>1, <1>3, <1>5, <2>0, ClaimLess
    <2>2. MostPages <= MostPages' /\ r * full \in Int
      BY <1>1, <1>2
    <2>3. pagesCrawled'[month'] + Spenders' * MaxPagesPerAudit <= MostPages'
      BY <1>1, <2>1, <2>2
    <2> QED BY <2>3 DEF PagesClaimed
  \* The same spenders: the claim stands.
  <1>6. ASSUME Billers' = Billers, Checked' = Checked
        PROVE  PagesClaimed'
    <2>1. Grants' = Grants
      BY <1>6 DEF Grants, Billers
    <2>2. r = s /\ MostPages <= MostPages'
      BY <1>1, <1>2, <1>6
    <2>3. s * full \in Int /\ (s - 1) * full \in Int /\ \A pages \in Grants : pages \in Nat
      BY <1>1
    <2>4. \/ p + r * full <= MostPages'
          \/ \E pages \in Grants' : p + pages + (r - 1) * full <= MostPages'
      BY <1>1, <1>3, <2>1, <2>2, <2>3
    <2> QED BY <2>4 DEF PagesClaimed
  <1>7. ASSUME Billers' \subseteq Billers
        PROVE  PagesClaimed'
    <2>1. /\ Cardinality(Billers') <= Cardinality(Billers)
          /\ Billers' # Billers => Cardinality(Billers') <= Cardinality(Billers) - 1
      BY <1>0, <1>7, FewerCount DEF SpendersBounded
    <2>2. r <= s - 1 \/ (Billers' = Billers /\ Checked' = Checked)
      BY <1>1, <1>4, <2>1
    <2> QED BY <1>5, <1>6, <2>2
  <1>8. ASSUME NEW u, Billers' \subseteq Billers \cup {u}, Checked' = Checked, faults' = faults + 1
        PROVE  PagesClaimed'
    <2>1. MostPages' = MostPages + full
      BY <1>2, <1>8
    <2>2. CASE Billers \subseteq Billers'
      <3>1. r <= s + 1
        <4>1. Cardinality(Billers') <= Cardinality(Billers) + 1
          BY <1>0, <1>8, AtMostOneMore DEF SpendersBounded
        <4> QED BY <1>1, <1>8, <4>1
      <3>2. Grants \subseteq Grants'
        BY <1>8, <2>2 DEF Grants, Billers
      <3>3. /\ r * full \in Int /\ r * full <= (s + 1) * full
            /\ (r - 1) * full \in Int /\ (r - 1) * full <= s * full
        BY <1>1, <3>1, TimesInt
      <3>4. /\ (s + 1) * full = s * full + full /\ s * full = (s - 1) * full + full
            /\ s * full \in Int /\ (s - 1) * full \in Int
        BY <1>1
      <3>5. \A pages \in Grants : pages \in Nat
        BY <1>1
      <3>6. \/ p + r * full <= MostPages'
            \/ \E pages \in Grants' : p + pages + (r - 1) * full <= MostPages'
        BY <1>1, <1>3, <2>1, <3>2, <3>3, <3>4, <3>5
      <3> QED BY <3>6 DEF PagesClaimed
    <2>3. ASSUME ~(Billers \subseteq Billers')
          PROVE  PagesClaimed'
      <3>1. PICK x \in Billers : x \notin Billers'
        BY <2>3
      <3>2. IsFiniteSet(Billers \ {x}) /\ Cardinality(Billers \ {x}) = Cardinality(Billers) - 1
        BY <1>0, <3>1, OneLess DEF SpendersBounded
      <3>3. Cardinality(Billers') <= Cardinality(Billers)
        <4>1. Billers' \subseteq (Billers \ {x}) \cup {u}
          BY <1>8, <3>1
        <4>2. Cardinality(Billers') <= Cardinality(Billers \ {x}) + 1
          BY <3>2, <4>1, AtMostOneMore
        <4> QED BY <1>1, <3>2, <4>2
      <3>4. r - 1 <= s - 1 /\ r - 1 \in Int
        BY <1>1, <1>8, <3>3
      <3>5. p + (r - 1) * full <= MostPages
        BY <1>1, <1>3, <3>4, ClaimLess
      <3>6. r * full = (r - 1) * full + full /\ (r - 1) * full \in Int
        BY <1>1
      <3>7. pagesCrawled'[month'] + Spenders' * MaxPagesPerAudit <= MostPages'
        BY <1>1, <2>1, <3>5, <3>6
      <3> QED BY <3>7 DEF PagesClaimed
    <2> QED BY <2>2, <2>3
  <1>9. PagesClaimed'
    BY <1>7, <1>8
  <1> QED BY <1>9, PagesKept

\* A store bills no more than was granted, and is a spender less.
LEMMA PagesBilled ==
  ASSUME TypeOK, TypeOK', PagesReserved, NEW u \in Billers, NEW docs \in 0..budget[u[1]],
         UNCHANGED <<month, pc, grant, budget, faults>>,
         Billers' = Billers \ {u},
         pagesCrawled' = [pagesCrawled EXCEPT ![month] = @ + docs]
  PROVE  PagesReserved'
  <1> DEFINE full == MaxPagesPerAudit
             p == pagesCrawled[month]
             s == Spenders
  <1>0. SpendersBounded /\ SpendersBounded'
    BY SpendersType, SpendersTypeNext
  <1>1. /\ full \in Nat /\ p \in Nat /\ s \in Nat /\ MostPages \in Int
        /\ Grants \subseteq 0..full
        /\ Checked' = Checked /\ MostPages' = MostPages
    BY <1>0, PlanAssumption DEF SpendersBounded, Checked, MostPages
  <1>2. Spenders' = s - 1
    <2>1. Cardinality(Billers') = Cardinality(Billers) - 1
      BY <1>0, OneLess DEF SpendersBounded
    <2> QED BY <1>0, <1>1, <2>1 DEF Spenders, SpendersBounded
  <1>3. budget[u[1]] \in 0..full /\ docs \in Nat /\ docs <= budget[u[1]] /\ docs <= full
    <2>1. u[1] \in Audits
      BY DEF Billers
    <2>2. budget[u[1]] \in 0..full
      BY <2>1 DEF TypeOK
    <2> QED BY <1>1, <2>2
  <1>4. /\ pagesCrawled'[month'] = p + docs
        /\ \A m \in Months : m # month => pagesCrawled'[m] = pagesCrawled[m]
    BY DEF TypeOK
  <1>5. s * full = (s - 1) * full + full /\ (s - 1) * full = (s - 2) * full + full
        /\ s * full \in Int /\ (s - 1) * full \in Int /\ (s - 2) * full \in Int
    BY <1>1
  <1>6. CASE p + s * full <= MostPages
    <2>1. pagesCrawled'[month'] + Spenders' * MaxPagesPerAudit <= MostPages'
      BY <1>1, <1>2, <1>3, <1>4, <1>5, <1>6
    <2>2. PagesClaimed'
      BY <2>1 DEF PagesClaimed
    <2> QED BY <1>4, <2>2, PagesKept
  <1>7. ASSUME NEW pages \in Grants, p + pages + (s - 1) * full <= MostPages
        PROVE  PagesReserved'
    <2>1. pages \in Nat
      BY <1>1
    <2>2. CASE pages \in Grants'
      <3>1. pagesCrawled'[month'] + pages + (Spenders' - 1) * MaxPagesPerAudit <= MostPages'
        <4>1. Spenders' - 1 = s - 2
          BY <1>1, <1>2
        <4>2. (p + docs) + pages + (s - 2) * full <= MostPages
          BY <1>1, <1>3, <1>5, <1>7, <2>1
        <4> QED BY <1>1, <1>4, <4>1, <4>2
      <3>2. PagesClaimed'
        BY <2>2, <3>1 DEF PagesClaimed
      <3> QED BY <1>4, <3>2, PagesKept
    <2>3. CASE pages \notin Grants'
      <3>1. pages = budget[u[1]]
        BY <1>1, <2>3 DEF Grants
      <3>2. (p + docs) + (s - 1) * full <= MostPages
        BY <1>1, <1>3, <1>5, <1>7, <2>1, <3>1
      <3>3. pagesCrawled'[month'] + Spenders' * MaxPagesPerAudit <= MostPages'
        BY <1>1, <1>2, <1>4, <3>2
      <3>4. PagesClaimed'
        BY <3>3 DEF PagesClaimed
      <3> QED BY <1>4, <3>4, PagesKept
    <2> QED BY <2>2, <2>3
  <1> QED BY <1>6, <1>7 DEF PagesReserved, PagesClaimed

\* The spenders beside the last to read the usage, against the faults so far.
LEMMA SpendersAtMost ==
  ASSUME TypeOK, BillersReserved
  PROVE  Cardinality(Billers) <= MaxConcurrentAudits - 1 + Cardinality(Handlers) + faults
  <1>1. /\ Cardinality(Billers) \in Nat /\ Cardinality(Cleared) \in Nat
        /\ Cardinality(Handlers) \in Nat /\ faults \in Nat
    BY SpendersType, HandlersFinite, BoundsAssumption DEF SpendersBounded, Cleared, TypeOK
  <1> QED BY <1>1, PlanAssumption DEF BillersReserved, Overshoot

\* k budgets have room for no more than k spenders.
LEMMA RoomFor ==
  ASSUME NEW p \in Int, NEW n \in Int, NEW k \in Int, NEW b \in Nat, NEW m \in Int,
         p <= m, n <= k
  PROVE  p + n * b <= m + k * b
  <1>1. n * b \in Int /\ k * b \in Int /\ n * b <= k * b
    BY TimesInt
  <1> QED BY <1>1

LEMMA OneOff ==
  ASSUME NEW s \in Nat, NEW k \in Int, s <= k + 1
  PROVE  \E n \in Int : n = s - 1 /\ s = n + 1 /\ n <= k
  OBVIOUS

LEMMA PagesGranted ==
  ASSUME TypeOK, TypeOK', BillersReserved, PagesReserved,
         NEW h \in Handlers, NEW wanted \in Wants, ReadUsage(h, wanted)
  PROVE  PagesReserved'
  <1> DEFINE full == MaxPagesPerAudit
             p == pagesCrawled[month]
             k == MaxConcurrentAudits + 2 * (Cardinality(Handlers) - 1) + faults
  <1>0. SpendersBounded /\ SpendersBounded'
    BY SpendersType, SpendersTypeNext
  <1>1. /\ UNCHANGED <<month, pagesCrawled, status, budget, mine, job, try, task, faults>>
        /\ pc[h] = "site" /\ pc' = [pc EXCEPT ![h] = "usage"]
        /\ grant' = [grant EXCEPT ![h] = PageBudget(wanted, p)]
        /\ Within(p, MaxPagesPerMonth)
    BY DEF ReadUsage, usageVars, workerVars
  <1>2. Billers' = Billers
    <2>1. \A g \in Handlers : pc'[g] = "committed" <=> pc[g] = "committed"
      BY <1>1 DEF TypeOK
    <2> QED BY <1>1, <2>1 DEF Billers, Exists, MayBill
  <1>3. h \in Checked' /\ grant'[h] \in Grants' /\ grant'[h] = PageBudget(wanted, p)
    <2>1. h \in Checked' /\ grant'[h] = PageBudget(wanted, p)
      BY <1>1 DEF Checked, TypeOK
    <2> QED BY <2>1 DEF Grants
  <1>4. Spenders' <= k + 1
    <2>1. /\ Cardinality(Checked') <= Cardinality(Handlers) /\ Cardinality(Checked') \in Nat
          /\ Cardinality(Billers) \in Nat /\ Cardinality(Handlers) \in Nat
      BY <1>0, <1>2 DEF SpendersBounded
    <2>2. Cardinality(Billers) <= MaxConcurrentAudits - 1 + Cardinality(Handlers) + faults
      BY SpendersAtMost
    <2>3. faults \in Nat
      BY BoundsAssumption DEF TypeOK
    <2> QED BY <1>2, <2>1, <2>2, <2>3, PlanAssumption DEF Spenders
  <1>5. /\ p \in Nat /\ Spenders' \in Nat /\ k \in Int /\ full \in Nat
        /\ MaxPagesPerMonth \in Nat
        /\ MostPages = MaxPagesPerMonth + k * full /\ MostPages' = MostPages
        /\ pagesCrawled'[month'] = p
    <2>1. p \in Nat /\ Spenders' \in Nat /\ Cardinality(Handlers) \in Nat
      BY <1>0 DEF SpendersBounded
    <2>2. faults \in Nat
      BY BoundsAssumption DEF TypeOK
    <2> QED BY <1>1, <2>1, <2>2, PlanAssumption DEF MostPages
  <1>6. PageBudget(wanted, p) \in Nat /\ PageBudget(wanted, p) <= MaxPagesPerMonth - p
    <2>1. /\ PageBudget(wanted, p) \in 1..MaxPagesPerAudit
          /\ PageBudget(wanted, p) <= MaxPagesPerMonth - p
      BY <1>1, <1>5, RequestAssumption, PageBudgetRange
    <2> QED BY <2>1, PlanAssumption
  <1>7. PICK n \in Int, q \in Int : n = Spenders' - 1 /\ n <= k /\ q = p + grant'[h] /\ q <= MaxPagesPerMonth
    <2>1. \E n \in Int : n = Spenders' - 1 /\ n <= k
      <3>1. Spenders' \in Nat /\ k \in Int
        BY <1>5
      <3> QED BY <1>4, <3>1, OneOff
    <2>2. p + grant'[h] \in Int /\ p + grant'[h] <= MaxPagesPerMonth
      BY <1>3, <1>5, <1>6
    <2> QED BY <2>1, <2>2
  <1>8. pagesCrawled'[month'] + grant'[h] + (Spenders' - 1) * MaxPagesPerAudit <= MostPages'
    <2>1. q + n * full <= MaxPagesPerMonth + k * full
      BY <1>5, <1>7, RoomFor
    <2> HIDE DEF k
    <2> QED BY <1>5, <1>7, <2>1
  <1>9. PagesClaimed'
    BY <1>3, <1>8 DEF PagesClaimed
  <1>10. faults' = faults /\ month' = month /\ pagesCrawled' = pagesCrawled
    BY <1>1
  <1> QED BY <1>9, <1>10, PagesKept

LEMMA PagesCommitted ==
  ASSUME TypeOK, TypeOK', Delivered, PagesReserved, NEW h \in Handlers, Commit(h)
  PROVE  PagesReserved'
  <1>0. SpendersBounded /\ SpendersBounded'
    BY SpendersType, SpendersTypeNext
  <1>1. PICK a \in Audits : /\ status[a] = "none"
                            /\ status' = [status EXCEPT ![a] = "pending"]
                            /\ budget' = [budget EXCEPT ![a] = grant[h]]
                            /\ mine' = [mine EXCEPT ![h] = a]
                            /\ grant' = [grant EXCEPT ![h] = 0]
                            /\ pc' = [pc EXCEPT ![h] = "committed"]
                            /\ pc[h] = "allowed"
                            /\ UNCHANGED <<month, pagesCrawled, job, try, task, faults>>
    BY DEF Commit, Forget, workerVars
  <1>2. /\ Billers' = Billers \cup {<<a, 1>>}
        /\ \A t \in Tries : <<a, t>> \notin Billers
    BY <1>1, CommitBillers
  <1>3. h \in Checked /\ Checked' = Checked \ {h}
    BY <1>1 DEF Checked, TypeOK
  <1>4. Spenders' = Spenders
    <2>1. 1 \in Tries
      BY QueueAssumption DEF Tries
    <2>2. Cardinality(Billers') = Cardinality(Billers) + 1
      BY <1>0, <1>2, <2>1, FS_AddElement DEF SpendersBounded
    <2>3. Cardinality(Checked') = Cardinality(Checked) - 1
      BY <1>0, <1>3, OneLess DEF SpendersBounded
    <2> QED BY <1>0, <2>2, <2>3 DEF SpendersBounded, Spenders
  <1>5. Grants \subseteq Grants'
    <2>1. \A u \in Billers : u \in Billers' /\ budget'[u[1]] = budget[u[1]]
      <3>1. \A u \in Billers : u[1] # a /\ u[1] \in Audits
        BY <1>2 DEF Billers
      <3> QED BY <1>1, <1>2, <3>1 DEF TypeOK
    <2>2. \A g \in Checked : g # h => g \in Checked' /\ grant'[g] = grant[g]
      BY <1>1, <1>3 DEF Checked, TypeOK
    <2>3. <<a, 1>> \in Billers' /\ budget'[<<a, 1>>[1]] = grant[h]
      BY <1>1, <1>2 DEF TypeOK
    <2> QED BY <1>3, <2>1, <2>2, <2>3 DEF Grants
  <1>6. MostPages' = MostPages /\ pagesCrawled'[month'] = pagesCrawled[month]
    BY <1>1 DEF MostPages
  <1>7. PagesClaimed'
    BY <1>4, <1>5, <1>6 DEF PagesReserved, PagesClaimed
  <1>8. faults' = faults /\ month' = month /\ pagesCrawled' = pagesCrawled
    BY <1>1
  <1> QED BY <1>7, <1>8, PagesKept

LEMMA PagesNextMonth ==
  ASSUME TypeOK, TypeOK', BillersReserved, PagesReserved, NextMonth
  PROVE  PagesReserved'
  <1> DEFINE full == MaxPagesPerAudit
             k == MaxConcurrentAudits + 2 * (Cardinality(Handlers) - 1) + faults
  <1>0. SpendersBounded /\ SpendersBounded'
    BY SpendersType, SpendersTypeNext
  <1>1. /\ UNCHANGED <<pagesCrawled, status, budget, mine, job, try, task, faults, pc, grant>>
        /\ month' = month + 1
    BY DEF NextMonth, admissionVars, workerVars
  <1>2. Billers' = Billers /\ Checked' = Checked /\ MostPages' = MostPages
    BY <1>1 DEF Billers, Exists, MayBill, Checked, MostPages
  <1>3. Spenders' <= k + 1
    <2>1. /\ Cardinality(Checked) <= Cardinality(Handlers) /\ Cardinality(Checked) \in Nat
          /\ Cardinality(Billers) \in Nat /\ Cardinality(Handlers) \in Nat
      BY <1>0 DEF SpendersBounded
    <2>2. Cardinality(Billers) <= MaxConcurrentAudits - 1 + Cardinality(Handlers) + faults
      BY SpendersAtMost
    <2>3. faults \in Nat
      BY BoundsAssumption DEF TypeOK
    <2> QED BY <1>2, <2>1, <2>2, <2>3, PlanAssumption DEF Spenders
  <1>4. /\ Spenders' \in Nat /\ k \in Int /\ full \in Nat
        /\ MaxPagesPerMonth \in Nat /\ full <= MaxPagesPerMonth
        /\ MostPages = MaxPagesPerMonth + k * full
    <2>1. Spenders' \in Nat /\ Cardinality(Handlers) \in Nat
      BY <1>0 DEF SpendersBounded
    <2>2. faults \in Nat
      BY BoundsAssumption DEF TypeOK
    <2> QED BY <2>1, <2>2, PlanAssumption DEF MostPages
  <1>5. month \in Int /\ month' \in Months /\ \A m \in Months : m \in Int
    BY BoundsAssumption DEF TypeOK, Months
  <1>6. pagesCrawled'[month'] = 0
    BY <1>1, <1>5 DEF PagesReserved
  <1>7. PICK n \in Int : Spenders' = n + 1 /\ n <= k
    <2>1. Spenders' \in Nat /\ k \in Int
      BY <1>4
    <2> QED BY <1>3, <2>1, OneOff
  <1>8. pagesCrawled'[month'] + Spenders' * MaxPagesPerAudit <= MostPages'
    <2>1. full + n * full <= MaxPagesPerMonth + k * full
      BY <1>4, <1>7, RoomFor
    <2>2. Spenders' * full = full + n * full
      <3>1. (n + 1) * full = full + n * full
        BY <1>4
      <3> QED BY <1>7, <3>1
    <2>3. Spenders' * full <= MostPages' /\ Spenders' * full \in Int
      <3>1. Spenders' * full \in Int
        BY <1>4
      <3> HIDE DEF k
      <3> QED BY <1>2, <1>4, <2>1, <2>2, <3>1
    <2> QED BY <1>6, <2>3
  <1>9. PagesClaimed'
    BY <1>8 DEF PagesClaimed
  <1>10. \A m \in Months : m > month' => pagesCrawled'[m] = 0
    BY <1>1, <1>5 DEF PagesReserved
  <1> QED BY <1>1, <1>2, <1>9, <1>10 DEF PagesReserved, PagesOvershoot

LEMMA NextPagesReserved ==
  ASSUME TypeOK, TypeOK', Delivered, PaidBySpent, BillersReserved, PagesReserved, [Next]_vars
  PROVE  PagesReserved'
  <1>1. ASSUME NEW h \in Handlers, Admit(h), ~Commit(h),
               \A wanted \in Wants : ~ReadUsage(h, wanted)
        PROVE  PagesReserved'
    <2>1. UNCHANGED <<month, pagesCrawled, budget>>
      BY <1>1 DEF Admit, OpenSite, CountRunning, Abandon, Enqueue, EnqueueFails, usageVars
    <2>2. Checked' \subseteq Checked /\ \A g \in Checked' : grant'[g] = grant[g]
      BY <1>1 DEF Admit, OpenSite, CountRunning, Abandon, Forget, Enqueue, EnqueueFails,
         Checked, TypeOK
    <2>3. Billers' \subseteq Billers /\ faults' \in {faults, faults + 1}
      BY <1>1, AdmitBillers DEF Fewer
    <2> QED BY <2>1, <2>2, <2>3, PagesUnbilled
  <1>2. ASSUME NEW a \in Audits, Work(a)
        PROVE  PagesReserved'
    <2>1. UNCHANGED <<month, pc, grant, budget>>
      BY <1>2 DEF Work, Start, TriesExhausted, Execute, CrawlReturns, CrawlRaises, Store,
         StoreFails, MarkFailed, MarkFails, Finish, Interrupt, Shutdown, Timeout, Crash,
         frame, admissionVars
    <2>2. Checked' = Checked
      BY <2>1 DEF Checked
    <2>3. CASE pagesCrawled' = pagesCrawled
      <3>1. \/ Billers' \subseteq Billers /\ faults' \in {faults, faults + 1}
            \/ (\E u : Billers' \subseteq Billers \cup {u}) /\ faults' = faults + 1
        BY <1>2, WorkBillers DEF Fewer, Again
      <3> QED BY <2>1, <2>2, <2>3, <3>1, PagesUnbilled
    <2>4. ASSUME NEW t \in Tries, NEW docs \in 0..budget[a],
                 <<a, t>> \in Billers, Billers' = Billers \ {<<a, t>>}, faults' = faults,
                 pagesCrawled' = [pagesCrawled EXCEPT ![month] = @ + docs]
          PROVE  PagesReserved'
      <3>1. PICK u \in Billers : u = <<a, t>>
        BY <2>4
      <3>2. docs \in 0..budget[u[1]] /\ Billers' = Billers \ {u}
        BY <2>4, <3>1
      <3> QED BY <2>1, <2>4, <3>2, PagesBilled
    <2> QED BY <1>2, <2>3, <2>4, StoreBills
  <1>3. ASSUME NEW a \in Audits, DeleteAudit(a)
        PROVE  PagesReserved'
    <2>1. UNCHANGED <<month, pagesCrawled, budget, pc, grant>>
      BY <1>3 DEF DeleteAudit, usageVars, admissionVars
    <2>2. Checked' = Checked
      BY <2>1 DEF Checked
    <2>3. Billers' \subseteq Billers /\ faults' \in {faults, faults + 1}
      BY <1>3, DeleteBillers DEF Fewer
    <2> QED BY <2>1, <2>2, <2>3, PagesUnbilled
  <1>4. CASE UNCHANGED vars
    <2>1. UNCHANGED <<month, pagesCrawled, budget, pc, grant, mine, status, job, try, task, faults>>
      BY <1>4 DEF vars, usageVars, admissionVars, workerVars
    <2>2. Checked' = Checked /\ Billers' = Billers
      BY <2>1 DEF Checked, Billers, Exists, MayBill
    <2> QED BY <2>1, <2>2, PagesUnbilled
  <1> QED
    BY <1>1, <1>2, <1>3, <1>4, PagesGranted, PagesCommitted, PagesNextMonth DEF Next

LEMMA InitPages == Init => BillersReserved /\ PagesReserved
  <1> SUFFICES ASSUME Init PROVE BillersReserved /\ PagesReserved
    OBVIOUS
  <1> DEFINE k == MaxConcurrentAudits + 2 * (Cardinality(Handlers) - 1) + 0
  <1>1. Cardinality(Handlers) \in Nat /\ faults = 0
    BY HandlersFinite DEF Init
  <1>2. /\ Billers = {} /\ Busy = {} /\ Checked = {} /\ Cleared = {}
        /\ Cardinality({}) = 0
    BY FS_EmptySet DEF Init, Billers, Busy, Running, Exists, Checked, Cleared
  <1>3. BillersReserved
    BY <1>1, <1>2, PlanAssumption DEF BillersReserved, Overshoot
  <1>4. MostPages \in Int /\ MostPages >= 0
    <2>1. k \in Int /\ k >= -1 /\ MostPages = MaxPagesPerMonth + k * MaxPagesPerAudit
      BY <1>1, PlanAssumption DEF MostPages
    <2> HIDE DEF k
    <2>2. /\ k * MaxPagesPerAudit \in Int
          /\ (-1) * MaxPagesPerAudit <= k * MaxPagesPerAudit
      <3>1. -1 \in Int /\ MaxPagesPerAudit \in Nat
        BY PlanAssumption
      <3> QED BY <2>1, <3>1, TimesInt
    <2>3. (-1) * MaxPagesPerAudit = 0 - MaxPagesPerAudit
      BY PlanAssumption
    <2> QED BY <2>1, <2>2, <2>3, PlanAssumption
  <1>5. Spenders = 0 /\ Spenders * MaxPagesPerAudit = 0
    <2>1. Spenders = 0
      BY <1>2 DEF Spenders
    <2>2. 0 * MaxPagesPerAudit = 0
      BY PlanAssumption
    <2> QED BY <2>1, <2>2
  <1>6. month \in Months /\ \A m \in Months : pagesCrawled[m] = 0
    BY BoundsAssumption DEF Init, Months
  <1> QED BY <1>3, <1>4, <1>5, <1>6 DEF PagesReserved, PagesOvershoot, PagesClaimed

(* The monthly pages, under every fault: whatever is in flight when a usage  *)
(* is read, a month takes at most one full budget more than its limit for   *)
(* each audit the concurrency limit admits, twice for each other handler,   *)
(* and for each fault after which a job is handed out again.                *)
THEOREM PagesBounded == Spec => []PagesOvershoot
  <1>1. Init => PaidBySpent
    BY InitPaid
  <1>2. PagesReserved => PagesOvershoot
    BY DEF PagesReserved
  <1>3. TypeOK /\ Delivered /\ PaidBySpent /\ BillersReserved /\ PagesReserved /\ [Next]_vars
          => (TypeOK /\ Delivered /\ PaidBySpent /\ BillersReserved /\ PagesReserved)'
    BY NextType, NextDelivered, NextPaid, NextBillersReserved, NextPagesReserved
  <1> QED BY <1>1, <1>2, <1>3, InitType, InitDelivered, InitPages, PTL DEF Spec
=============================================================================
