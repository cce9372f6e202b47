------------------------------ MODULE Billing ------------------------------
(***************************************************************************)
(* One organisation's entitlement: Stripe changes subscriptions and sends  *)
(* events about them, late, twice and in any order; the webhook handlers   *)
(* (api/routes/billing.py, apply_subscription of billing.py) copy them to   *)
(* the organisation's row; its owner checks out and uses the portal only   *)
(* while that row says "active".                                           *)
(***************************************************************************)
EXTENDS Integers, FiniteSets

CONSTANTS
    Subs,        \* subscriptions the organisation may come to have
    Plans,       \* plans with a configured price
    Webhooks,    \* webhook requests in progress at once
    LastPeriod,  \* bound: ends of billing periods, 1..LastPeriod
    MaxEvents,   \* bound: events Stripe sends
    MaxFaults    \* bound: webhook requests that fail

ASSUME BoundsAssumption ==
    LastPeriod \in Nat /\ MaxEvents \in Nat /\ MaxFaults \in Nat
ASSUME NamesAssumption ==
    "none" \notin Subs /\ "free" \notin Plans /\ "unmapped" \notin Plans

VARIABLES
    org,      \* the billing columns of organizations
    sub,      \* sub[s]: the subscription as Stripe has it
    sent,     \* events sent
    unacked,  \* those not answered with a 200 yet: Stripe retries them
    loaded,   \* loaded[w]: the row webhook w read
    event,    \* event[w]: the event w is applying, or Idle
    faults,   \* webhook requests failed so far (bounded by MaxFaults)
    alone,    \* no webhook has been received while another was in progress
    ordered   \* events have come in order, and none again once acknowledged

\* The last two tell what happened so far; no action reads them.
vars == <<org, sub, sent, unacked, loaded, event, faults, alone, ordered>>

Periods == 1..LastPeriod
NoPeriod == 0
NoSub == "none"
Unmapped == "unmapped"          \* a price plan_for_price does not know

ACTIVE_STATUSES == {"active", "trialing", "past_due"}

Customers == Subs \cup {NoSub}  \* a customer is named for its first subscription

Rows == [customer : Customers, sub : Subs \cup {NoSub}, plan : Plans \cup {"free"},
         status : {"active", "suspended"}, period : Periods \cup {NoPeriod}]

Subscriptions ==
    [customer : Customers, plan : Plans \cup {Unmapped}, period : Periods \cup {NoPeriod},
     status : {"none", "checkout", "incomplete", "active", "past_due", "canceled"}]

Events ==
    [sub : Subs, customer : Customers, plan : Plans \cup {Unmapped},
     period : Periods \cup {NoPeriod}, seq : 1..MaxEvents,
     status : {"incomplete", "active", "past_due", "canceled"}]

Fresh == [customer |-> NoSub, sub |-> NoSub, plan |-> "free", status |-> "active",
          period |-> NoPeriod]

Idle == [sub |-> NoSub]

Init ==
    /\ org = Fresh
    /\ sub = [s \in Subs |-> [customer |-> NoSub, plan |-> Unmapped,
                              period |-> NoPeriod, status |-> "none"]]
    /\ sent = {}
    /\ unacked = {}
    /\ loaded = [w \in Webhooks |-> Fresh]
    /\ event = [w \in Webhooks |-> Idle]
    /\ faults = 0
    /\ alone = TRUE
    /\ ordered = TRUE

webhookVars == <<loaded, event, faults, alone, ordered>>

-----------------------------------------------------------------------------
(* The organisation's owner: the two routes that lead to Stripe.           *)

\* _load_org refuses every request of an organisation that is not active.
Admitted == org.status = "active"

\* create_checkout: the session is for the known customer, or makes a new one.
CreateCheckout(s) ==
    /\ Admitted
    /\ sub[s].status = "none"
    /\ \E p \in Plans :
        sub' = [sub EXCEPT ![s] = [customer |-> IF org.customer = NoSub THEN s
                                                ELSE org.customer,
                                   plan |-> p, period |-> NoPeriod,
                                   status |-> "checkout"]]
    /\ UNCHANGED <<org, sent, unacked, webhookVars>>

\* create_portal: it opens on the subscriptions of the stored customer.
Portal(s) == Admitted /\ org.customer = sub[s].customer

-----------------------------------------------------------------------------
(* Stripe.                                                                 *)

\* A subscription changes and an event with its new state is on its way, with or
\* without its current_period_end.
Send(s, subscription) ==
    /\ Cardinality(sent) < MaxEvents
    /\ sub' = [sub EXCEPT ![s] = subscription]
    /\ \E p \in {subscription.period, NoPeriod} :
        LET e == [sub |-> s, customer |-> subscription.customer,
                  plan |-> subscription.plan, status |-> subscription.status,
                  period |-> p, seq |-> Cardinality(sent) + 1]
        IN  sent' = sent \cup {e} /\ unacked' = unacked \cup {e}
    /\ UNCHANGED <<org, webhookVars>>

\* The checkout is completed; its first payment is under way.
Subscribe(s) ==
    /\ sub[s].status = "checkout"
    /\ \E p \in Periods :
        Send(s, [sub[s] EXCEPT !.status = "incomplete", !.period = p])

Paid(s) ==
    /\ sub[s].status \in {"incomplete", "past_due"}
    /\ Send(s, [sub[s] EXCEPT !.status = "active"])

PaymentFails(s) ==
    /\ sub[s].status = "active"
    /\ Send(s, [sub[s] EXCEPT !.status = "past_due"])

Renew(s) ==
    /\ sub[s].status = "active"
    /\ \E p \in Periods :
        /\ p > sub[s].period
        /\ Send(s, [sub[s] EXCEPT !.period = p])

\* In the portal; the customer may pick a price this deployment does not map.
ChangePlan(s) ==
    /\ sub[s].status = "active"
    /\ Portal(s)
    /\ \E p \in (Plans \cup {Unmapped}) \ {sub[s].plan} :
        Send(s, [sub[s] EXCEPT !.plan = p])

\* customer.subscription.deleted: the owner cancels, or Stripe gives up.
Cancel(s) ==
    /\ sub[s].status \in {"active", "past_due", "incomplete"}
    /\ sub[s].status = "active" => Portal(s)
    /\ Send(s, [sub[s] EXCEPT !.status = "canceled"])

-----------------------------------------------------------------------------
(* The webhook.                                                            *)

\* parse_event: an event of an unmapped price says nothing, unless it deletes.
Parses(e) == e.status = "canceled" \/ e.plan # Unmapped

\* A slip: no comparison of periods.
StaleNever(row, e) == FALSE

\* A slip: an event of the known period is taken for stale, too.
StaleOrSame(row, e) ==
    row.period # NoPeriod /\ e.period # NoPeriod /\ e.period <= row.period

\* The guard of apply_subscription: both periods are known, the event's is older.
Stale(row, e) ==
    /\ row.period # NoPeriod
    /\ e.period # NoPeriod
    /\ e.period < row.period

\* What apply_subscription assigns to the columns.
IsActive(e) == e.status \in ACTIVE_STATUSES

RowOf(e) ==
    [customer |-> e.customer, sub |-> e.sub,
     plan |-> IF IsActive(e) THEN e.plan ELSE "free",
     status |-> IF IsActive(e) THEN "active" ELSE "suspended",
     period |-> e.period]

\* What is noted of a delivery.
Noted(e) ==
    /\ alone' = (alone /\ \A v \in Webhooks : event[v] = Idle)
    /\ ordered' = (ordered /\ e \in unacked /\ \A f \in unacked : e.seq <= f.seq)

\* A slip: a stale event is answered with an error.
IgnoreRefuses(w, e) ==
    /\ event[w] = Idle
    /\ ~Parses(e)
    /\ unacked' = unacked \ {e}
    /\ Noted(e)
    /\ UNCHANGED <<org, sub, sent, loaded, event, faults>>

\* An event that changes no entitlement, or a stale one: 200, nothing written.
Ignore(w, e) ==
    /\ event[w] = Idle
    /\ ~Parses(e) \/ Stale(org, e)
    /\ unacked' = unacked \ {e}
    /\ Noted(e)
    /\ UNCHANGED <<org, sub, sent, loaded, event, faults>>

\* The row is read (by customer, or by the org id of the metadata), the guard
\* passed, and the columns are assigned in the session; nothing is written yet.
Apply(w, e) ==
    /\ event[w] = Idle
    /\ Parses(e)
    /\ ~Stale(org, e)
    /\ loaded' = [loaded EXCEPT ![w] = org]
    /\ event' = [event EXCEPT ![w] = e]
    /\ Noted(e)
    /\ UNCHANGED <<org, sub, sent, unacked, faults>>

\* The flush: its UPDATE sets the columns whose values differ from those read.
Changed(before, row) ==
    [c \in DOMAIN org |-> IF row[c] # before[c] THEN row[c] ELSE org[c]]

\* get_db commits at the end of the request, and Stripe sees the 200.
Commit(w) ==
    /\ event[w] # Idle
    /\ org' = Changed(loaded[w], RowOf(event[w]))
    /\ unacked' = unacked \ {event[w]}
    /\ event' = [event EXCEPT ![w] = Idle]
    /\ UNCHANGED <<sub, sent, loaded, faults, alone, ordered>>

\* The request fails or its process dies: rolled back, and Stripe retries.
Fail(w) ==
    /\ event[w] # Idle
    /\ faults < MaxFaults
    /\ faults' = faults + 1
    /\ event' = [event EXCEPT ![w] = Idle]
    /\ UNCHANGED <<org, sub, sent, unacked, loaded, alone, ordered>>

\* Deliveries come in any order, and again after the event was acknowledged.
Delivered == sent

Receive(w, e) == Ignore(w, e) \/ Apply(w, e)

Stripe(s) ==
    \/ Subscribe(s) \/ Paid(s) \/ PaymentFails(s)
    \/ Renew(s) \/ ChangePlan(s) \/ Cancel(s)

Next ==
    \/ \E s \in Subs : CreateCheckout(s) \/ Stripe(s)
    \/ \E w \in Webhooks :
        \/ \E e \in Delivered : Receive(w, e)
        \/ Commit(w)
        \/ Fail(w)

Spec == Init /\ [][Next]_vars

(* Stripe retries for days what was not answered with a 200, so that it      *)
(* receives something of that again and again as long as it can (SF), while  *)
(* some handler in progress runs to its end. It need not be fair to each     *)
(* event, nor the scheduler to each handler.                                *)
Fairness ==
    /\ SF_vars(\E w \in Webhooks, e \in unacked : Receive(w, e))
    /\ WF_vars(\E w \in Webhooks : Commit(w))

FairSpec == Spec /\ Fairness

-----------------------------------------------------------------------------
(* Properties.                                                             *)

\* The variables hold values of their types.
TypeOK ==
    /\ org \in Rows
    /\ sub \in [Subs -> Subscriptions]
    /\ sent \subseteq Events
    /\ unacked \subseteq sent
    /\ loaded \in [Webhooks -> Rows]
    /\ event \in [Webhooks -> sent \cup {Idle}]
    /\ faults \in 0..MaxFaults
    /\ alone \in BOOLEAN /\ ordered \in BOOLEAN

Told(e) == e \in sent \ unacked /\ Parses(e)

\* A row that one event made, or none.
Whole(row) == row = Fresh \/ \E e \in sent : row = RowOf(e)

Timed == \A e \in sent : e.period # NoPeriod

(* Applied one at a time, events that carry their period leave the row of    *)
(* one of those of the latest period told so far, whole, whatever the order *)
(* they came in, however often, and whatever failed on the way.             *)
RowOfLatestPeriod ==
    alone /\ Timed =>
        /\ Whole(org)
        /\ \A e \in sent : Told(e) => e.period <= org.period

(* Applied one at a time, once each and in order, the events of a single     *)
(* subscription leave the row of the last of them that says something: no    *)
(* event is taken for stale that is not, with or without its period.        *)
FollowsStripe ==
    alone /\ ordered /\ (\A e, f \in sent : e.sub = f.sub) =>
        \A e \in sent :
            Told(e) /\ (\A f \in sent : Told(f) => f.seq <= e.seq) => org = RowOf(e)

(* What the proofs carry: the guard held on the row the handler read.       *)
GuardHeld ==
    \A w \in Webhooks :
        event[w] # Idle => Parses(event[w]) /\ ~Stale(loaded[w], event[w])

(* The stale guard is a check before an act, and a flush writes only the     *)
(* columns that differ from the row as read: a known period goes back to an *)
(* older one, or a row of no single event's making comes about, only by a   *)
(* webhook whose row another changed between its read and its write. One    *)
(* that overlapped none sets right again what others left.                  *)
Older(row, than) == row.period # NoPeriod /\ row.period < than.period

HarmNeedsOverlap ==
    [][org' # org /\ (Older(org', org) \/ ~Whole(org')) =>
           \E w \in Webhooks : event[w] # Idle /\ event'[w] = Idle /\ loaded[w] # org]_vars

(* stripe_webhook answers every event in the end, also those it can do       *)
(* nothing with, so that Stripe stops retrying.                             *)
AllAcknowledged == <>[](unacked = {})

-----------------------------------------------------------------------------
(* What the source says of the program and the code does not keep.          *)

Quiet == unacked = {} /\ \A w \in Webhooks : event[w] = Idle

(* billing.py: "Webhooks are idempotent and order-tolerant": once all are    *)
(* told, the row of an organisation with one subscription agrees with it.   *)
OrderTolerant ==
    \A s \in Subs :
        Quiet /\ sub[s].status = "canceled" => org.plan = "free"
=============================================================================
