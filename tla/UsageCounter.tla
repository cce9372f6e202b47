---------------------------- MODULE UsageCounter ----------------------------
(***************************************************************************)
(* record_usage (tenancy/quotas.py): the UPDATE-then-INSERT upsert of one   *)
(* usage_counters row, i.e. one (org, period, metric), run by several       *)
(* request handlers and workers, each inside a transaction of its own.      *)
(*                                                                         *)
(* The database is PostgreSQL under READ COMMITTED: a write takes the row   *)
(* (or, for an INSERT, the key of uq_usage) until its transaction ends; a   *)
(* statement sees committed data only; an UPDATE waits for a locked row, an *)
(* INSERT for an uncommitted one with the same key.                         *)
(***************************************************************************)
EXTENDS Integers

CONSTANTS
    Workers,    \* the connections that meter usage
    Amounts,    \* the amounts they add
    MaxCalls,   \* bound: the calls of record_usage a behaviour makes
    Nobody      \* the row is not locked

ASSUME AmountsAssumption == Amounts \subseteq Nat
ASSUME MaxCallsAssumption == MaxCalls \in Nat
ASSUME NobodyAssumption == Nobody \notin Workers

VARIABLES
    row,      \* the committed value, or NoRow
    holder,   \* the worker whose open transaction wrote the row, or Nobody
    draft,    \* the value it wrote
    pc,       \* pc[w]: where w is in record_usage
    amount,   \* amount[w]: what w is adding
    told,     \* told[w]: the total w's last committed call returned
    calls     \* calls made so far (bounded by MaxCalls)

upsertVars == <<row, holder, draft, pc, amount, told, calls>>

NoRow == -1

Locations == {"idle", "bump", "insert", "rebump", "recorded"}

UpsertInit ==
    /\ row = NoRow
    /\ holder = Nobody
    /\ draft = 0
    /\ pc = [w \in Workers |-> "idle"]
    /\ amount = [w \in Workers |-> 0]
    /\ told = [w \in Workers |-> 0]
    /\ calls = 0

-----------------------------------------------------------------------------
(* Statements of the upsert.                                               *)

\* The write of w reaches the row: it is w's until its transaction ends.
Write(w, value) ==
    /\ holder' = w
    /\ draft' = value
    /\ pc' = [pc EXCEPT ![w] = "recorded"]
    /\ UNCHANGED <<row, amount, told, calls>>

Goto(w, location) ==
    /\ pc' = [pc EXCEPT ![w] = location]
    /\ UNCHANGED <<row, holder, draft, amount, told, calls>>

RecordUsage(w, n) ==
    /\ pc[w] = "idle"
    /\ calls < MaxCalls
    /\ calls' = calls + 1
    /\ pc' = [pc EXCEPT ![w] = "bump"]
    /\ amount' = [amount EXCEPT ![w] = n]
    /\ UNCHANGED <<row, holder, draft, told>>

\* _bump: UPDATE ... SET value = value + amount, which waits for the row.
Bump(w) ==
    /\ pc[w] = "bump"
    /\ row # NoRow
    /\ holder = Nobody
    /\ Write(w, row + amount[w])

\* The UPDATE matched no committed row: an uncommitted INSERT is invisible.
BumpMisses(w) ==
    /\ pc[w] = "bump"
    /\ row = NoRow
    /\ Goto(w, "insert")

\* A slip: INSERT without the unique constraint, replacing what is there.
InsertOverwrites(w) ==
    /\ pc[w] = "insert"
    /\ holder = Nobody
    /\ Write(w, amount[w])

\* The INSERT of begin_nested(), once no other insert of the key is open.
Insert(w) ==
    /\ pc[w] = "insert"
    /\ holder = Nobody
    /\ row = NoRow
    /\ Write(w, amount[w])

\* A slip: IntegrityError taken for any failure, also one of a lock wait.
InsertGivesUp(w) ==
    /\ pc[w] = "insert"
    /\ (row # NoRow \/ holder # Nobody)
    /\ Goto(w, "rebump")

\* IntegrityError: only the savepoint is rolled back, and the UPDATE retried.
InsertConflicts(w) ==
    /\ pc[w] = "insert"
    /\ holder = Nobody
    /\ row # NoRow
    /\ Goto(w, "rebump")

Rebump(w) ==
    /\ pc[w] = "rebump"
    /\ row # NoRow
    /\ holder = Nobody
    /\ Write(w, row + amount[w])

\* A slip: the connection goes back to the pool with its transaction open.
CommitKeepsLock(w) ==
    /\ pc[w] = "recorded"
    /\ row' = draft
    /\ told' = [told EXCEPT ![w] = draft]
    /\ pc' = [pc EXCEPT ![w] = "idle"]
    /\ UNCHANGED <<holder, draft, amount, calls>>

\* The caller's transaction commits; record_usage had returned draft.
CommitUpsert(w) ==
    /\ pc[w] = "recorded"
    /\ row' = draft
    /\ holder' = Nobody
    /\ told' = [told EXCEPT ![w] = draft]
    /\ pc' = [pc EXCEPT ![w] = "idle"]
    /\ UNCHANGED <<draft, amount, calls>>

\* The caller fails, or its process dies: nothing of the call remains.
Rollback(w) ==
    /\ pc[w] # "idle"
    /\ holder' = IF holder = w THEN Nobody ELSE holder
    /\ pc' = [pc EXCEPT ![w] = "idle"]
    /\ UNCHANGED <<row, draft, amount, told, calls>>

Step(w) ==
    \/ Bump(w) \/ BumpMisses(w)
    \/ Insert(w) \/ InsertConflicts(w)
    \/ Rebump(w)

UpsertNext ==
    \E w \in Workers :
        \/ \E n \in Amounts : RecordUsage(w, n)
        \/ Step(w)
        \/ CommitUpsert(w)
        \/ Rollback(w)

UpsertSpec == UpsertInit /\ [][UpsertNext]_upsertVars

(* PostgreSQL queues lock waiters in order, so a statement that can run     *)
(* again and again runs (SF); a transaction that has metered ends (WF).     *)
UpsertFairness == \A w \in Workers : SF_upsertVars(Step(w)) /\ WF_upsertVars(CommitUpsert(w))

UpsertFairSpec == UpsertSpec /\ UpsertFairness

-----------------------------------------------------------------------------
(* Properties.                                                             *)

\* The variables hold values of their types.
UpsertTypeOK ==
    /\ row \in Nat \cup {NoRow}
    /\ holder \in Workers \cup {Nobody}
    /\ draft \in Nat
    /\ pc \in [Workers -> Locations]
    /\ amount \in [Workers -> Nat]
    /\ \A w \in Workers : pc[w] # "idle" => amount[w] \in Amounts
    /\ told \in [Workers -> Nat]
    /\ calls \in Nat

(* What the proofs carry: the open write is of the transaction that has     *)
(* recorded, and is the committed total plus that transaction's amount.     *)
Base == IF row = NoRow THEN 0 ELSE row

OneWriter ==
    /\ \A w \in Workers : pc[w] = "recorded" <=> holder = w
    /\ \A w \in Workers : holder = w => draft = Base + amount[w]

(* The IntegrityError path of record_usage always finds the row the other   *)
(* worker inserted, so its final `raise` ("pragma: no cover") is dead code. *)
RebumpFindsRow == \A w \in Workers : pc[w] = "rebump" => row # NoRow

(* record_usage loses no increment and answers with the right total: the    *)
(* upsert, its lock waits, its savepoint and its retry together implement   *)
(* one atomic addition per committed transaction and none per aborted one.  *)
Counter == INSTANCE AtomicCounter WITH total <- Base

NoLostIncrement == Counter!Spec

(* A call of record_usage gets through: whatever the other workers do, it   *)
(* comes to have recorded its amount or its transaction is rolled back.     *)
CallReturns ==
    \A w \in Workers : pc[w] = "bump" ~> pc[w] \in {"recorded", "idle"}
=============================================================================
