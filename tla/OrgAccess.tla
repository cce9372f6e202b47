----------------------------- MODULE OrgAccess -----------------------------
(***************************************************************************)
(* One organisation's members and API keys (api/routes/orgs.py). A request  *)
(* runs in one READ COMMITTED transaction that get_db commits at its end:   *)
(* who asks, the member it is about, the owners and the seats are read by   *)
(* separate statements, and what other requests commit meanwhile is not     *)
(* looked at again when the change is written.                             *)
(***************************************************************************)
EXTENDS Integers, FiniteSets

CONSTANTS
    Users,        \* people with an account
    Founder,      \* who signed up with the organisation
    Handlers,     \* requests in progress at once
    MaxMembers,   \* the plan: its seats
    MaxApiKeys,   \* the plan: its keys
    Keys,         \* keys: bound on those unrevoked at once
    Asks,         \* the sets of scopes asked for a key
    Grants,       \* the roles asked for a member
    MaxJoins      \* bound: memberships ever made

ASSUME FounderAssumption == Founder \in Users
ASSUME PlanAssumption == MaxMembers \in Nat \ {0} /\ MaxApiKeys \in Nat \ {0}
ASSUME BoundsAssumption == MaxJoins \in Nat \ {0}
ASSUME InputsAssumption ==
    /\ Asks \subseteq SUBSET {"read", "write", "manage", "bill"}
    /\ Grants \subseteq {"owner", "admin", "member", "viewer"}
ASSUME FiniteAssumption ==
    IsFiniteSet(Users) /\ IsFiniteSet(Handlers) /\ Handlers # {} /\ IsFiniteSet(Keys)

VARIABLES
    role,    \* role[u]: u's role, "none" without a membership
    row,     \* row[u]: which of u's memberships it is; its id in the code
    joins,   \* memberships made (bounded by MaxJoins)
    key,     \* key[k]: the scopes of the API key, {} when revoked or not made
    req,     \* req[h]: the request h is serving
    alone    \* requests that have not overlapped another: what happened, read by no action

vars == <<role, row, joins, key, req, alone>>

Roles == {"owner", "admin", "member", "viewer"}

\* role_scopes, with the scopes that go together taken as one.
RoleScopes(r) ==
    CASE r = "owner"  -> {"read", "write", "manage", "bill"}
      [] r = "admin"  -> {"read", "write", "manage"}
      [] r = "member" -> {"read", "write"}
      [] r = "viewer" -> {"read"}
      [] OTHER        -> {}

Scopes == RoleScopes("owner")

Members == {u \in Users : role[u] # "none"}
Owners == {u \in Users : role[u] = "owner"}

\* revoked_at IS NULL. Whether a key has expired is not asked.
Unrevoked == {k \in Keys : key[k] # {}}

NoRequest ==
    [op |-> "none", at |-> "idle", as |-> "none", about |-> Founder,
     to |-> "none", saw |-> 0, scopes |-> {}]

Ops == {"add", "change", "remove", "mint", "revoke"}

Init ==
    /\ role = [u \in Users |-> IF u = Founder THEN "owner" ELSE "none"]
    /\ row = [u \in Users |-> IF u = Founder THEN 1 ELSE 0]
    /\ joins = 1
    /\ key = [k \in Keys |-> {}]
    /\ req = [h \in Handlers |-> NoRequest]
    /\ alone = {}

-----------------------------------------------------------------------------
(* A request, statement by statement.                                      *)

\* require_role: changing a role takes an owner, the rest an admin too.
Required(op) == IF op = "change" THEN {"owner"} ELSE {"owner", "admin"}

Progress(h, request) ==
    /\ req' = [req EXCEPT ![h] = request]
    /\ UNCHANGED <<role, row, joins, key, alone>>

\* _principal_from_jwt re-reads the caller's membership; require_role judges it.
Authenticate(h, u, op) ==
    /\ req[h] = NoRequest
    /\ role[u] \in Required(op)
    /\ req' = [req EXCEPT ![h] =
                 [NoRequest EXCEPT !.op = op, !.at = "admitted", !.as = role[u]]]
    /\ alone' = IF \A g \in Handlers : req[g] = NoRequest THEN {h} ELSE {}
    /\ UNCHANGED <<role, row, joins, key>>

\* A slip: a plan of n admits n + 1.
BelowOneMore(used, limit) == used <= limit

\* 402 when used >= limit.
Below(used, limit) == used < limit

\* add_member counts the seats.
CountSeats(h) ==
    /\ req[h].op = "add" /\ req[h].at = "admitted"
    /\ Below(Cardinality(Members), MaxMembers)
    /\ Progress(h, [req[h] EXCEPT !.at = "counted"])

\* A slip: an admin may add an owner.
CheckNewAny(h, u, r) ==
    /\ req[h].op = "add" /\ req[h].at = "counted"
    /\ role[u] = "none"
    /\ Progress(h, [req[h] EXCEPT !.at = "ready", !.about = u, !.to = r])

\* add_member: not yet a member, and only an owner adds an owner.
CheckNew(h, u, r) ==
    /\ req[h].op = "add" /\ req[h].at = "counted"
    /\ role[u] = "none"
    /\ r = "owner" => req[h].as = "owner"
    /\ Progress(h, [req[h] EXCEPT !.at = "ready", !.about = u, !.to = r])

\* Whether _refuse_if_last_owner is called for a member seen as an owner.
Guarded(h, r) == req[h].op = "remove" \/ r # "owner"

\* A slip: an admin may remove an owner who is not the last.
LoadMemberAny(h, u, r) ==
    /\ req[h].op \in {"change", "remove"} /\ req[h].at = "admitted"
    /\ req[h].op = "remove" <=> r = "none"
    /\ role[u] # "none"
    /\ Progress(h, [req[h] EXCEPT
           !.at = IF role[u] = "owner" /\ Guarded(h, r) THEN "guarded" ELSE "ready",
           !.about = u, !.to = IF role[u] = r THEN "same" ELSE r, !.saw = row[u]])

\* change_member_role and remove_member (to "none") load the membership.
LoadMember(h, u, r) ==
    /\ req[h].op \in {"change", "remove"} /\ req[h].at = "admitted"
    /\ req[h].op = "remove" <=> r = "none"
    /\ role[u] # "none"
    /\ role[u] = "owner" => req[h].as = "owner"
    /\ Progress(h, [req[h] EXCEPT
           !.at = IF role[u] = "owner" /\ Guarded(h, r) THEN "guarded" ELSE "ready",
           !.about = u, !.to = IF role[u] = r THEN "same" ELSE r, !.saw = row[u]])

\* A slip: the owners are counted, but one is thought enough.
RefuseIfNoOwner(h) ==
    /\ req[h].at = "guarded"
    /\ Cardinality(Owners) >= 1
    /\ Progress(h, [req[h] EXCEPT !.at = "ready"])

\* _refuse_if_last_owner.
RefuseIfLastOwner(h) ==
    /\ req[h].at = "guarded"
    /\ Cardinality(Owners) > 1
    /\ Progress(h, [req[h] EXCEPT !.at = "ready"])

\* A slip: a key none of whose scopes the role allows is made all the same.
CountKeysEmpty(h, asked) ==
    /\ req[h].op = "mint" /\ req[h].at = "admitted"
    /\ Below(Cardinality(Unrevoked), MaxApiKeys)
    /\ Progress(h, [req[h] EXCEPT !.at = "ready",
                                  !.scopes = asked \cap RoleScopes(req[h].as)])

\* create_key counts the keys, and caps the scopes asked for by the caller's role.
CountKeys(h, asked) ==
    /\ req[h].op = "mint" /\ req[h].at = "admitted"
    /\ Below(Cardinality(Unrevoked), MaxApiKeys)
    /\ asked \cap RoleScopes(req[h].as) # {}
    /\ Progress(h, [req[h] EXCEPT !.at = "ready",
                                  !.scopes = asked \cap RoleScopes(req[h].as)])

\* Refused, or failed before the commit: nothing remains.
Abandon(h) ==
    /\ req[h] # NoRequest
    /\ Progress(h, NoRequest)

-----------------------------------------------------------------------------
(* The commit. A unique (user, org) refuses a second membership; an UPDATE  *)
(* of a row that is gone fails, a DELETE of one does nothing.               *)

Ready(h, op) ==
    /\ req[h].op = op /\ req[h].at = "ready"
    /\ req' = [req EXCEPT ![h] = NoRequest]

CommitAdd(h) ==
    LET u == req[h].about IN
    /\ Ready(h, "add")
    /\ role[u] = "none"
    /\ joins < MaxJoins
    /\ joins' = joins + 1
    /\ row' = [row EXCEPT ![u] = @ + 1]
    /\ role' = [role EXCEPT ![u] = req[h].to]
    /\ UNCHANGED <<key, alone>>

\* A role equal to the loaded one is no change, and writes nothing.
CommitChange(h) ==
    LET u == req[h].about IN
    /\ Ready(h, "change")
    /\ \/ req[h].to = "same" /\ role' = role
       \/ /\ req[h].to # "same" /\ role[u] # "none" /\ row[u] = req[h].saw
          /\ role' = [role EXCEPT ![u] = req[h].to]
    /\ UNCHANGED <<row, joins, key, alone>>

CommitRemove(h) ==
    LET u == req[h].about IN
    /\ Ready(h, "remove")
    /\ role' = IF row[u] = req[h].saw THEN [role EXCEPT ![u] = "none"] ELSE role
    /\ UNCHANGED <<row, joins, key, alone>>

CommitMint(h) ==
    \E k \in Keys :
        /\ Ready(h, "mint")
        /\ k \notin Unrevoked
        /\ key' = [key EXCEPT ![k] = req[h].scopes]
        /\ UNCHANGED <<role, row, joins, alone>>

\* revoke_key: one row, its own revoked_at.
Revoke(h, k) ==
    /\ req[h].op = "revoke" /\ req[h].at = "admitted"
    /\ k \in Unrevoked
    /\ key' = [key EXCEPT ![k] = {}]
    /\ req' = [req EXCEPT ![h] = NoRequest]
    /\ UNCHANGED <<role, row, joins, alone>>

Commit(h) == CommitAdd(h) \/ CommitChange(h) \/ CommitRemove(h) \/ CommitMint(h)

Serve(h) ==
    \/ \E u \in Users, op \in Ops : Authenticate(h, u, op)
    \/ CountSeats(h)
    \/ \E u \in Users, r \in Grants : CheckNew(h, u, r)
    \/ \E u \in Users, r \in Grants \cup {"none"} : LoadMember(h, u, r)
    \/ RefuseIfLastOwner(h)
    \/ \E asked \in Asks : CountKeys(h, asked)
    \/ Commit(h)
    \/ \E k \in Keys : Revoke(h, k)
    \/ Abandon(h)

Next == \E h \in Handlers : Serve(h)

Spec == Init /\ [][Next]_vars

-----------------------------------------------------------------------------
(* Properties.                                                             *)

\* A request that is ready has what its commit needs: a key to be made, a scope.
WellFormed(q) ==
    /\ q.at = "guarded" => q.op \in {"change", "remove"}
    /\ q.at = "ready" /\ q.op = "add" => q.to \in Roles
    /\ q.at \in {"guarded", "ready"} /\ q.op = "change" => q.to \in Roles \cup {"same"}
    /\ q.at \in {"guarded", "ready"} /\ q.op = "remove" => q.to = "none"
    /\ q.at = "ready" /\ q.op = "mint" => q.scopes # {}

RequestsWellFormed == \A h \in Handlers : WellFormed(req[h])

\* The variables hold values of their types; a member has a row, and a request what
\* its commit needs.
TypeOK ==
    /\ role \in [Users -> Roles \cup {"none"}]
    /\ row \in [Users -> Nat]
    /\ joins \in 1..MaxJoins
    /\ key \in [Keys -> SUBSET Scopes]
    /\ \A u \in Users : role[u] # "none" => row[u] > 0
    /\ req \in [Handlers -> [op : Ops \cup {"none"}, as : Roles \cup {"none"},
                   at : {"idle", "admitted", "counted", "guarded", "ready"},
                   about : Users, to : Roles \cup {"none", "same"},
                   saw : Nat, scopes : SUBSET Scopes]]
    /\ RequestsWellFormed
    /\ alone \subseteq Handlers

(* orgs.py: "an organisation must keep at least one owner". With one request *)
(* at a time it does; two owners who leave at once each see the other.        *)
OwnerRemains == Owners # {}

(* However many requests there are, the last owner goes only by the commit   *)
(* of a request that overlapped another: no sequence of the member routes   *)
(* gets around _refuse_if_last_owner.                                       *)
LastOwnerNeedsOverlap ==
    [][OwnerRemains /\ ~OwnerRemains' =>
           \E h \in Handlers \ alone : req[h].at = "ready" /\ req'[h] = NoRequest]_vars

(* An admin is refused a request about an owner ("only an owner can remove   *)
(* an owner"), but by the role in the row as loaded: an owner loses the role *)
(* only by a request let in as an owner's, or by one that overlapped        *)
(* another, such as the one that made an owner of the member it had loaded. *)
ActsAsOwner(h) == req[h].as = "owner"

OwnersUnseatedByOwners ==
    [][\A u \in Users : role[u] = "owner" /\ role'[u] # "owner" =>
           \E h \in Handlers : req[h].about = u /\ req'[h] = NoRequest
                              /\ (h \in alone => ActsAsOwner(h))]_vars

(* Only an owner mints an owner: whoever becomes one does so by a request    *)
(* that was let in as an owner's, whatever happened to its maker since.      *)
OwnersMadeByOwners ==
    [][\A u \in Users : role[u] # "owner" /\ role'[u] = "owner" =>
           \E h \in Handlers : ActsAsOwner(h) /\ req[h].about = u /\ req'[h] = NoRequest]_vars

(* The seats and the keys are counted before they are taken, by requests     *)
(* that do not wait for each other: the plan can be passed by one for each   *)
(* other request in the same window, and by no more.                        *)
SeatsOvershoot == Cardinality(Members) <= MaxMembers - 1 + Cardinality(Handlers)

KeysOvershoot == Cardinality(Unrevoked) <= MaxApiKeys - 1 + Cardinality(Handlers)

(* What the proofs carry: requests past a count are as good as committed.   *)
Joining == {h \in Handlers : req[h].op = "add" /\ req[h].at \in {"counted", "ready"}}
Minting == {h \in Handlers : req[h].op = "mint" /\ req[h].at = "ready"}

SeatsReserved ==
    Cardinality(Members) + Cardinality(Joining) <= MaxMembers - 1 + Cardinality(Handlers)

KeysReserved ==
    Cardinality(Unrevoked) + Cardinality(Minting) <= MaxApiKeys - 1 + Cardinality(Handlers)

\* A request that may make an owner was let in as an owner's.
Entitled ==
    \A h \in Handlers :
        /\ req[h].op = "change" => ActsAsOwner(h)
        /\ req[h].op = "add" /\ req[h].at = "ready" /\ req[h].to = "owner" => ActsAsOwner(h)

\* While a request is alone no other is in progress.
AloneIsAlone == \A h \in alone : \A g \in Handlers \ {h} : req[g] = NoRequest

\* A request alone about to take the role of an owner has seen another one.
Spared ==
    \A h \in alone :
        /\ req[h].op \in {"change", "remove"} /\ req[h].at = "ready"
        /\ req[h].to \notin {"owner", "same"} /\ role[req[h].about] = "owner"
        => Cardinality(Owners) > 1

\* A request alone about an owner is an owner's.
Authorised ==
    \A h \in alone :
        /\ req[h].op \in {"change", "remove"} /\ req[h].at \in {"guarded", "ready"}
        /\ role[req[h].about] = "owner"
        => ActsAsOwner(h)

=============================================================================
